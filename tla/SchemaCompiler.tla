---------------------------- MODULE SchemaCompiler ----------------------------
(***************************************************************************)
(* A workflow schema, what parsing and compiling it refuse                 *)
(* (src/schema/profile-schema.ts, src/schema/compile-workflow.ts), and the *)
(* ways through a schema that was accepted: a session along its edges      *)
(* (src/domain/engine.ts), a task through a loop                           *)
(* (src/domain/task-movement.ts).                                          *)
(*                                                                         *)
(* A guard is an expression that may hold or not; BrokenGuard is one that  *)
(* does not parse.  Names of keys are kept, their values only where a rule *)
(* reads them.                                                             *)
(***************************************************************************)
EXTENDS Integers, Sequences, FiniteSets, SequencesExt

CONSTANTS
    Schemas,      \* what authors write, by name
    SchemaOf(_),  \* the schema of a name
    BrokenGuard,  \* a guard that does not parse
    WildMasks,    \* the masks that have a wildcard
    BadPatterns,  \* the command patterns that are no regular expression
    MaxNesting    \* how deep stages lie in one another

VARIABLES
    schema,    \* what is compiled, or NoSchema
    problems,  \* what parsing and compiling said of it
    stage,     \* where a session of it is
    task,      \* where a task of it is: [loop, stage]
    step       \* what the last move read and did

schemaVars == <<schema, problems, stage, task, step>>

-----------------------------------------------------------------------------
(* What an author declares.                                                *)
NoSchema == [none |-> TRUE]
Transition(from, to) ==
    [from |-> from, to |-> to, guard |-> "", consent |-> FALSE, bumpRetry |-> ""]
ActionEntry(action) ==
    [action |-> action, paths |-> <<>>, commands |-> <<>>, delivers |-> FALSE, guard |-> ""]
NoDispatch == [strategy |-> "none", maxConcurrent |-> 0]
Stage(id) ==
    [id |-> id, loop |-> "", dispatch |-> NoDispatch, retryBudget |-> 0, allowedAgents |-> {},
     actions |-> <<>>, entryGuards |-> {}, exitGuards |-> {}, stages |-> <<>>,
     transitions |-> <<>>, unknownKeys |-> {}]
Schema(stages, transitions, assignments) ==
    [stages |-> stages, transitions |-> transitions, stageAssignments |-> assignments,
     unknownKeys |-> {}]

Ids(stages) == {stages[i].id : i \in DOMAIN stages}
At(stages, id) == stages[CHOOSE i \in DOMAIN stages : stages[i].id = id]
Edges(transitions) == {transitions[i] : i \in DOMAIN transitions}
NestedStages(def) == def.stages
FirstNestedStageId(def) == def.stages[1].id
TASK_DONE == "done"

\* Stages with those that lie in them, and so on.
Inside(defs) == defs \union UNION {{def.stages[i] : i \in DOMAIN def.stages} : def \in defs}
AllStages(s) ==
    LET upTo[n \in 0..MaxNesting] ==
          IF n = 0 THEN {s.stages[i] : i \in DOMAIN s.stages} ELSE Inside(upTo[n - 1])
    IN  upTo[MaxNesting]

\* What is written is a tree of finite lists, none of it deeper than MaxNesting,
\* and declares a stage: a schema without any is compiled without a word, and a
\* session of it has nowhere to be.
WellWritten(s) ==
    /\ s # NoSchema
    /\ s.stages \in Seq(AllStages(s)) /\ s.stages # <<>>
    /\ s.transitions \in Seq(Edges(s.transitions))
    /\ \A def \in AllStages(s) : /\ def.stages \in Seq(AllStages(s))
                                  /\ def.transitions \in Seq(Edges(def.transitions))

ASSUME NestingAssumption == MaxNesting \in Nat
ASSUME SchemasAssumption == \A name \in Schemas : WellWritten(SchemaOf(name))

-----------------------------------------------------------------------------
(* Parsing: ProfileSchemaSchema.                                           *)
StaticLoop(source) == source \notin {"", "$currentTask.id"}
LoopIssues(s) ==
    {<<def.id, "loop">> : def \in {d \in AllStages(s) : d.loop \in {"task-17", "$other"}}}
    \union {<<s.stages[i].id, "loop is used">> : i \in
              {j \in DOMAIN s.stages : /\ StaticLoop(s.stages[j].loop)
                                       /\ \E k \in 1..(j - 1) : s.stages[k].loop = s.stages[j].loop}}
DispatchIssues(s) ==
    {<<def.id, "dispatch">> : def \in {d \in AllStages(s) :
        CASE d.dispatch.strategy = "none" -> FALSE
          [] d.dispatch.strategy = "serial" -> d.dispatch.maxConcurrent # 0
          [] OTHER -> d.dispatch.maxConcurrent < 1}}
BudgetIssues(s) == {<<d.id, "retryBudget">> : d \in {e \in AllStages(s) : e.retryBudget < 0}}
ParseIssues(s) == LoopIssues(s) \union DispatchIssues(s) \union BudgetIssues(s)

-----------------------------------------------------------------------------
(* Compiling.                                                              *)
InitialStage(s) == s.stages[1].id
TerminalStages(s) == {id \in Ids(s.stages) : \A e \in Edges(s.transitions) : e.from # id}

\* The queue of validateReachability, round by round; after as many rounds as
\* there are ids it is empty.
Further(all, edges, seen) ==
    seen \union {e.to : e \in {d \in edges : d.from \in seen /\ d.to \in all}}
Walk(all, edges, seen) ==
    LET after[n \in 0..Cardinality(all)] ==
          IF n = 0 THEN seen ELSE Further(all, edges, after[n - 1])
    IN  after[Cardinality(all)]

\* Mutant: an edge back reaches its source as well.
WalkBothWays(all, edges, seen) ==
    LET Back(e) == [e EXCEPT !.from = e.to, !.to = e.from]
    IN  Walk(all, edges \union {Back(e) : e \in edges}, seen)

Reached(all, edges, seen) == Walk(all, edges, seen)

Results(s) == {s.stageAssignments[i].result : i \in DOMAIN s.stageAssignments}

\* Mutant: an end somewhere is enough.
SomeEnd(s) ==
    IF TerminalStages(s) = {} THEN {<<"stages", "no end">>} ELSE {}

\* validateTermination: backwards from the ends.
ValidateTermination(s) ==
    LET Backwards(e) == [from |-> e.to, to |-> e.from]
        canFinish == Walk(Ids(s.stages), {Backwards(e) : e \in Edges(s.transitions)}, TerminalStages(s))
    IN  CASE TerminalStages(s) = {} -> {<<"stages", "no end">>}
          [] TerminalStages(s) # {} /\ s.stageAssignments # <<>> -> {}
          [] OTHER -> {<<id, "no way to finish">> : id \in Ids(s.stages) \ canFinish}

NestedReachability(s) ==
    UNION {LET def == s.stages[i]
               inner == Ids(NestedStages(def))
           IN  IF inner = {} \/ def.transitions = <<>> THEN {}
               ELSE {<<id, "nested, not reached">> : id \in
                       inner \ Reached(inner, Edges(def.transitions), {FirstNestedStageId(def)})}
           : i \in DOMAIN s.stages}

ValidateReachability(s) ==
    LET all == Ids(s.stages)
        seeds == ({InitialStage(s)} \union Results(s)) \intersect all
    IN  {<<id, "not reached">> : id \in all \ Reached(all, Edges(s.transitions), seeds)}
        \union ValidateTermination(s) \union NestedReachability(s)

ValidateKnownKeys(s) ==
    {<<"schema", key>> : key \in s.unknownKeys}
    \union UNION {{<<d.id, key>> : key \in d.unknownKeys} : d \in AllStages(s)}

StageGuards(def) ==
    {def.actions[i].guard : i \in DOMAIN def.actions}
    \union def.entryGuards \union def.exitGuards
    \union {e.guard : e \in Edges(def.transitions)}

\* Mutant: the stages inside a loop are not looked into.
OuterGuardSyntax(s) ==
    LET guards == {e.guard : e \in Edges(s.transitions)}
                  \union UNION {StageGuards(s.stages[i]) : i \in DOMAIN s.stages}
    IN  {<<"guard", g>> : g \in guards \intersect {BrokenGuard}}

ValidateGuardSyntax(s) ==
    LET guards == {s.stageAssignments[i].condition : i \in DOMAIN s.stageAssignments}
                  \union {e.guard : e \in Edges(s.transitions)}
                  \union UNION {StageGuards(d) : d \in AllStages(s)}
    IN  {<<"guard", g>> : g \in guards \intersect {BrokenGuard}}

ActionProblems(a) ==
    {p \in {"paths", "commands", "delivers", "delivers what", "mask", "pattern"} :
       \/ p = "paths" /\ a.paths # <<>> /\ a.action # "edit"
       \/ p = "commands" /\ a.commands # <<>> /\ a.action # "bash"
       \/ p = "delivers" /\ a.delivers /\ a.action # "bash"
       \/ p = "delivers what" /\ a.delivers /\ a.commands = <<>>
       \/ p = "mask" /\ \E i \in DOMAIN a.paths : a.paths[i] \notin WildMasks
       \/ p = "pattern" /\ \E i \in DOMAIN a.commands : a.commands[i] \in BadPatterns}
ValidateActions(s) ==
    UNION {UNION {{<<d.id, p>> : p \in ActionProblems(d.actions[i])} : i \in DOMAIN d.actions}
           : d \in AllStages(s)}

\* Mutant: only where an edge starts is looked at.
SourceOnly(def, e) == {e.from}

Endpoints(def, e) == {e.from} \union ({e.to} \ {TASK_DONE})

LoopProblems(d) ==
    {q \in {"never done", "no stages", "no loop"} :
       \/ /\ q = "never done" /\ d.loop # "" /\ Edges(d.transitions) # {}
          /\ \A e \in Edges(d.transitions) : e.to # TASK_DONE
       \/ q = "no stages" /\ d.loop # "" /\ d.stages = <<>>
       \/ q = "no loop" /\ d.loop = "" /\ Edges(d.transitions) # {}}
NestedStageProblems(d) ==
    {<<d.id, p>> : p \in LoopProblems(d)}
    \union {<<d.id, "budget">> : e \in {f \in Edges(d.transitions) : f.bumpRetry \notin {"", "task.id"}}}
    \union UNION {{<<d.id, "not a stage", x>> : x \in Endpoints(d, e) \ Ids(d.stages)}
                  : e \in Edges(d.transitions)}
ValidateNestedStages(s) == UNION {NestedStageProblems(d) : d \in AllStages(s)}

CompileTransitions(s) ==
    UNION {{<<"transition", x>> : x \in {e.from, e.to} \ Ids(s.stages)}
           \union {<<"transition", "task.id">> : x \in {e.bumpRetry} \intersect {"task.id"}}
           : e \in Edges(s.transitions)}

CompileErrors(s) ==
    ValidateNestedStages(s) \union ValidateActions(s) \union ValidateGuardSyntax(s)
    \union ValidateReachability(s) \union ValidateKnownKeys(s) \union CompileTransitions(s)

\* What a dispatch and the stages of a loop are normalised to.
CompileDispatch(d) ==
    IF d.strategy = "serial" THEN [d EXCEPT !.maxConcurrent = 1] ELSE d
CompileNodes(def) ==
    {[id |-> <<def.id, n.id>>, exitGuards |-> n.exitGuards,
      allowedAgents |-> IF n.allowedAgents = {} THEN def.allowedAgents ELSE n.allowedAgents]
     : n \in {def.stages[i] : i \in DOMAIN def.stages}}

-----------------------------------------------------------------------------
(* Ways through.  Whether a guard holds is open, whether it is asked is    *)
(* not: the first edge that is not shut is taken.                          *)
MayBeShut(e) == e.guard # "" \/ e.consent
Earlier(transitions, i) ==
    {transitions[j] : j \in {k \in 1..(i - 1) : transitions[k].from = transitions[i].from}}
Takeable(transitions, from) ==
    {i \in DOMAIN transitions : /\ transitions[i].from = from
                                /\ \A e \in Earlier(transitions, i) : MayBeShut(e)}
Outgoing(transitions, from) == {e \in Edges(transitions) : e.from = from}

\* deriveStageFn: the rules by priority, or the stage the session has.
Derived(s, current) == {current} \union Results(s)
Conditions(s) == {s.stageAssignments[i].condition : i \in DOMAIN s.stageAssignments}

EntryGuardsOf(s, id) == IF id \in Ids(s.stages) THEN At(s.stages, id).entryGuards ELSE {}
ExitGuardsOf(s, id) == IF id \in Ids(s.stages) THEN At(s.stages, id).exitGuards ELSE {}

NoStep == [asked |-> {}, spent |-> "", says |-> "", level |-> ""]
Said(level, asked, spent, says) == [asked |-> asked, spent |-> spent, says |-> says, level |-> level]

Accepted == schema # NoSchema /\ problems = {}

\* Engine.tryApplyTransitions
TryApply ==
    /\ Accepted
    /\ UNCHANGED <<schema, problems>>
    /\ \E from \in Derived(schema, stage) :
         \/ /\ Outgoing(schema.transitions, from) = {}
            /\ step' = Said("outer", Conditions(schema), "", "finished")
            /\ UNCHANGED <<stage, task>>
         \/ \E i \in Takeable(schema.transitions, from) :
              LET e == schema.transitions[i]
              IN  /\ stage' = e.to
                  /\ step' = Said("outer", Conditions(schema) \union {e.guard}
                                           \union {d.guard : d \in Earlier(schema.transitions, i)}
                                           \union ExitGuardsOf(schema, from) \union EntryGuardsOf(schema, e.to),
                                  e.bumpRetry, "moved")
                  /\ task' = IF e.to \in Ids(schema.stages) /\ At(schema.stages, e.to).loop # ""
                             THEN [loop |-> e.to, stage |-> FirstNestedStageId(At(schema.stages, e.to))]
                             ELSE [loop |-> "", stage |-> ""]

\* nextTaskStage: the movements that are possible, with the edge taken.
Movement(kind, to, e) == [kind |-> kind, to |-> to, edge |-> e]
NoEdge == Transition("", "")
InOrder(loop, current, passed) ==
    LET i == CHOOSE j \in DOMAIN loop.stages : loop.stages[j].id = current
    IN  CASE ~ passed -> Movement("unreachable", "", NoEdge)
          [] passed /\ current \notin Ids(loop.stages) -> Movement("lost", "", NoEdge)
          [] passed /\ current \in Ids(loop.stages) /\ i < Len(loop.stages) ->
               Movement("move", loop.stages[i + 1].id, NoEdge)
          [] OTHER -> Movement("complete", "", NoEdge)
ByEdge(e) ==
    IF e.to = TASK_DONE THEN Movement("complete", "", e) ELSE Movement("move", e.to, e)
NextTaskStage(loop, current, passed) ==
    LET out == Outgoing(loop.transitions, current)
        shut == IF current \in Ids(loop.stages) /\ At(loop.stages, current).exitGuards # {}
                THEN {Movement("blocked", "", NoEdge)} ELSE {}
    IN  shut \union
        CASE loop.transitions = <<>> -> {InOrder(loop, current, passed)}
          [] loop.transitions # <<>> /\ out = {} ->
               {Movement(IF passed THEN "complete" ELSE "unreachable", "", NoEdge)}
          [] OTHER ->
               {ByEdge(loop.transitions[i]) : i \in Takeable(loop.transitions, current)}
               \union (IF \A e \in out : MayBeShut(e) THEN {Movement("blocked", "", NoEdge)} ELSE {})

\* A task whose stage has a verdict.
MoveTask ==
    /\ Accepted /\ task.loop # ""
    /\ UNCHANGED <<schema, problems, stage>>
    /\ LET loop == At(schema.stages, task.loop)
           asked == {e.guard : e \in Outgoing(loop.transitions, task.stage)}
                    \union (IF task.stage \in Ids(loop.stages)
                            THEN At(loop.stages, task.stage).exitGuards ELSE {})
       IN  \E passed \in BOOLEAN : \E m \in NextTaskStage(loop, task.stage, passed) :
             /\ step' = Said("task", asked, m.edge.bumpRetry, m.kind)
             /\ task' = CASE m.kind = "move" -> [task EXCEPT !.stage = m.to]
                          [] m.kind = "complete" -> [loop |-> "", stage |-> ""]
                          [] OTHER -> task

\* actionGuardHolds: the guard of an action is asked when a tool is called.
AskAction ==
    /\ Accepted
    /\ UNCHANGED <<schema, problems, stage, task>>
    /\ \E d \in AllStages(schema) : \E i \in DOMAIN d.actions :
         step' = Said("action", {d.actions[i].guard}, "", "asked")

Compile ==
    /\ schema = NoSchema
    /\ \E name \in Schemas : schema' = SchemaOf(name)
    /\ problems' = IF ParseIssues(schema') # {} THEN ParseIssues(schema') ELSE CompileErrors(schema')
    /\ stage' = InitialStage(schema')
    /\ UNCHANGED <<task, step>>

SchemaInit == /\ schema = NoSchema
              /\ problems = {}
              /\ stage = ""
              /\ task = [loop |-> "", stage |-> ""]
              /\ step = NoStep

SchemaNext == Compile \/ TryApply \/ MoveTask \/ AskAction
SchemaSpec == SchemaInit /\ [][SchemaNext]_schemaVars

-----------------------------------------------------------------------------
(* Properties.                                                             *)
\* Edges lead from x to y: what holds of x and of the ids that an edge reaches
\* from where it holds, holds of y.
Leads(all, transitions, x, y) ==
    \A where \in SUBSET all :
        /\ x \in where
        /\ \A e \in Edges(transitions) : e.from \in where /\ e.to \in all => e.to \in where
        => y \in where

\* From the stage a session of an accepted schema came to, edges lead to a
\* stage the workflow ends at (validateTermination); assignments, which may
\* leave a stage without an edge, are excepted as the code excepts them.
AnEndCanBeReached ==
    Accepted /\ schema.stageAssignments = <<>> =>
        \E end \in TerminalStages(schema) :
            Leads(Ids(schema.stages), schema.transitions, stage, end)

\* Nothing an accepted schema declares is out of reach: a stage from the first
\* one or from an assignment, a stage of a loop with edges from the first of the loop
\* (validateReachability).
DeclaredIsReachable ==
    Accepted =>
        /\ \A id \in Ids(schema.stages) :
             \E from \in ({InitialStage(schema)} \union Results(schema)) \intersect Ids(schema.stages) :
                Leads(Ids(schema.stages), schema.transitions, from, id)
        /\ \A i \in DOMAIN schema.stages : LET def == schema.stages[i] IN
             def.transitions # <<>> => \A id \in Ids(def.stages) :
                Leads(Ids(def.stages), def.transitions, FirstNestedStageId(def), id)

\* A task of an accepted schema is always at a stage of its loop, and its moves
\* spend the budget of the task, which a move of the session never does
\* (validateNestedStages, compileTransitions).
TaskStaysInItsLoop ==
    Accepted =>
        /\ task.loop # "" => task.stage \in Ids(At(schema.stages, task.loop).stages)
        /\ step.says # "lost"
        /\ step.level = "task" => step.spent \in {"", "task.id"}
        /\ step.level = "outer" => step.spent # "task.id"

\* No guard an accepted schema is ever asked for is one that does not parse
\* (validateGuardSyntax): it would be false for ever.
NoAskedGuardIsBroken == Accepted => BrokenGuard \notin step.asked

(* A schema that is accepted strands no session: an end can be reached     *)
(* from everywhere, from what is declared, without leaving a loop half     *)
(* way, and without asking a guard that cannot be parsed.                  *)
AcceptedSchemasLeadOn ==
    AnEndCanBeReached /\ DeclaredIsReachable /\ TaskStaysInItsLoop /\ NoAskedGuardIsBroken
=============================================================================
