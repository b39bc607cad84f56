---------------------------- MODULE Schemas_proofs ----------------------------
(***************************************************************************)
(* Theorems about what an author declares and how calls are held to it: a  *)
(* schema that is accepted leads on (SchemaCompiler), a line for bash is   *)
(* read as it is written (ShellCommands), a call is governed as what it is *)
(* (ToolPolicy), nothing blocked is left of its answer (Guardrails), the   *)
(* three together (ToolCalls), and a profile is read with all it inherits  *)
(* (Profiles).                                                             *)
(*                                                                         *)
(* Each begins with lemmas about the operators it is built from: walks     *)
(* over edges end, what is scanned is what was written, masks of a file    *)
(* intersect, what is left of a text is stretches of it, chains of         *)
(* "extends" end, and merged entries are those of the nearest file.        *)
(***************************************************************************)
EXTENDS ToolCalls, Profiles, FiniteSetTheorems, SequenceTheorems, WellFoundedInduction, TLAPS

-----------------------------------------------------------------------------
(* Recursion over numbers.                                                 *)

\* Of some numbers one is the least.
LEMMA LeastNumber ==
    ASSUME NEW S \in SUBSET Nat, S # {}
    PROVE  \E x \in S : \A y \in S : x <= y
<1>1. PICK x \in S : \A y \in S : ~ (<<y, x>> \in OpToRel(<, Nat))
    BY NatLessThanWellFounded, WFMin
<1>2. \A y \in S : ~ (y < x)
    BY <1>1 DEF OpToRel
<1> QED
    BY <1>2

\* What begins at 0 and goes on holds up to the end.
LEMMA Upwards ==
    ASSUME NEW top \in Nat, NEW T, 0 \in T, \A n \in 1..top : n - 1 \in T => n \in T
    PROVE  \A n \in 0..top : n \in T
<1> DEFINE bad == {n \in 0..top : n \notin T}
<1>1. SUFFICES ASSUME bad # {} PROVE FALSE
    OBVIOUS
<1>2. PICK n \in bad : \A m \in bad : n <= m
    <2>1. bad \in SUBSET Nat
        OBVIOUS
    <2> HIDE DEF bad
    <2> QED
        BY <1>1, <2>1, LeastNumber
<1>3. n # 0
    BY <1>2
<1>4. n - 1 \notin bad /\ n - 1 \in 0..top /\ n \in 1..top
    BY <1>2, <1>3
<1> QED
    BY <1>2, <1>4

\* f starts with a, and next leads from one of its values to the next.
Recurs(f, top, a, next) ==
    /\ f = [n \in 0..top |-> IF n = 0 THEN a ELSE next[<<n, f[n - 1]>>]]

\* A function that is told value by value is there, if every step stays in S.
LEMMA RecursionIsThere ==
    ASSUME NEW S, NEW a \in S, NEW top \in Nat, NEW next \in [(1..top) \X S -> S]
    PROVE  \E f \in [0..top -> S] : Recurs(f, top, a, next)
<1> DEFINE Upto(k) == \E f \in [0..k -> S] : Recurs(f, k, a, next)
           bad == {k \in 0..top : ~ Upto(k)}
<1>1. SUFFICES bad = {}
    OBVIOUS
<1>2. SUFFICES ASSUME bad # {} PROVE FALSE
    OBVIOUS
<1>3. PICK k \in bad : \A y \in bad : k <= y
    <2>1. bad \in SUBSET Nat
        OBVIOUS
    <2> HIDE DEF bad
    <2> QED
        BY <1>2, <2>1, LeastNumber
<1>4. CASE k = 0
    <2> DEFINE f == [n \in 0..0 |-> a]
    <2>1. f \in [0..0 -> S]
        OBVIOUS
    <2>2. f = [n \in 0..0 |-> IF n = 0 THEN a ELSE next[<<n, f[n - 1]>>]]
        <3>1. \A n \in 0..0 : n = 0
            OBVIOUS
        <3> QED
            BY <3>1
    <2> QED
        BY <1>3, <1>4, <2>1, <2>2 DEF Recurs
<1>5. CASE k # 0
    <2>1. k \in 1..top /\ k - 1 \in 0..top /\ k - 1 \notin bad
        BY <1>3, <1>5
    <2>2. PICK f \in [0..(k - 1) -> S] : Recurs(f, k - 1, a, next)
        BY <2>1
    <2> DEFINE last == next[<<k, f[k - 1]>>]
               g == [n \in 0..k |-> IF n = k THEN last ELSE f[n]]
    <2>3. f[k - 1] \in S /\ last \in S
        <3>1. k - 1 \in 0..(k - 1)
            BY <2>1
        <3>2. f[k - 1] \in S
            BY <2>2, <3>1
        <3>3. <<k, f[k - 1]>> \in (1..top) \X S
            BY <2>1, <3>2
        <3> QED
            BY <3>2, <3>3
    <2>4. g \in [0..k -> S]
        <3>1. ASSUME NEW n \in 0..k PROVE (IF n = k THEN last ELSE f[n]) \in S
            <4>1. n # k => n \in 0..(k - 1)
                BY <2>1
            <4> QED
                BY <2>2, <2>3, <4>1
        <3> QED
            BY <3>1
    <2>5. \A n \in 0..(k - 1) : f[n] = IF n = 0 THEN a ELSE next[<<n, f[n - 1]>>]
        BY <2>2 DEF Recurs
    <2> HIDE DEF last
    <2>6. ASSUME NEW n \in 0..k
          PROVE  g[n] = IF n = 0 THEN a ELSE next[<<n, g[n - 1]>>]
        <3>1. CASE n = k
            <4>1. g[n] = last /\ n # 0 /\ n - 1 \in 0..k /\ n - 1 # k
                BY <2>1, <3>1
            <4>2. g[n - 1] = f[n - 1]
                BY <4>1
            <4> QED
                BY <3>1, <4>1, <4>2 DEF last
        <3>2. CASE n # k
            <4>1. n \in 0..(k - 1) /\ g[n] = f[n]
                BY <2>1, <3>2
            <4>2. n # 0 => g[n - 1] = f[n - 1]
                BY <2>1, <4>1
            <4> QED
                BY <2>5, <4>1, <4>2
        <3> QED
            BY <3>1, <3>2
    <2>7. Recurs(g, k, a, next)
        <3>1. g = [n \in 0..k |-> g[n]]
            OBVIOUS
        <3>2. [n \in 0..k |-> g[n]] = [n \in 0..k |-> IF n = 0 THEN a ELSE next[<<n, g[n - 1]>>]]
            BY <2>6
        <3> QED
            BY <3>1, <3>2 DEF Recurs
    <2> QED
        BY <1>3, <2>4, <2>7
<1> QED
    BY <1>4, <1>5

-----------------------------------------------------------------------------
(* Walks along edges.                                                      *)

\* A further round leaves out nothing and reaches nothing that is no id.
LEMMA FurtherStaysInside ==
    ASSUME NEW all, NEW edges, NEW seen \in SUBSET all
    PROVE  Further(all, edges, seen) \in SUBSET all
BY DEF Further

\* A walk is the last of its rounds.
LEMMA WalkIsInRounds ==
    ASSUME NEW all, IsFiniteSet(all), NEW edges, NEW seen \in SUBSET all
    PROVE  \E rounds \in [0..Cardinality(all) -> SUBSET all] :
             /\ rounds[0] = seen
             /\ \A n \in 1..Cardinality(all) : rounds[n] = Further(all, edges, rounds[n - 1])
             /\ Walk(all, edges, seen) = rounds[Cardinality(all)]
<1> DEFINE top == Cardinality(all)
           S == SUBSET all
           next == [p \in (1..top) \X S |-> Further(all, edges, p[2])]
           Right(f) == f = [n \in 0..top |-> IF n = 0 THEN seen ELSE Further(all, edges, f[n - 1])]
<1>1. top \in Nat
    BY FS_CardinalityType
<1> HIDE DEF top
<1>2. next \in [(1..top) \X S -> S]
    BY FurtherStaysInside
<1>3. PICK f \in [0..top -> S] : Recurs(f, top, seen, next)
    BY <1>1, <1>2, RecursionIsThere
<1>4. ASSUME NEW n \in 1..top PROVE next[<<n, f[n - 1]>>] = Further(all, edges, f[n - 1])
    <2>1. f[n - 1] \in S
        BY <1>1, <1>3
    <2> QED
        BY <2>1
<1>5. Right(f)
    <2>1. f = [n \in 0..top |-> IF n = 0 THEN seen ELSE next[<<n, f[n - 1]>>]]
        BY <1>3 DEF Recurs
    <2>2. ASSUME NEW n \in 0..top
          PROVE  (IF n = 0 THEN seen ELSE next[<<n, f[n - 1]>>])
                   = (IF n = 0 THEN seen ELSE Further(all, edges, f[n - 1]))
        <3>1. n # 0 => n \in 1..top
            BY <1>1
        <3> QED
            BY <1>4, <3>1
    <2> HIDE DEF next
    <2> QED
        BY <2>1, <2>2
<1> DEFINE g == CHOOSE g : Right(g)
<1>6. Right(g)
    BY <1>5
<1>7. Walk(all, edges, seen) = g[top]
    BY DEF Walk, top
<1> HIDE DEF g
<1>8. g[0] = seen /\ \A n \in 1..top : g[n] = Further(all, edges, g[n - 1])
    <2>1. \A n \in 0..top : g[n] = IF n = 0 THEN seen ELSE Further(all, edges, g[n - 1])
        BY <1>6
    <2> QED
        BY <1>1, <2>1
<1>9. g \in [0..top -> S]
    <2> DEFINE bad == {n \in 0..top : g[n] \notin S}
    <2>1. SUFFICES ASSUME bad # {} PROVE FALSE
        <3>1. g = [n \in 0..top |-> g[n]]
            BY <1>6
        <3> QED
            BY <3>1, <2>1
    <2>2. PICK n \in bad : \A m \in bad : n <= m
        <3>1. bad \in SUBSET Nat
            BY <1>1
        <3> HIDE DEF bad
        <3> QED
            BY <2>1, <3>1, LeastNumber
    <2>3. n # 0
        BY <1>8, <2>2
    <2>4. n - 1 \in 0..top /\ n - 1 \notin bad /\ n \in 1..top
        BY <1>1, <2>2, <2>3
    <2> QED
        BY <1>8, <2>2, <2>4, FurtherStaysInside
<1> QED
    BY <1>7, <1>8, <1>9 DEF top

\* Whatever set the edges do not lead out of, a walk that begins in it ends in it.
LEMMA WalksStayInside ==
    ASSUME NEW all, IsFiniteSet(all), NEW edges, NEW seen \in SUBSET all, NEW where,
           seen \subseteq where,
           \A e \in edges : e.from \in where /\ e.from \in all /\ e.to \in all => e.to \in where
    PROVE  Walk(all, edges, seen) \subseteq where
<1> DEFINE top == Cardinality(all)
<1>1. PICK rounds \in [0..top -> SUBSET all] :
             /\ rounds[0] = seen
             /\ \A n \in 1..top : rounds[n] = Further(all, edges, rounds[n - 1])
             /\ Walk(all, edges, seen) = rounds[top]
    BY WalkIsInRounds
<1>2. top \in Nat
    BY FS_CardinalityType
<1> HIDE DEF top
<1> DEFINE bad == {n \in 0..top : ~ (rounds[n] \subseteq where)}
<1>3. SUFFICES ASSUME bad # {} PROVE FALSE
    BY <1>1, <1>2
<1>4. PICK n \in bad : \A m \in bad : n <= m
    <2>1. bad \in SUBSET Nat
        BY <1>2
    <2> HIDE DEF bad
    <2> QED
        BY <1>3, <2>1, LeastNumber
<1>5. n # 0
    BY <1>1, <1>4
<1>6. n - 1 \in 0..top /\ n - 1 \notin bad /\ n \in 1..top
    BY <1>2, <1>4, <1>5
<1>7. rounds[n - 1] \subseteq where /\ rounds[n - 1] \subseteq all
    BY <1>1, <1>6
<1> QED
    BY <1>1, <1>4, <1>6, <1>7 DEF Further

\* A list has finitely many ids.
LEMMA IdsAreFinite ==
    ASSUME NEW T, NEW stages \in Seq(T)
    PROVE  IsFiniteSet(Ids(stages))
<1>1. DOMAIN stages = 1..Len(stages) /\ Len(stages) \in Nat
    OBVIOUS
<1>2. IsFiniteSet(DOMAIN stages)
    BY <1>1, FS_Interval
<1> DEFINE name == [i \in DOMAIN stages |-> stages[i].id]
<1>3. name \in Surjection(DOMAIN stages, Ids(stages))
    BY DEF Surjection, Ids
<1> QED
    BY <1>2, <1>3, FS_Surjection

\* An id leads to itself, and on along an edge, from either end.
LEMMA LeadsOn ==
    ASSUME NEW all, NEW transitions, NEW x, NEW e \in Edges(transitions), e.to \in all
    PROVE  /\ Leads(all, transitions, x, x)
           /\ Leads(all, transitions, x, e.from) => Leads(all, transitions, x, e.to)
           /\ Leads(all, transitions, e.to, x) => Leads(all, transitions, e.from, x)
BY DEF Leads
LEMMA LeadsToItself ==
    ASSUME NEW all, NEW transitions, NEW x
    PROVE  Leads(all, transitions, x, x)
BY DEF Leads

\* What is reached from some ids, one of them leads to.
LEMMA ReachedIsLedTo ==
    ASSUME NEW all, IsFiniteSet(all), NEW transitions, NEW seeds \in SUBSET all
    PROVE  \A id \in Reached(all, Edges(transitions), seeds) :
              \E from \in seeds : Leads(all, transitions, from, id)
<1> DEFINE where == {id \in all : \E from \in seeds : Leads(all, transitions, from, id)}
<1>1. seeds \subseteq where
    BY LeadsToItself
<1>2. \A e \in Edges(transitions) :
         e.from \in where /\ e.from \in all /\ e.to \in all => e.to \in where
    BY LeadsOn
<1> HIDE DEF where
<1>3. Reached(all, Edges(transitions), seeds) \subseteq where
    BY <1>1, <1>2, WalksStayInside DEF Reached
<1> QED
    BY <1>3 DEF where

-----------------------------------------------------------------------------
(* What acceptance says of a schema.                                       *)

\* The stages of a schema, and those inside them, are all among its stages.
LEMMA StagesAreThere ==
    ASSUME NEW s, WellWritten(s)
    PROVE  /\ \A i \in DOMAIN s.stages : s.stages[i] \in AllStages(s)
           /\ \A def \in AllStages(s) : \A i \in DOMAIN def.stages : def.stages[i] \in AllStages(s)
           /\ s.stages # <<>>
BY DEF WellWritten

\* A stage that is named is at one of the places of its list.
LEMMA NamedIsListed ==
    ASSUME NEW stages, NEW id \in Ids(stages)
    PROVE  /\ At(stages, id).id = id
           /\ \E i \in DOMAIN stages : At(stages, id) = stages[i]
<1>1. PICK j \in DOMAIN stages : stages[j].id = id
    BY DEF Ids
<1> DEFINE place_ == CHOOSE i \in DOMAIN stages : stages[i].id = id
<1>2. place_ \in DOMAIN stages /\ stages[place_].id = id
    BY <1>1
<1> QED
    BY <1>2 DEF At

\* The first of a list has its id among those of the list.
LEMMA FirstIsNamed ==
    ASSUME NEW T, NEW stages \in Seq(T), stages # <<>>
    PROVE  1 \in DOMAIN stages /\ stages[1].id \in Ids(stages)
<1>1. Len(stages) \in Nat /\ Len(stages) # 0 /\ DOMAIN stages = 1..Len(stages)
    OBVIOUS
<1> QED
    BY <1>1 DEF Ids

\* What is accepted has passed every validation.
LEMMA EveryValidationPassed ==
    ASSUME NEW s, CompileErrors(s) = {}
    PROVE  /\ ValidateNestedStages(s) = {}
           /\ ValidateGuardSyntax(s) = {}
           /\ ValidateTermination(s) = {}
           /\ NestedReachability(s) = {}
           /\ Ids(s.stages) \ Reached(Ids(s.stages), Edges(s.transitions),
                ({InitialStage(s)} \union Results(s)) \intersect Ids(s.stages)) = {}
           /\ CompileTransitions(s) = {}
<1>1. ValidateReachability(s) = {}
    BY DEF CompileErrors
<1>2. /\ ValidateNestedStages(s) = {} /\ ValidateGuardSyntax(s) = {} /\ CompileTransitions(s) = {}
    BY DEF CompileErrors
<1> DEFINE left == Ids(s.stages) \ Reached(Ids(s.stages), Edges(s.transitions),
                ({InitialStage(s)} \union Results(s)) \intersect Ids(s.stages))
<1>3. /\ ValidateTermination(s) = {} /\ NestedReachability(s) = {}
      /\ {<<id, "not reached">> : id \in left} = {}
    BY <1>1 DEF ValidateReachability
<1> HIDE DEF left
<1>4. left = {}
    BY <1>3
<1> QED
    BY <1>2, <1>3, <1>4 DEF left

\* Its edges run between stages it declares, and none spends the budget of a task.
LEMMA OuterEdgesFit ==
    ASSUME NEW s, CompileErrors(s) = {}, NEW e \in Edges(s.transitions)
    PROVE  e.from \in Ids(s.stages) /\ e.to \in Ids(s.stages) /\ e.bumpRetry # "task.id"
<1> DEFINE Problems == {<<"transition", x>> : x \in {e.from, e.to} \ Ids(s.stages)}
                       \union {<<"transition", "task.id">> : x \in {e.bumpRetry} \intersect {"task.id"}}
<1>1. Problems \subseteq CompileTransitions(s)
    BY DEF CompileTransitions
<1>2. CompileTransitions(s) = {}
    BY EveryValidationPassed
<1>3. Problems = {}
    BY <1>1, <1>2
<1>4. {e.from, e.to} \ Ids(s.stages) = {}
    BY <1>3
<1>5. {e.bumpRetry} \intersect {"task.id"} = {}
    BY <1>3
<1> QED
    BY <1>4, <1>5

\* Those of a loop run between its stages or end the task, and spend nothing but
\* the budget of the task; a loop has stages.
LEMMA InnerEdgesFit ==
    ASSUME NEW s, CompileErrors(s) = {}, NEW def \in AllStages(s)
    PROVE  /\ def.loop # "" => def.stages # <<>>
           /\ \A e \in Edges(def.transitions) :
                /\ e.to # TASK_DONE => e.to \in Ids(def.stages)
                /\ e.bumpRetry \in {"", "task.id"}
<1> DEFINE edges == Edges(def.transitions)
<1>1. NestedStageProblems(def) = {}
    <2>1. NestedStageProblems(def) \subseteq ValidateNestedStages(s)
        BY DEF ValidateNestedStages
    <2> QED
        BY <2>1, EveryValidationPassed
<1>2. def.loop # "" => def.stages # <<>>
    <2>1. {<<def.id, p>> : p \in LoopProblems(def)} = {}
        BY <1>1 DEF NestedStageProblems
    <2>2. LoopProblems(def) = {}
        BY <2>1
    <2> QED
        BY <2>2 DEF LoopProblems
<1>3. ASSUME NEW e \in edges PROVE e.to # TASK_DONE => e.to \in Ids(def.stages)
    <2>1. {<<def.id, "not a stage", x>> : x \in Endpoints(def, e) \ Ids(def.stages)} = {}
        BY <1>1 DEF NestedStageProblems
    <2>2. Endpoints(def, e) \ Ids(def.stages) = {}
        BY <2>1
    <2> QED
        BY <2>2 DEF Endpoints
<1>4. ASSUME NEW e \in edges PROVE e.bumpRetry \in {"", "task.id"}
    BY <1>1 DEF NestedStageProblems
<1> QED
    BY <1>2, <1>3, <1>4

\* No guard of it is one that does not parse.
LEMMA GuardsParse ==
    ASSUME NEW s, CompileErrors(s) = {}
    PROVE  /\ BrokenGuard \notin Conditions(s)
           /\ \A e \in Edges(s.transitions) : e.guard # BrokenGuard
           /\ \A def \in AllStages(s) : BrokenGuard \notin StageGuards(def)
<1> DEFINE guards == {s.stageAssignments[i].condition : i \in DOMAIN s.stageAssignments}
                  \union {e.guard : e \in Edges(s.transitions)}
                  \union UNION {StageGuards(d) : d \in AllStages(s)}
<1>1. {<<"guard", g>> : g \in guards \intersect {BrokenGuard}} = {}
    BY EveryValidationPassed DEF ValidateGuardSyntax
<1>2. BrokenGuard \notin guards
    <2> HIDE DEF guards
    <2> QED
        BY <1>1
<1> QED
    BY <1>2 DEF Conditions

\* From every stage of an accepted schema edges lead to an end of it.
LEMMA AnEndIsLedTo ==
    ASSUME NEW s, WellWritten(s), CompileErrors(s) = {}, s.stageAssignments = <<>>,
           NEW id \in Ids(s.stages)
    PROVE  \E end \in TerminalStages(s) : Leads(Ids(s.stages), s.transitions, id, end)
<1> DEFINE all == Ids(s.stages)
           edges == {[from |-> e.to, to |-> e.from] : e \in Edges(s.transitions)}
           canFinish == Walk(all, edges, TerminalStages(s))
           where == {x \in all : \E end \in TerminalStages(s) : Leads(all, s.transitions, x, end)}
<1>1. ValidateTermination(s) = {}
    BY EveryValidationPassed
<1>2. all \ canFinish = {}
    <2>1. TerminalStages(s) # {}
        BY <1>1 DEF ValidateTermination
    <2>2. ValidateTermination(s) = {<<x, "no way to finish">> : x \in all \ canFinish}
        BY <2>1 DEF ValidateTermination
    <2> HIDE DEF all, canFinish
    <2> QED
        BY <1>1, <2>2
<1>3. IsFiniteSet(all)
    BY IdsAreFinite DEF WellWritten
<1>4. TerminalStages(s) \in SUBSET all /\ TerminalStages(s) \subseteq where
    BY LeadsToItself DEF TerminalStages
<1>5. ASSUME NEW b \in edges, b.from \in where, b.from \in all, b.to \in all
      PROVE  b.to \in where
    <2>1. PICK e \in Edges(s.transitions) : b = [from |-> e.to, to |-> e.from]
        OBVIOUS
    <2>2. b.from = e.to /\ b.to = e.from
        BY <2>1
    <2>3. PICK end \in TerminalStages(s) : Leads(all, s.transitions, e.to, end)
        BY <1>5, <2>2
    <2>4. Leads(all, s.transitions, e.from, end)
        BY <1>5, <2>2, <2>3, LeadsOn
    <2> QED
        BY <1>5, <2>2, <2>4
<1>6. canFinish \subseteq where
    <2> HIDE DEF all, edges, where
    <2> QED
        BY <1>3, <1>4, <1>5, WalksStayInside
<1> QED
    BY <1>2, <1>6

\* Every stage of an accepted schema is reached, those of a loop in the loop.
LEMMA DeclaredIsLedTo ==
    ASSUME NEW s, WellWritten(s), CompileErrors(s) = {}
    PROVE  /\ \A id \in Ids(s.stages) :
                \E from \in ({InitialStage(s)} \union Results(s)) \intersect Ids(s.stages) :
                   Leads(Ids(s.stages), s.transitions, from, id)
           /\ \A i \in DOMAIN s.stages : LET def == s.stages[i] IN
                def.transitions # <<>> => \A id \in Ids(def.stages) :
                   Leads(Ids(def.stages), def.transitions, FirstNestedStageId(def), id)
<1>1. ASSUME NEW id \in Ids(s.stages)
      PROVE  \E from \in ({InitialStage(s)} \union Results(s)) \intersect Ids(s.stages) :
                   Leads(Ids(s.stages), s.transitions, from, id)
    <2> DEFINE seeds == ({InitialStage(s)} \union Results(s)) \intersect Ids(s.stages)
    <2>1. IsFiniteSet(Ids(s.stages))
        BY IdsAreFinite DEF WellWritten
    <2>2. id \in Reached(Ids(s.stages), Edges(s.transitions), seeds)
        BY EveryValidationPassed
    <2>3. seeds \in SUBSET Ids(s.stages)
        OBVIOUS
    <2> HIDE DEF seeds
    <2>4. \E from \in seeds : Leads(Ids(s.stages), s.transitions, from, id)
        BY <2>1, <2>2, <2>3, ReachedIsLedTo
    <2> QED
        BY <2>4 DEF seeds
<1>2. ASSUME NEW i \in DOMAIN s.stages, s.stages[i].transitions # <<>>, NEW id \in Ids(s.stages[i].stages)
      PROVE  Leads(Ids(s.stages[i].stages), s.stages[i].transitions, FirstNestedStageId(s.stages[i]), id)
    <2> DEFINE def == s.stages[i]
               inner == Ids(def.stages)
               reached == Reached(inner, Edges(def.transitions), {FirstNestedStageId(def)})
    <2>1. def \in AllStages(s) /\ def.stages \in Seq(AllStages(s))
        BY StagesAreThere DEF WellWritten
    <2>2. IsFiniteSet(inner)
        BY <2>1, IdsAreFinite
    <2>3. def.stages # <<>>
        BY <1>2 DEF Ids
    <2>4. {FirstNestedStageId(def)} \in SUBSET inner
        BY <2>1, <2>3, FirstIsNamed DEF FirstNestedStageId
    <2>5. {<<x, "nested, not reached">> : x \in inner \ reached} \subseteq NestedReachability(s)
        <3>1. ~ (inner = {} \/ def.transitions = <<>>)
            BY <1>2
        <3> QED
            BY <3>1 DEF NestedReachability, NestedStages
    <2>6. inner \ reached = {}
        <3> HIDE DEF inner, reached
        <3> QED
            BY <2>5, EveryValidationPassed
    <2>7. id \in reached
        BY <1>2, <2>6
    <2> HIDE DEF inner, def
    <2>8. \E from \in {FirstNestedStageId(def)} : Leads(inner, def.transitions, from, id)
        BY <2>2, <2>4, <2>7, ReachedIsLedTo
    <2> QED
        BY <2>8 DEF inner, def
<1> QED
    BY <1>1, <1>2

-----------------------------------------------------------------------------
(* Sessions and tasks of an accepted schema.                               *)

\* Where a task may be: nowhere, or at a stage of a loop the schema declares.
TaskInLoop(s, t) ==
    t.loop # "" => /\ t.loop \in Ids(s.stages)
                   /\ t.stage \in Ids(At(s.stages, t.loop).stages)

\* What a move may have said, asked and spent.
StepIsSound(did) ==
    /\ did.says # "lost"
    /\ did.level = "task" => did.spent \in {"", "task.id"}
    /\ did.level = "outer" => did.spent # "task.id"
    /\ BrokenGuard \notin did.asked

\* The inductive invariant: where nothing is compiled nothing has moved, what is
\* compiled is what an author wrote and was refused unless every validation
\* passed, and where it was not, a session and its task are at stages it declares.
SchemaInv ==
    /\ schema = NoSchema => task = [loop |-> "", stage |-> ""] /\ step = NoStep
    /\ schema # NoSchema => /\ WellWritten(schema)
                            /\ problems = {} => CompileErrors(schema) = {}
    /\ Accepted => stage \in Ids(schema.stages) /\ TaskInLoop(schema, task) /\ StepIsSound(step)

\* A stage that is named at a place where stages are listed is one of the schema.
LEMMA NamedIsThere ==
    ASSUME NEW s, WellWritten(s), NEW stages, NEW id \in Ids(stages),
           stages = s.stages \/ \E def \in AllStages(s) : stages = def.stages
    PROVE  At(stages, id) \in AllStages(s)
<1>1. PICK i \in DOMAIN stages : At(stages, id) = stages[i]
    BY NamedIsListed
<1>2. CASE stages = s.stages
    BY <1>1, <1>2, StagesAreThere
<1>3. CASE \E def \in AllStages(s) : stages = def.stages
    BY <1>1, <1>3, StagesAreThere
<1> QED
    BY <1>2, <1>3

\* A compiled schema is one that an author wrote; its session is at the first stage.
LEMMA CompileKeepsSchemaInv ==
    ASSUME SchemaInv, Compile
    PROVE  SchemaInv'
<1>1. WellWritten(schema')
    BY SchemasAssumption DEF Compile
<1>2. schema' # NoSchema
    BY <1>1 DEF WellWritten
<1>3. problems' = {} => CompileErrors(schema') = {}
    BY DEF Compile
<1>4. stage' \in Ids(schema'.stages)
    <2>1. schema'.stages \in Seq(AllStages(schema')) /\ schema'.stages # <<>>
        BY <1>1 DEF WellWritten
    <2> QED
        BY <2>1, FirstIsNamed DEF Compile, InitialStage
<1>5. task' = [loop |-> "", stage |-> ""] /\ step' = NoStep
    BY DEF Compile, SchemaInv
<1>6. TaskInLoop(schema', task') /\ StepIsSound(step')
    BY <1>5 DEF TaskInLoop, StepIsSound, NoStep
<1> QED
    BY <1>1, <1>2, <1>3, <1>4, <1>6 DEF SchemaInv, Accepted

\* Guards that are asked on the way from one stage to another parse.
LEMMA StageGuardsParse ==
    ASSUME NEW s, WellWritten(s), CompileErrors(s) = {}
    PROVE  \A id : BrokenGuard \notin EntryGuardsOf(s, id) \union ExitGuardsOf(s, id)
<1> SUFFICES ASSUME NEW id PROVE BrokenGuard \notin EntryGuardsOf(s, id) \union ExitGuardsOf(s, id)
    OBVIOUS
<1>1. CASE id \in Ids(s.stages)
    <2>1. At(s.stages, id) \in AllStages(s)
        BY <1>1, NamedIsThere
    <2>2. BrokenGuard \notin StageGuards(At(s.stages, id))
        BY <2>1, GuardsParse
    <2> QED
        BY <1>1, <2>2 DEF StageGuards, EntryGuardsOf, ExitGuardsOf
<1>2. CASE id \notin Ids(s.stages)
    BY <1>2 DEF EntryGuardsOf, ExitGuardsOf
<1> QED
    BY <1>1, <1>2

\* The session moves along an edge to a stage that is declared, and its task to
\* the first stage of a loop that has stages.
LEMMA TryApplyKeepsSchemaInv ==
    ASSUME SchemaInv, TryApply
    PROVE  SchemaInv'
<1>1. Accepted /\ schema' = schema /\ problems' = problems
    BY DEF TryApply
<1>2. /\ schema # NoSchema /\ WellWritten(schema) /\ CompileErrors(schema) = {}
      /\ stage \in Ids(schema.stages) /\ TaskInLoop(schema, task)
    BY <1>1 DEF SchemaInv, Accepted
<1>3. SUFFICES stage' \in Ids(schema.stages) /\ TaskInLoop(schema, task') /\ StepIsSound(step')
    BY <1>1, <1>2 DEF SchemaInv, Accepted
<1>4. PICK from \in Derived(schema, stage) :
         \/ /\ step' = Said("outer", Conditions(schema), "", "finished")
            /\ UNCHANGED <<stage, task>>
         \/ \E i \in Takeable(schema.transitions, from) :
              LET e == schema.transitions[i]
              IN  /\ stage' = e.to
                  /\ step' = Said("outer", Conditions(schema) \union {e.guard}
                                           \union {d.guard : d \in Earlier(schema.transitions, i)}
                                           \union ExitGuardsOf(schema, from) \union EntryGuardsOf(schema, e.to),
                                  e.bumpRetry, "moved")
                  /\ task' = IF e.to \in Ids(schema.stages) /\ At(schema.stages, e.to).loop # ""
                             THEN [loop |-> e.to, stage |-> FirstNestedStageId(At(schema.stages, e.to))]
                             ELSE [loop |-> "", stage |-> ""]
    BY DEF TryApply
<1>5. CASE /\ step' = Said("outer", Conditions(schema), "", "finished")
           /\ UNCHANGED <<stage, task>>
    <2>1. StepIsSound(step')
        BY <1>2, <1>5, GuardsParse DEF Said, StepIsSound
    <2> QED
        BY <1>2, <1>5, <2>1
<1>6. ASSUME NEW i \in Takeable(schema.transitions, from),
             LET e == schema.transitions[i]
             IN  /\ stage' = e.to
                 /\ step' = Said("outer", Conditions(schema) \union {e.guard}
                                          \union {d.guard : d \in Earlier(schema.transitions, i)}
                                          \union ExitGuardsOf(schema, from) \union EntryGuardsOf(schema, e.to),
                                 e.bumpRetry, "moved")
                 /\ task' = IF e.to \in Ids(schema.stages) /\ At(schema.stages, e.to).loop # ""
                            THEN [loop |-> e.to, stage |-> FirstNestedStageId(At(schema.stages, e.to))]
                            ELSE [loop |-> "", stage |-> ""]
      PROVE  stage' \in Ids(schema.stages) /\ TaskInLoop(schema, task') /\ StepIsSound(step')
    <2> DEFINE e == schema.transitions[i]
               into == At(schema.stages, e.to)
    <2>1. i \in DOMAIN schema.transitions /\ e \in Edges(schema.transitions)
        BY DEF Takeable, Edges
    <2>2. e.to \in Ids(schema.stages) /\ e.bumpRetry # "task.id" /\ e.guard # BrokenGuard
        BY <1>2, <2>1, OuterEdgesFit, GuardsParse
    <2>3. Earlier(schema.transitions, i) \subseteq Edges(schema.transitions)
        <3>1. schema.transitions \in Seq(Edges(schema.transitions))
            BY <1>2 DEF WellWritten
        <3>2. DOMAIN schema.transitions = 1..Len(schema.transitions) /\ Len(schema.transitions) \in Nat
            BY <3>1
        <3>3. \A k \in 1..(i - 1) : k \in DOMAIN schema.transitions
            BY <2>1, <3>2
        <3> QED
            BY <3>3 DEF Earlier, Edges
    <2>4. BrokenGuard \notin {d.guard : d \in Earlier(schema.transitions, i)}
        BY <1>2, <2>3, GuardsParse
    <2>5. BrokenGuard \notin Conditions(schema)
        BY <1>2, GuardsParse
    <2>6. BrokenGuard \notin ExitGuardsOf(schema, from) /\ BrokenGuard \notin EntryGuardsOf(schema, e.to)
        BY <1>2, StageGuardsParse
    <2> DEFINE asked == Conditions(schema) \union {e.guard}
                       \union {d.guard : d \in Earlier(schema.transitions, i)}
                       \union ExitGuardsOf(schema, from) \union EntryGuardsOf(schema, e.to)
    <2>7. step' = Said("outer", asked, e.bumpRetry, "moved") /\ BrokenGuard \notin asked
        BY <1>6, <2>2, <2>4, <2>5, <2>6
    <2>8. StepIsSound(step')
        <3> HIDE DEF asked, e
        <3> QED
            BY <2>2, <2>7 DEF Said, StepIsSound
    <2>9. TaskInLoop(schema, task')
        <3>1. CASE into.loop # ""
            <4>1. into \in AllStages(schema)
                BY <1>2, <2>2, NamedIsThere
            <4>2. into.stages # <<>> /\ into.stages \in Seq(AllStages(schema))
                BY <1>2, <3>1, <4>1, InnerEdgesFit DEF WellWritten
            <4>3. into.stages[1].id \in Ids(into.stages)
                BY <4>2, FirstIsNamed
            <4>4. task' = [loop |-> e.to, stage |-> into.stages[1].id]
                BY <1>6, <2>2, <3>1 DEF FirstNestedStageId
            <4> HIDE DEF e
            <4> QED
                BY <2>2, <4>3, <4>4 DEF TaskInLoop
        <3>2. CASE into.loop = ""
            BY <1>6, <3>2 DEF TaskInLoop
        <3> QED
            BY <3>1, <3>2
    <2> QED
        BY <1>6, <2>2, <2>8, <2>9
<1> QED
    BY <1>4, <1>5, <1>6

\* Where a movement leads and what it spends.
MovementFits(loop, m) ==
    /\ m.kind # "lost"
    /\ m.kind = "move" => m.to \in Ids(loop.stages)
    /\ m.edge.bumpRetry \in {"", "task.id"}

\* A task of a loop is never lost in it: it stays, moves to a stage of the loop or
\* is done, and spends no budget but its own.
LEMMA MovementsFit ==
    ASSUME NEW s, WellWritten(s), CompileErrors(s) = {}, NEW loop \in AllStages(s),
           NEW current \in Ids(loop.stages), NEW passed \in BOOLEAN,
           NEW m \in NextTaskStage(loop, current, passed)
    PROVE  MovementFits(loop, m)
<1>1. \A kind : kind \notin {"lost", "move"} => MovementFits(loop, Movement(kind, "", NoEdge))
    BY DEF MovementFits, Movement, NoEdge, Transition
<1>2. MovementFits(loop, InOrder(loop, current, passed))
    <2> DEFINE i == CHOOSE j \in DOMAIN loop.stages : loop.stages[j].id = current
    <2>1. i \in DOMAIN loop.stages
        BY DEF Ids
    <2> HIDE DEF i
    <2>2. CASE passed /\ i < Len(loop.stages)
        <3>1. loop.stages \in Seq(AllStages(s))
            BY DEF WellWritten
        <3>2. i + 1 \in DOMAIN loop.stages
            BY <2>1, <2>2, <3>1
        <3>3. loop.stages[i + 1].id \in Ids(loop.stages)
            BY <3>2 DEF Ids
        <3>4. InOrder(loop, current, passed) = Movement("move", loop.stages[i + 1].id, NoEdge)
            BY <2>2 DEF InOrder, i
        <3> DEFINE to == loop.stages[i + 1].id
        <3> HIDE DEF to
        <3>5. MovementFits(loop, Movement("move", to, NoEdge))
            BY <3>3 DEF MovementFits, Movement, NoEdge, Transition, to
        <3> QED
            BY <3>4, <3>5 DEF to
    <2>3. CASE ~ passed
        BY <1>1, <2>3 DEF InOrder
    <2>4. CASE passed /\ ~ (i < Len(loop.stages))
        <3>1. InOrder(loop, current, passed) = Movement("complete", "", NoEdge)
            BY <2>4 DEF InOrder, i
        <3> QED
            BY <1>1, <3>1
    <2> QED
        BY <2>2, <2>3, <2>4
<1>3. ASSUME NEW i \in Takeable(loop.transitions, current)
      PROVE  MovementFits(loop, ByEdge(loop.transitions[i]))
    <2> DEFINE e == loop.transitions[i]
    <2>1. e \in Edges(loop.transitions)
        BY DEF Takeable, Edges
    <2>2. e.bumpRetry \in {"", "task.id"} /\ (e.to # TASK_DONE => e.to \in Ids(loop.stages))
        BY <2>1, InnerEdgesFit
    <2> HIDE DEF e
    <2>3. MovementFits(loop, ByEdge(e))
        BY <2>2 DEF MovementFits, ByEdge, Movement
    <2> QED
        BY <2>3 DEF e
<1> DEFINE out == Outgoing(loop.transitions, current)
<1>4. m = Movement("blocked", "", NoEdge) \/ m = InOrder(loop, current, passed)
      \/ m = Movement("complete", "", NoEdge) \/ m = Movement("unreachable", "", NoEdge)
      \/ \E i \in Takeable(loop.transitions, current) : m = ByEdge(loop.transitions[i])
    <2>1. CASE loop.transitions = <<>>
        BY <2>1 DEF NextTaskStage
    <2>2. CASE loop.transitions # <<>> /\ out = {}
        BY <2>2 DEF NextTaskStage
    <2>3. CASE loop.transitions # <<>> /\ out # {}
        BY <2>3 DEF NextTaskStage
    <2> QED
        BY <2>1, <2>2, <2>3
<1> QED
    BY <1>1, <1>2, <1>3, <1>4

LEMMA MoveTaskKeepsSchemaInv ==
    ASSUME SchemaInv, MoveTask
    PROVE  SchemaInv'
<1>1. Accepted /\ schema' = schema /\ problems' = problems /\ stage' = stage /\ task.loop # ""
    BY DEF MoveTask
<1>2. /\ schema # NoSchema /\ WellWritten(schema) /\ CompileErrors(schema) = {}
      /\ stage \in Ids(schema.stages) /\ TaskInLoop(schema, task)
    BY <1>1 DEF SchemaInv, Accepted
<1>3. SUFFICES TaskInLoop(schema, task') /\ StepIsSound(step')
    BY <1>1, <1>2 DEF SchemaInv, Accepted
<1> DEFINE loop == At(schema.stages, task.loop)
           asked == {e.guard : e \in Outgoing(loop.transitions, task.stage)}
                    \union (IF task.stage \in Ids(loop.stages)
                            THEN At(loop.stages, task.stage).exitGuards ELSE {})
<1>4. task.loop \in Ids(schema.stages) /\ task.stage \in Ids(loop.stages)
    BY <1>1, <1>2 DEF TaskInLoop
<1>5. loop \in AllStages(schema) /\ At(loop.stages, task.stage) \in AllStages(schema)
    BY <1>2, <1>4, NamedIsThere
<1>6. BrokenGuard \notin asked
    <2>1. BrokenGuard \notin StageGuards(loop) /\ BrokenGuard \notin StageGuards(At(loop.stages, task.stage))
        BY <1>2, <1>5, GuardsParse
    <2>2. asked \subseteq StageGuards(loop) \union StageGuards(At(loop.stages, task.stage))
        BY DEF Outgoing, StageGuards
    <2> QED
        BY <2>1, <2>2
<1>7. PICK passed \in BOOLEAN : \E m \in NextTaskStage(loop, task.stage, passed) :
         /\ step' = Said("task", asked, m.edge.bumpRetry, m.kind)
         /\ task' = CASE m.kind = "move" -> [task EXCEPT !.stage = m.to]
                      [] m.kind = "complete" -> [loop |-> "", stage |-> ""]
                      [] OTHER -> task
    BY DEF MoveTask
<1>8. PICK m \in NextTaskStage(loop, task.stage, passed) :
         /\ step' = Said("task", asked, m.edge.bumpRetry, m.kind)
         /\ task' = CASE m.kind = "move" -> [task EXCEPT !.stage = m.to]
                      [] m.kind = "complete" -> [loop |-> "", stage |-> ""]
                      [] OTHER -> task
    BY <1>7
<1>9. MovementFits(loop, m)
    <2> HIDE DEF loop
    <2> QED
        BY <1>2, <1>4, <1>5, <1>8, MovementsFit
<1>10. StepIsSound(step')
    <2> HIDE DEF asked
    <2> QED
        BY <1>6, <1>8, <1>9 DEF StepIsSound, Said, MovementFits
<1>11. TaskInLoop(schema, task')
    <2>1. CASE m.kind = "move"
        <3>1. task' = [task EXCEPT !.stage = m.to]
            BY <1>8, <2>1
        <3>2. task'.loop = task.loop
            BY <3>1
        <3>3. task'.stage = m.to
            BY <3>1
        <3> QED
            BY <1>4, <1>9, <2>1, <3>2, <3>3 DEF TaskInLoop, MovementFits
    <2>2. CASE m.kind = "complete"
        <3>1. task' = [loop |-> "", stage |-> ""]
            BY <1>8, <2>2
        <3> QED
            BY <3>1 DEF TaskInLoop
    <2>3. CASE m.kind \notin {"move", "complete"}
        BY <1>2, <1>8, <2>3
    <2> QED
        BY <2>1, <2>2, <2>3
<1> QED
    BY <1>10, <1>11

LEMMA AskActionKeepsSchemaInv ==
    ASSUME SchemaInv, AskAction
    PROVE  SchemaInv'
<1>1. /\ Accepted /\ schema' = schema /\ problems' = problems /\ stage' = stage /\ task' = task
    BY DEF AskAction
<1>2. /\ schema # NoSchema /\ CompileErrors(schema) = {}
    BY <1>1 DEF SchemaInv, Accepted
<1>3. PICK d \in AllStages(schema) :
         \E i \in DOMAIN d.actions : step' = Said("action", {d.actions[i].guard}, "", "asked")
    BY DEF AskAction
<1>4. PICK i \in DOMAIN d.actions : step' = Said("action", {d.actions[i].guard}, "", "asked")
    BY <1>3
<1>5. BrokenGuard # d.actions[i].guard
    BY <1>2, <1>3, <1>4, GuardsParse DEF StageGuards
<1>6. StepIsSound(step')
    BY <1>4, <1>5 DEF StepIsSound, Said
<1> QED
    BY <1>1, <1>6 DEF SchemaInv, Accepted

\* What the invariant says of a schema carries over to the ways through it.
LEMMA SchemaInvLeadsOn == SchemaInv => AcceptedSchemasLeadOn
<1> SUFFICES ASSUME SchemaInv, Accepted PROVE AcceptedSchemasLeadOn
    BY DEF AcceptedSchemasLeadOn, AnEndCanBeReached, DeclaredIsReachable, TaskStaysInItsLoop,
           NoAskedGuardIsBroken
<1>1. /\ WellWritten(schema) /\ CompileErrors(schema) = {}
      /\ stage \in Ids(schema.stages) /\ TaskInLoop(schema, task) /\ StepIsSound(step)
    BY DEF SchemaInv, Accepted
<1>2. AnEndCanBeReached
    BY <1>1, AnEndIsLedTo DEF AnEndCanBeReached
<1>3. DeclaredIsReachable
    BY <1>1, DeclaredIsLedTo DEF DeclaredIsReachable
<1>4. TaskStaysInItsLoop /\ NoAskedGuardIsBroken
    BY <1>1 DEF TaskStaysInItsLoop, NoAskedGuardIsBroken, TaskInLoop, StepIsSound
<1> QED
    BY <1>2, <1>3, <1>4 DEF AcceptedSchemasLeadOn

\* A schema that is accepted strands no session and no task, whatever stages,
\* edges and guards it declares: validateReachability, validateTermination,
\* validateNestedStages and validateGuardSyntax leave nothing out that
\* tryApplyTransitions, nextTaskStage and actionGuardHolds come to.
THEOREM AcceptedSchemasLeadOnAlways == SchemaSpec => []AcceptedSchemasLeadOn
<1>1. SchemaInit => SchemaInv
    BY DEF SchemaInit, SchemaInv, Accepted
<1>2. SchemaInv /\ [SchemaNext]_schemaVars => SchemaInv'
    <2> SUFFICES ASSUME SchemaInv, [SchemaNext]_schemaVars PROVE SchemaInv'
        OBVIOUS
    <2>1. CASE UNCHANGED schemaVars
        BY <2>1 DEF schemaVars, SchemaInv, Accepted
    <2> QED
        BY <2>1, CompileKeepsSchemaInv, TryApplyKeepsSchemaInv, MoveTaskKeepsSchemaInv,
           AskActionKeepsSchemaInv DEF SchemaNext
<1> QED
    BY <1>1, <1>2, SchemaInvLeadsOn, PTL DEF SchemaSpec

-----------------------------------------------------------------------------
(* How lines for bash are scanned.                                         *)

\* A sequence is what comes before its last element, and that.
LEMMA UpToIsAppended ==
    ASSUME NEW S, NEW w \in Seq(S), NEW n \in 1..Len(w)
    PROVE  /\ SubSeq(w, 1, n) = Append(SubSeq(w, 1, n - 1), w[n])
           /\ SubSeq(w, 1, n - 1) \in Seq(S) /\ w[n] \in S
<1>1. Len(w) \in Nat /\ 1 \in 1..Len(w) /\ n \in 1..Len(w) /\ w[n] \in S
    OBVIOUS
<1>2. SubSeq(w, 1, n) = SubSeq(w, 1, n - 1) \o <<w[n]>>
    BY <1>1, SubSeqRecursiveSecond
<1>3. SubSeq(w, 1, n - 1) \in Seq(S)
    <2>1. \A i \in 1..(n - 1) : w[i] \in S
        BY <1>1
    <2>2. n - 1 \in Int /\ 1 \in Int
        BY <1>1
    <2> QED
        BY <2>1, <2>2, SubSeqProperties
<1> QED
    BY <1>1, <1>2, <1>3, AppendIsConcat

\* A state of the scan, told field by field.
State(segments, words, word, started, quote, escaped, comment) ==
    [segments |-> segments, words |-> words, word |-> word, started |-> started,
     quote |-> quote, escaped |-> escaped, comment |-> comment]
States(C) ==
    [segments : Seq(Seq(Seq(C))), words : Seq(Seq(C)), word : Seq(C), started : BOOLEAN,
     quote : Quotes \union {""}, escaped : BOOLEAN, comment : BOOLEAN]

LEMMA StatesAreTyped ==
    ASSUME NEW C, NEW segments \in Seq(Seq(Seq(C))), NEW words \in Seq(Seq(C)), NEW word \in Seq(C),
           NEW started \in BOOLEAN, NEW quote \in Quotes \union {""},
           NEW escaped \in BOOLEAN, NEW comment \in BOOLEAN
    PROVE  State(segments, words, word, started, quote, escaped, comment) \in States(C)
BY DEF State, States

LEMMA StatesAreTold ==
    ASSUME NEW C, NEW s \in States(C)
    PROVE  /\ s = State(s.segments, s.words, s.word, s.started, s.quote, s.escaped, s.comment)
           /\ s.segments \in Seq(Seq(Seq(C))) /\ s.words \in Seq(Seq(C)) /\ s.word \in Seq(C)
           /\ s.started \in BOOLEAN /\ s.quote \in Quotes \union {""}
           /\ s.escaped \in BOOLEAN /\ s.comment \in BOOLEAN
BY DEF State, States

\* What the three moves of a scan make of a state.
LEMMA MovesOfAScan ==
    ASSUME NEW g, NEW ws, NEW w, NEW st \in BOOLEAN, NEW q, NEW e, NEW c, NEW char
    PROVE  LET s == State(g, ws, w, st, q, e, c)
               more == IF st THEN Append(ws, w) ELSE ws
           IN  /\ EndWord(s) = State(g, more, <<>>, FALSE, q, e, c)
               /\ EndSegment(s) = State(IF more # <<>> THEN Append(g, more) ELSE g, <<>>, <<>>, FALSE, q, e, c)
               /\ Took(s, char) = State(g, ws, Append(w, char), TRUE, q, FALSE, c)
<1> DEFINE s == State(g, ws, w, st, q, e, c)
           more == IF st THEN Append(ws, w) ELSE ws
           all == IF more # <<>> THEN Append(g, more) ELSE g
<1>1. s.segments = g /\ s.words = ws /\ s.word = w /\ s.started = st
    BY DEF State
<1>2. EndWord(s) = State(g, more, <<>>, FALSE, q, e, c)
    <2>1. EndWord(s) = [s EXCEPT !.words = more, !.word = <<>>, !.started = FALSE]
        <3>1. st <=> s.started
            BY <1>1
        <3> HIDE DEF s
        <3> QED
            BY <1>1, <3>1 DEF EndWord
    <2> HIDE DEF more
    <2> QED
        BY <2>1 DEF State
<1>3. Took(s, char) = State(g, ws, Append(w, char), TRUE, q, FALSE, c)
    <2>1. Took(s, char) = [s EXCEPT !.word = Append(w, char), !.started = TRUE, !.escaped = FALSE]
        BY <1>1 DEF Took
    <2> QED
        BY <2>1 DEF State
<1>4. EndSegment(s) = State(all, <<>>, <<>>, FALSE, q, e, c)
    <2> DEFINE ended == EndWord(s)
    <2> HIDE DEF more, s
    <2>1. ended = State(g, more, <<>>, FALSE, q, e, c)
        BY <1>2
    <2>2. ended.segments = g /\ ended.words = more
        BY <2>1 DEF State
    <2>3. EndSegment(s) = [ended EXCEPT !.segments = all, !.words = <<>>]
        <3> HIDE DEF ended
        <3>1. EndSegment(s) = [ended EXCEPT !.segments = IF ended.words # <<>> THEN Append(ended.segments, ended.words) ELSE ended.segments,
                                            !.words = <<>>]
            BY DEF EndSegment, ended
        <3> QED
            BY <2>2, <3>1
    <2> HIDE DEF ended, all
    <2> QED
        BY <2>1, <2>3 DEF State
<1> QED
    BY <1>2, <1>3, <1>4

LEMMA EndsAreTyped ==
    ASSUME NEW C, NEW s \in States(C)
    PROVE  EndWord(s) \in States(C) /\ EndSegment(s) \in States(C)
<1>1. /\ s.segments \in Seq(Seq(Seq(C))) /\ s.words \in Seq(Seq(C)) /\ s.word \in Seq(C)
      /\ <<>> \in Seq(C) /\ <<>> \in Seq(Seq(C))
    BY EmptySeq DEF States
<1>2. EndWord(s) \in States(C)
    <2> DEFINE more == IF s.started THEN Append(s.words, s.word) ELSE s.words
    <2>1. more \in Seq(Seq(C))
        BY <1>1, AppendProperties
    <2>2. EndWord(s) = [s EXCEPT !.words = more, !.word = <<>>, !.started = FALSE]
        BY DEF EndWord
    <2> HIDE DEF more
    <2> QED
        BY <1>1, <2>1, <2>2 DEF States
<1>3. EndSegment(s) \in States(C)
    <2> DEFINE ended == EndWord(s)
               all == IF ended.words # <<>> THEN Append(ended.segments, ended.words) ELSE ended.segments
    <2>1. ended \in States(C)
        BY <1>2
    <2>2. EndSegment(s) = [ended EXCEPT !.segments = all, !.words = <<>>]
        BY DEF EndSegment
    <2> HIDE DEF ended
    <2>3. all \in Seq(Seq(Seq(C)))
        <3>1. ended.segments \in Seq(Seq(Seq(C))) /\ ended.words \in Seq(Seq(C))
            BY <2>1 DEF States
        <3> QED
            BY <3>1, AppendProperties
    <2> HIDE DEF all
    <2> QED
        BY <1>1, <2>1, <2>2, <2>3 DEF States
<1> QED
    BY <1>2, <1>3

LEMMA ScanSymbolIsTyped ==
    ASSUME NEW C, NEW s \in States(C), NEW char \in C
    PROVE  ScanSymbol(s, char) \in States(C)
<1>0. EndWord(s) \in States(C) /\ EndSegment(s) \in States(C)
    BY EndsAreTyped
<1>1. EndWord(s) \in States(C) /\ EndSegment(s) \in States(C) /\ Took(s, char) \in States(C)
    <2>1. Append(s.word, char) \in Seq(C)
        <3>1. s.word \in Seq(C)
            BY DEF States
        <3> QED
            BY <3>1, AppendProperties
    <2>2. Took(s, char) \in States(C)
        BY <2>1 DEF Took, States
    <2> QED
        BY <1>0, <2>2
<1>2. /\ [EndWord(s) EXCEPT !.comment = FALSE] \in States(C) /\ [EndWord(s) EXCEPT !.comment = TRUE] \in States(C)
    BY <1>1 DEF States
<1>3. /\ [s EXCEPT !.quote = ""] \in States(C) /\ [s EXCEPT !.escaped = TRUE] \in States(C)
      /\ char \in Quotes => [s EXCEPT !.quote = char, !.started = TRUE] \in States(C)
    BY DEF States
<1>4. CASE s.escaped
    BY <1>1, <1>4 DEF ScanSymbol
<1>5. CASE ~ s.escaped /\ s.comment
    BY <1>2, <1>5 DEF ScanSymbol
<1>6. CASE ~ s.escaped /\ ~ s.comment /\ InQuotes(s)
    BY <1>1, <1>3, <1>6 DEF ScanSymbol
<1>7. CASE ~ s.escaped /\ ~ s.comment /\ ~ InQuotes(s)
    <2>1. CASE char \in Quotes
        <3>1. ScanSymbol(s, char) = [s EXCEPT !.quote = char, !.started = TRUE]
            BY <1>7, <2>1 DEF ScanSymbol, Quotes, Separators, EscapeSign
        <3> QED
            BY <1>3, <2>1, <3>1
    <2>2. CASE char \notin Quotes
        BY <1>1, <1>2, <1>3, <1>7, <2>2 DEF ScanSymbol
    <2> QED
        BY <2>1, <2>2
<1> QED
    BY <1>4, <1>5, <1>6, <1>7

\* f says what the scan has made of the first symbols.
Scans(f, C, s, symbols) ==
    /\ f \in [0..Len(symbols) -> States(C)]
    /\ f[0] = s
    /\ \A n \in 1..Len(symbols) : f[n] = ScanSymbol(f[n - 1], symbols[n])
    /\ f[Len(symbols)] = ScanFrom(s, symbols)

LEMMA ScansAreThere ==
    ASSUME NEW C, NEW s \in States(C), NEW symbols \in Seq(C)
    PROVE  \E f : Scans(f, C, s, symbols)
<1> DEFINE top == Len(symbols)
           R == States(C)
           Step(n, t) == ScanSymbol(t, symbols[n])
           next == [p \in (1..top) \X R |-> Step(p[1], p[2])]
           Right(f) == f = [n \in 0..top |-> IF n = 0 THEN s ELSE Step(n, f[n - 1])]
           g == CHOOSE g : Right(g)
<1>1. top \in Nat
    OBVIOUS
<1>2. s \in R
    OBVIOUS
<1>3. \A n \in 1..top : \A t \in R : Step(n, t) \in R
    <2>1. \A n \in 1..top : symbols[n] \in C
        OBVIOUS
    <2> QED
        BY <2>1, ScanSymbolIsTyped
<1>4. ScanFrom(s, symbols) = g[top]
    BY DEF ScanFrom
<1> HIDE DEF top, R, Step
<1>5. next \in [(1..top) \X R -> R]
    BY <1>3
<1>6. PICK f \in [0..top -> R] : Recurs(f, top, s, next)
    <2> HIDE DEF next
    <2> QED
        BY <1>1, <1>2, <1>5, RecursionIsThere
<1>7. Right(f)
    <2>1. f = [n \in 0..top |-> IF n = 0 THEN s ELSE next[<<n, f[n - 1]>>]]
        BY <1>6 DEF Recurs
    <2>2. ASSUME NEW n \in 0..top
          PROVE  (IF n = 0 THEN s ELSE next[<<n, f[n - 1]>>]) = (IF n = 0 THEN s ELSE Step(n, f[n - 1]))
        <3>1. n # 0 => n \in 1..top /\ n - 1 \in 0..top
            BY <1>1
        <3>2. n # 0 => f[n - 1] \in R
            BY <1>6, <3>1
        <3> QED
            BY <3>1, <3>2
    <2> HIDE DEF next
    <2> QED
        BY <2>1, <2>2
<1>8. Right(g)
    BY <1>7
<1> HIDE DEF g
<1>9. g[0] = s /\ \A n \in 1..top : g[n] = Step(n, g[n - 1])
    <2>1. \A n \in 0..top : g[n] = IF n = 0 THEN s ELSE Step(n, g[n - 1])
        BY <1>8
    <2> QED
        BY <1>1, <2>1
<1>10. g \in [0..top -> R]
    <2> DEFINE T == {n \in 0..top : g[n] \in R}
    <2>1. 0 \in T
        BY <1>1, <1>2, <1>9
    <2>2. \A n \in 1..top : n - 1 \in T => n \in T
        BY <1>1, <1>3, <1>9
    <2> HIDE DEF T
    <2>3. \A n \in 0..top : n \in T
        BY <1>1, <2>1, <2>2, Upwards
    <2>4. \A n \in 0..top : g[n] \in R
        BY <2>3 DEF T
    <2>5. g = [n \in 0..top |-> g[n]]
        BY <1>8
    <2> QED
        BY <2>4, <2>5
<1> QED
    BY <1>4, <1>9, <1>10 DEF Scans, top, R, Step

LEMMA ScansAreTyped ==
    ASSUME NEW C, NEW s \in States(C), NEW symbols \in Seq(C)
    PROVE  ScanFrom(s, symbols) \in States(C)
<1>1. PICK f : Scans(f, C, s, symbols)
    BY ScansAreThere
<1>2. Len(symbols) \in 0..Len(symbols)
    OBVIOUS
<1> QED
    BY <1>1, <1>2 DEF Scans

\* One after the other.
LEMMA ScanOfTwo ==
    ASSUME NEW C, NEW s \in States(C), NEW a \in Seq(C), NEW b \in Seq(C)
    PROVE  ScanFrom(s, a \o b) = ScanFrom(ScanFrom(s, a), b)
<1> DEFINE m == ScanFrom(s, a)
           i == Len(a)
           j == Len(b)
           ab == a \o b
<1>1. /\ i \in Nat /\ j \in Nat /\ ab \in Seq(C) /\ Len(ab) = i + j
      /\ \A k \in 1..(i + j) : ab[k] = IF k <= i THEN a[k] ELSE b[k - i]
    BY ConcatProperties, LenProperties
<1>2. PICK fa : Scans(fa, C, s, a)
    BY ScansAreThere
<1>3. /\ fa[0] = s /\ fa[i] = m /\ fa \in [0..i -> States(C)]
      /\ \A n \in 1..i : fa[n] = ScanSymbol(fa[n - 1], a[n])
    BY <1>2 DEF Scans
<1>4. m \in States(C)
    <2>1. i \in 0..i
        BY <1>1
    <2> QED
        BY <1>3, <2>1
<1>5. PICK fb : Scans(fb, C, m, b)
    BY <1>4, ScansAreThere
<1>6. fb[0] = m /\ fb[j] = ScanFrom(m, b) /\ \A n \in 1..j : fb[n] = ScanSymbol(fb[n - 1], b[n])
    BY <1>5 DEF Scans
<1>7. PICK f : Scans(f, C, s, ab)
    BY <1>1, ScansAreThere
<1>8. f[0] = s /\ f[i + j] = ScanFrom(s, ab) /\ \A n \in 1..(i + j) : f[n] = ScanSymbol(f[n - 1], ab[n])
    BY <1>1, <1>7 DEF Scans
<1> HIDE DEF m, i, j, ab
<1> DEFINE T == {n \in 0..i : f[n] = fa[n]}
           U == {n \in 0..j : f[i + n] = fb[n]}
<1>9. f[i] = fa[i]
    <2>1. 0 \in T
        BY <1>1, <1>3, <1>8
    <2>2. ASSUME NEW n \in 1..i, n - 1 \in T PROVE n \in T
        <3>1. n \in 1..(i + j) /\ n <= i /\ n \in 0..i
            BY <1>1
        <3>2. f[n] = ScanSymbol(f[n - 1], a[n])
            BY <1>1, <1>8, <3>1
        <3> QED
            BY <1>3, <2>2, <3>1, <3>2
    <2> HIDE DEF T
    <2>3. \A n \in 0..i : n \in T
        BY <1>1, <2>1, <2>2, Upwards
    <2> QED
        BY <1>1, <2>3 DEF T
<1>10. f[i + j] = fb[j]
    <2>1. 0 \in U
        BY <1>1, <1>3, <1>6, <1>9
    <2>2. ASSUME NEW n \in 1..j, n - 1 \in U PROVE n \in U
        <3>1. /\ i + n \in 1..(i + j) /\ ~ (i + n <= i) /\ (i + n) - i = n /\ n \in 0..j
              /\ (i + n) - 1 = i + (n - 1)
            BY <1>1
        <3>2. f[i + n] = ScanSymbol(f[i + (n - 1)], b[n])
            BY <1>1, <1>8, <3>1
        <3> QED
            BY <1>6, <2>2, <3>1, <3>2
    <2> HIDE DEF U
    <2>3. \A n \in 0..j : n \in U
        BY <1>1, <2>1, <2>2, Upwards
    <2> QED
        BY <1>1, <2>3 DEF U
<1> QED
    BY <1>4, <1>6, <1>8, <1>10 DEF m, ab

\* One symbol.
Symbol(char) == <<char>>

LEMMA OneSymbol ==
    ASSUME NEW C, NEW char \in C
    PROVE  /\ Symbol(char) \in Seq(C) /\ Len(Symbol(char)) = 1 /\ Symbol(char)[1] = char
           /\ Symbol(char) = Append(<<>>, char)
BY DEF Symbol

LEMMA ScanOfOne ==
    ASSUME NEW C, NEW s \in States(C), NEW char \in C
    PROVE  ScanFrom(s, Symbol(char)) = ScanSymbol(s, char)
<1>1. Symbol(char) \in Seq(C) /\ Len(Symbol(char)) = 1 /\ Symbol(char)[1] = char
    BY OneSymbol
<1>2. PICK f : Scans(f, C, s, Symbol(char))
    BY <1>1, ScansAreThere
<1>3. f[0] = s /\ f[1] = ScanSymbol(f[0], char) /\ f[1] = ScanFrom(s, Symbol(char))
    <2>1. 1 \in 1..1 /\ 1 - 1 = 0
        OBVIOUS
    <2>2. f[1] = ScanSymbol(f[1 - 1], Symbol(char)[1])
        BY <1>1, <1>2, <2>1 DEF Scans
    <2> QED
        BY <1>1, <1>2, <2>1, <2>2 DEF Scans
<1> QED
    BY <1>3

\* No symbol at all.
LEMMA ScanOfNothing ==
    ASSUME NEW C, NEW s \in States(C)
    PROVE  ScanFrom(s, <<>>) = s
<1>1. <<>> \in Seq(C) /\ Len(<<>>) = 0
    BY EmptySeq
<1>2. PICK f : Scans(f, C, s, <<>>)
    BY <1>1, ScansAreThere
<1> QED
    BY <1>1, <1>2 DEF Scans

-----------------------------------------------------------------------------
(* What a scan makes of a word that is written.                            *)

NoQuote == ""
Blank == " "
Marks == Quotes \union {NoQuote}

Fresh(segments, words) == State(segments, words, <<>>, FALSE, "", FALSE, FALSE)
Within(segments, words, word, quote) == State(segments, words, word, TRUE, quote, FALSE, FALSE)
Commented(segments, words) == State(segments, words, <<>>, FALSE, "", FALSE, TRUE)
Escaped(segments, words) == State(segments, words, <<>>, FALSE, "", TRUE, FALSE)

\* What stands for itself, within quotes or without.
Plain(char, quote) ==
    /\ char \notin Quotes \union {EscapeSign}
    /\ quote = "" => char \notin Separators \union {" ", "#"}

LEMMA WordsAreEnded ==
    ASSUME NEW g, NEW ws, NEW w
    PROVE  EndWord(Within(g, ws, w, NoQuote)) = Fresh(g, Append(ws, w))
<1> DEFINE t == Within(g, ws, w, NoQuote)
<1>1. t.words = ws /\ t.word = w /\ t.started
    BY DEF Within, State, NoQuote
<1>2. EndWord(t) = [t EXCEPT !.words = Append(ws, w), !.word = <<>>, !.started = FALSE]
    <2> HIDE DEF t
    <2> QED
        BY <1>1 DEF EndWord
<1> QED
    BY <1>2 DEF Within, Fresh, State, NoQuote

\* Between two words no word is begun.
LEMMA NothingToEnd ==
    ASSUME NEW g, NEW ws
    PROVE  /\ EndWord(Fresh(g, ws)) = Fresh(g, ws)
           /\ EndWord(Commented(g, ws)) = Commented(g, ws)
<1> DEFINE f == Fresh(g, ws)
           c == Commented(g, ws)
<1>1. /\ f.words = ws /\ f.word = <<>> /\ ~ f.started
      /\ c.words = ws /\ c.word = <<>> /\ ~ c.started
    BY DEF Fresh, Commented, State
<1>2. /\ EndWord(f) = [f EXCEPT !.words = ws, !.word = <<>>, !.started = FALSE]
      /\ EndWord(c) = [c EXCEPT !.words = ws, !.word = <<>>, !.started = FALSE]
    <2> HIDE DEF f, c
    <2> QED
        BY <1>1 DEF EndWord
<1> QED
    BY <1>2 DEF Fresh, Commented, State

LEMMA SegmentsAreEnded ==
    ASSUME NEW g, NEW ws
    PROVE  /\ EndSegment(Fresh(g, ws)) = Fresh(IF ws # <<>> THEN Append(g, ws) ELSE g, <<>>)
           /\ EndSegment(Commented(g, ws)) = Commented(IF ws # <<>> THEN Append(g, ws) ELSE g, <<>>)
<1> DEFINE f == Fresh(g, ws)
           c == Commented(g, ws)
           all == IF ws # <<>> THEN Append(g, ws) ELSE g
<1>1. f.segments = g /\ f.words = ws /\ c.segments = g /\ c.words = ws
    BY DEF Fresh, Commented, State
<1>2. EndWord(f) = f /\ EndWord(c) = c
    BY NothingToEnd
<1>3. /\ EndSegment(f) = [f EXCEPT !.segments = all, !.words = <<>>]
      /\ EndSegment(c) = [c EXCEPT !.segments = all, !.words = <<>>]
    <2> HIDE DEF f, c
    <2> QED
        BY <1>1, <1>2 DEF EndSegment
<1> HIDE DEF all
<1>4. EndSegment(f) = Fresh(all, <<>>) /\ EndSegment(c) = Commented(all, <<>>)
    BY <1>3 DEF Fresh, Commented, State
<1> QED
    BY <1>4 DEF all

LEMMA SymbolsAreTaken ==
    ASSUME NEW g, NEW ws, NEW w, NEW q, NEW char
    PROVE  Took(Within(g, ws, w, q), char) = Within(g, ws, Append(w, char), q)
<1> DEFINE s == Within(g, ws, w, q)
<1>1. s.word = w
    BY DEF Within, State, NoQuote
<1>2. Took(s, char) = [s EXCEPT !.word = Append(w, char), !.started = TRUE, !.escaped = FALSE]
    BY <1>1 DEF Took
<1> QED
    BY <1>2 DEF Within, State, NoQuote

LEMMA FirstSymbolsAreTaken ==
    ASSUME NEW g, NEW ws, NEW char
    PROVE  /\ Took(Fresh(g, ws), char) = Within(g, ws, Append(<<>>, char), NoQuote)
           /\ Took(Escaped(g, ws), char) = Within(g, ws, Append(<<>>, char), NoQuote)
<1> DEFINE f == Fresh(g, ws)
           e == Escaped(g, ws)
<1>1. f.word = <<>> /\ e.word = <<>>
    BY DEF Fresh, Escaped, State
<1>2. /\ Took(f, char) = [f EXCEPT !.word = Append(<<>>, char), !.started = TRUE, !.escaped = FALSE]
      /\ Took(e, char) = [e EXCEPT !.word = Append(<<>>, char), !.started = TRUE, !.escaped = FALSE]
    BY <1>1 DEF Took
<1> QED
    BY <1>2 DEF Fresh, Within, Escaped, State, NoQuote

LEMMA ScanOfPlain ==
    ASSUME NEW g, NEW ws, NEW w, NEW q \in Marks, NEW char, Plain(char, q)
    PROVE  ScanSymbol(Within(g, ws, w, q), char) = Within(g, ws, Append(w, char), q)
<1> DEFINE s == Within(g, ws, w, q)
<1>1. ~ s.escaped /\ ~ s.comment /\ s.quote = q
    BY DEF State, Within
<1>2. Took(s, char) = Within(g, ws, Append(w, char), q)
    BY SymbolsAreTaken
<1>3. ScanSymbol(s, char) = Took(s, char)
    <2> HIDE DEF s
    <2>1. CASE q = NoQuote
        BY <1>1, <2>1 DEF ScanSymbol, InQuotes, NoQuote, Plain
    <2>2. CASE q \in Quotes
        BY <1>1, <2>2 DEF ScanSymbol, InQuotes, NoQuote, Plain, Quotes
    <2> QED
        BY <2>1, <2>2 DEF Marks
<1> QED
    BY <1>2, <1>3

LEMMA ScanOfFirst ==
    ASSUME NEW g, NEW ws, NEW char, Plain(char, NoQuote)
    PROVE  ScanSymbol(Fresh(g, ws), char) = Within(g, ws, Append(<<>>, char), NoQuote)
<1> DEFINE f == Fresh(g, ws)
<1>1. ~ f.escaped /\ ~ f.comment /\ f.quote = ""
    BY DEF State, Fresh
<1>2. Took(f, char) = Within(g, ws, Append(<<>>, char), NoQuote)
    BY FirstSymbolsAreTaken
<1>3. ScanSymbol(f, char) = Took(f, char)
    <2> HIDE DEF f
    <2> QED
        BY <1>1 DEF ScanSymbol, InQuotes, NoQuote, Plain
<1> QED
    BY <1>2, <1>3

LEMMA ScanOfAQuote ==
    ASSUME NEW g, NEW ws, NEW q \in Quotes
    PROVE  ScanSymbol(Fresh(g, ws), q) = Within(g, ws, <<>>, q)
<1> DEFINE s == Fresh(g, ws)
<1>1. ~ s.escaped /\ ~ s.comment /\ s.quote = ""
    BY DEF State, Fresh
<1>2. ScanSymbol(s, q) = [s EXCEPT !.quote = q, !.started = TRUE]
    <2> HIDE DEF s
    <2> QED
        BY <1>1 DEF ScanSymbol, InQuotes, Quotes, EscapeSign, Separators
<1> QED
    BY <1>2 DEF Fresh, Within, State, NoQuote

LEMMA ScanOfTheOtherQuote ==
    ASSUME NEW g, NEW ws, NEW w, NEW q \in Quotes
    PROVE  ScanSymbol(Within(g, ws, w, q), q) = Within(g, ws, w, NoQuote)
<1> DEFINE t == Within(g, ws, w, q)
<1>1. ~ t.escaped /\ ~ t.comment /\ t.quote = q
    BY DEF State, Within
<1>2. ScanSymbol(t, q) = [t EXCEPT !.quote = ""]
    <2> HIDE DEF t
    <2>1. q # EscapeSign /\ q # ""
        BY DEF Quotes, EscapeSign
    <2> QED
        BY <1>1, <2>1 DEF ScanSymbol, InQuotes
<1> QED
    BY <1>2 DEF Within, State, NoQuote

LEMMA ScanOfEscape ==
    ASSUME NEW g, NEW ws
    PROVE  ScanSymbol(Fresh(g, ws), EscapeSign) = Escaped(g, ws)
<1> DEFINE f == Fresh(g, ws)
<1>1. ~ f.escaped /\ ~ f.comment /\ f.quote = ""
    BY DEF State, Fresh
<1>2. ScanSymbol(f, EscapeSign) = [f EXCEPT !.escaped = TRUE]
    <2> HIDE DEF f
    <2> QED
        BY <1>1 DEF ScanSymbol, InQuotes, Quotes, EscapeSign, Separators
<1> QED
    BY <1>2 DEF Fresh, Escaped, State

LEMMA EscapesAreTaken ==
    ASSUME NEW g, NEW ws, NEW char
    PROVE  ScanSymbol(Escaped(g, ws), char) = Within(g, ws, Append(<<>>, char), NoQuote)
<1> DEFINE s == Escaped(g, ws)
<1>1. s.escaped
    BY DEF State, Escaped
<1>2. ScanSymbol(s, char) = Took(s, char)
    <2> HIDE DEF s
    <2> QED
        BY <1>1 DEF ScanSymbol
<1>3. Took(s, char) = Within(g, ws, Append(<<>>, char), NoQuote)
    BY FirstSymbolsAreTaken
<1> QED
    BY <1>2, <1>3

LEMMA ScanOfABlank ==
    ASSUME NEW g, NEW ws, NEW w
    PROVE  ScanSymbol(Within(g, ws, w, NoQuote), Blank) = Fresh(g, Append(ws, w))
<1> DEFINE s == Within(g, ws, w, NoQuote)
<1>1. ~ s.escaped /\ ~ s.comment /\ s.quote = ""
    BY DEF State, Fresh, Within, Commented, Escaped, NoQuote
<1>2. ScanSymbol(s, Blank) = EndWord(s)
    <2> HIDE DEF s
    <2> QED
        BY <1>1 DEF ScanSymbol, InQuotes, Quotes, EscapeSign, Separators, Blank, NoQuote
<1> QED
    BY <1>2, WordsAreEnded

LEMMA ScanOfASeparator ==
    ASSUME NEW g, NEW ws, ws # <<>>, NEW char \in Separators
    PROVE  ScanSymbol(Fresh(g, ws), char) = Fresh(Append(g, ws), <<>>)
<1> DEFINE s == Fresh(g, ws)
<1>1. ~ s.escaped /\ ~ s.comment /\ s.quote = ""
    BY DEF State, Fresh, Within, Commented, Escaped, NoQuote
<1>2. ScanSymbol(s, char) = EndSegment(s)
    <2> HIDE DEF s
    <2>1. char \notin Quotes /\ char # EscapeSign /\ char # "#" /\ char # " "
        BY DEF Quotes, EscapeSign, Separators
    <2> QED
        BY <1>1, <2>1 DEF ScanSymbol, InQuotes
<1> QED
    BY <1>2, SegmentsAreEnded

LEMMA ScanOfAHash ==
    ASSUME NEW g, NEW ws
    PROVE  ScanSymbol(Fresh(g, ws), "#") = Commented(g, ws)
<1> DEFINE f == Fresh(g, ws)
<1>1. ~ f.escaped /\ ~ f.comment /\ f.quote = "" /\ ~ f.started
    BY DEF State, Fresh
<1>2. EndWord(f) = f
    BY NothingToEnd
<1>3. ScanSymbol(f, "#") = [f EXCEPT !.comment = TRUE]
    <2> HIDE DEF f
    <2> QED
        BY <1>1, <1>2 DEF ScanSymbol, InQuotes, Quotes, EscapeSign, Separators
<1> QED
    BY <1>3 DEF Fresh, Commented, State

LEMMA ScanWithinAComment ==
    ASSUME NEW g, NEW ws, NEW char, char # "newline"
    PROVE  ScanSymbol(Commented(g, ws), char) = Commented(g, ws)
<1> DEFINE s == Commented(g, ws)
<1>1. ~ s.escaped /\ s.comment
    BY DEF State, Commented
<1> HIDE DEF s
<1>2. ScanSymbol(s, char) = s
    BY <1>1 DEF ScanSymbol
<1> QED
    BY <1>2 DEF s

\* The symbols a line is written with, besides the pieces of its words.
Signs == Separators \union Quotes \union {EscapeSign, " ", "#", "git", "push"}

\* A word a line can be written with.
Written(word, C) ==
    /\ word \in Seq(C)
    /\ \A i \in 1..Len(word) : word[i] \notin Quotes \union {EscapeSign}

LEMMA FreshStatesAreTyped ==
    ASSUME NEW C, NEW g \in Seq(Seq(Seq(C))), NEW ws \in Seq(Seq(C)), NEW w \in Seq(C), NEW q \in Marks
    PROVE  /\ Fresh(g, ws) \in States(C) /\ Within(g, ws, w, q) \in States(C)
           /\ Commented(g, ws) \in States(C) /\ Escaped(g, ws) \in States(C)
<1>1. <<>> \in Seq(C) /\ "" \in Quotes \union {""} /\ q \in Quotes \union {""} /\ TRUE \in BOOLEAN /\ FALSE \in BOOLEAN
    BY EmptySeq DEF Marks, NoQuote
<1>2. Fresh(g, ws) \in States(C)
    BY <1>1 DEF Fresh, State, States
<1>3. Within(g, ws, w, q) \in States(C)
    BY <1>1 DEF Within, State, States
<1>4. Commented(g, ws) \in States(C)
    BY <1>1 DEF Commented, State, States
<1>5. Escaped(g, ws) \in States(C)
    BY <1>1 DEF Escaped, State, States
<1> QED
    BY <1>2, <1>3, <1>4, <1>5

\* A word of symbols that stand for themselves, and a state that takes them.
PlainWord(word, C, q) == word \in Seq(C) /\ word # <<>> /\ \A i \in 1..Len(word) : Plain(word[i], q)
Takes(s, C, g, ws, q) ==
    /\ s \in States(C)
    /\ \A char : Plain(char, q) => ScanSymbol(s, char) = Within(g, ws, Append(<<>>, char), q)

LEMMA ScanOfAPlainWord ==
    ASSUME NEW C, NEW g, NEW ws, NEW q \in Marks, NEW s, Takes(s, C, g, ws, q),
           NEW word, PlainWord(word, C, q)
    PROVE  ScanFrom(s, word) = Within(g, ws, word, q)
<1>0. /\ s \in States(C) /\ word \in Seq(C) /\ word # <<>>
      /\ \A i \in 1..Len(word) : Plain(word[i], q)
      /\ \A char : Plain(char, q) => ScanSymbol(s, char) = Within(g, ws, Append(<<>>, char), q)
    BY DEF PlainWord, Takes
<1> DEFINE top == Len(word)
           upTo(n) == Within(g, ws, SubSeq(word, 1, n), q)
<1>1. top \in Nat /\ top # 0
    BY <1>0, EmptySeq
<1>2. PICK f : Scans(f, C, s, word)
    BY <1>0, ScansAreThere
<1>3. f[0] = s /\ f[top] = ScanFrom(s, word) /\ \A n \in 1..top : f[n] = ScanSymbol(f[n - 1], word[n])
    BY <1>2 DEF Scans
<1> DEFINE T == {n \in 0..top : n = 0 \/ f[n] = upTo(n)}
<1>4. 0 \in T
    BY <1>1
<1>5. ASSUME NEW n \in 1..top, n - 1 \in T PROVE n \in T
    <2> DEFINE before == SubSeq(word, 1, n - 1)
    <2>1. SubSeq(word, 1, n) = Append(before, word[n])
        BY <1>0, UpToIsAppended
    <2>2. Plain(word[n], q)
        BY <1>0
    <2>3. CASE n = 1
        <3>1. before = <<>>
            BY <2>3
        <3>2. f[1] = ScanSymbol(s, word[1])
            BY <1>1, <1>3, <2>3
        <3> HIDE DEF before
        <3>3. f[n] = Within(g, ws, Append(before, word[n]), q)
            BY <1>0, <2>2, <2>3, <3>1, <3>2
        <3>4. f[n] = Within(g, ws, SubSeq(word, 1, n), q)
            BY <2>1, <3>3
        <3> QED
            BY <1>1, <3>4
    <2>4. CASE n # 1
        <3>1. f[n - 1] = Within(g, ws, before, q)
            BY <1>5, <2>4
        <3> HIDE DEF before
        <3>2. ScanSymbol(Within(g, ws, before, q), word[n]) = Within(g, ws, Append(before, word[n]), q)
            BY <2>2, ScanOfPlain
        <3>3. f[n] = Within(g, ws, Append(before, word[n]), q)
            BY <1>3, <3>1, <3>2
        <3>4. f[n] = Within(g, ws, SubSeq(word, 1, n), q)
            BY <2>1, <3>3
        <3> QED
            BY <1>1, <3>4
    <2> QED
        BY <2>3, <2>4
<1> HIDE DEF T
<1>6. \A n \in 0..top : n \in T
    BY <1>1, <1>4, <1>5, Upwards
<1>7. f[top] = upTo(top)
    BY <1>1, <1>6 DEF T
<1>8. SubSeq(word, 1, top) = word
    BY <1>0, SubSeqFull
<1> QED
    BY <1>3, <1>7, <1>8

\* A word that is quoted, and the blank after it, are that word.
LEMMA ScanOfAWord ==
    ASSUME NEW C, Signs \subseteq C, NEW g \in Seq(Seq(Seq(C))), NEW ws \in Seq(Seq(C)),
           NEW word, Written(word, C), NEW quote
    PROVE  /\ Quoted(word, quote) \o Symbol(Blank) \in Seq(C)
           /\ ScanFrom(Fresh(g, ws), Quoted(word, quote) \o Symbol(Blank)) = Fresh(g, Append(ws, word))
<1> DEFINE s == Fresh(g, ws)
           done == Within(g, ws, word, NoQuote)
           goal(symbols) == symbols \in Seq(C) /\ ScanFrom(s, symbols) = done
<1>1. word \in Seq(C) /\ \A i \in 1..Len(word) : word[i] \notin Quotes \union {EscapeSign}
    BY DEF Written
<1>2. Blank \in C /\ EscapeSign \in C /\ Quotes \subseteq C
    BY DEF Signs, Blank
<1>3. NoQuote \in Marks /\ Quotes \subseteq Marks
    BY DEF Marks
<1>4. s \in States(C) /\ done \in States(C)
    BY <1>1, <1>3, FreshStatesAreTyped
<1>5. ASSUME quote = "none" /\ ~ NeedsQuotes(word)
      PROVE  goal(Quoted(word, quote))
    <2>1. PlainWord(word, C, NoQuote)
        <3>1. Range(word) \intersect (Separators \union {" ", "#"}) = {} /\ word # <<>>
            BY <1>5 DEF NeedsQuotes
        <3>2. \A i \in 1..Len(word) : word[i] \in Range(word)
            BY <1>1 DEF Range
        <3> QED
            BY <1>1, <3>1, <3>2 DEF Plain, PlainWord, NoQuote
    <2>2. Takes(s, C, g, ws, NoQuote)
        BY <1>4, ScanOfFirst DEF Takes
    <2>3. ScanFrom(s, word) = Within(g, ws, word, NoQuote)
        <3> HIDE DEF s, done
        <3> QED
            BY <1>3, <2>1, <2>2, ScanOfAPlainWord
    <2>4. Quoted(word, quote) = word
        BY <1>5 DEF Quoted
    <2> QED
        BY <1>1, <2>3, <2>4
<1>6. ASSUME ~ (quote = "none" /\ ~ NeedsQuotes(word)),
             quote = EscapeSign /\ Len(word) = 1 /\ word # <<"newline">>
      PROVE  goal(Quoted(word, quote))
    <2>1. word = Symbol(word[1]) /\ word[1] \in C /\ Append(<<>>, word[1]) = word
        <3>1. Len(word) = 1
            BY <1>6
        <3>2. word \in Seq(C)
            BY <1>1
        <3>3. word[1] \in C
            BY ONLY <3>1, <3>2
        <3>4. word = <<word[1]>>
            BY ONLY <3>1, <3>2
        <3> QED
            BY <3>3, <3>4, OneSymbol DEF Symbol
    <2>2. Symbol(EscapeSign) \in Seq(C) /\ word \in Seq(C)
        BY <1>1, <1>2, OneSymbol
    <2>3. ScanFrom(s, Symbol(EscapeSign)) = Escaped(g, ws)
        <3>1. ScanFrom(s, Symbol(EscapeSign)) = ScanSymbol(s, EscapeSign)
            BY <1>2, <1>4, ScanOfOne
        <3> QED
            BY <3>1, ScanOfEscape
    <2>4. ScanFrom(Escaped(g, ws), word) = done
        <3>1. Escaped(g, ws) \in States(C)
            BY <1>1, <1>3, FreshStatesAreTyped
        <3>2. ScanFrom(Escaped(g, ws), Symbol(word[1])) = ScanSymbol(Escaped(g, ws), word[1])
            BY <2>1, <3>1, ScanOfOne
        <3>3. ScanSymbol(Escaped(g, ws), word[1]) = Within(g, ws, Append(<<>>, word[1]), NoQuote)
            BY EscapesAreTaken
        <3> QED
            BY <2>1, <3>2, <3>3
    <2>5. ScanFrom(s, Symbol(EscapeSign) \o word) = ScanFrom(ScanFrom(s, Symbol(EscapeSign)), word)
        BY <1>4, <2>2, ScanOfTwo
    <2>6. Symbol(EscapeSign) \o word \in Seq(C)
        BY <2>2, ConcatProperties
    <2>7. Quoted(word, quote) = Symbol(EscapeSign) \o word
        BY <1>6 DEF Quoted, Symbol
    <2>8. goal(Symbol(EscapeSign) \o word)
        BY <2>3, <2>4, <2>5, <2>6
    <2> HIDE DEF goal
    <2> QED
        BY <2>7, <2>8
<1>7. ASSUME ~ (quote = "none" /\ ~ NeedsQuotes(word)),
             ~ (quote = EscapeSign /\ Len(word) = 1 /\ word # <<"newline">>)
      PROVE  goal(Quoted(word, quote))
    <2> DEFINE q == IF quote \in Quotes THEN quote ELSE "squote"
               open == Within(g, ws, <<>>, q)
    <2>1. q \in Quotes /\ q \in Marks /\ q \in C
        BY <1>2, <1>3 DEF Quotes
    <2>2. Quoted(word, quote) = (Symbol(q) \o word) \o Symbol(q)
        BY <1>7 DEF Quoted, Symbol
    <2> HIDE DEF q
    <2>3. Symbol(q) \in Seq(C)
        BY <2>1, OneSymbol
    <2>4. Symbol(q) \o word \in Seq(C) /\ (Symbol(q) \o word) \o Symbol(q) \in Seq(C)
        BY <1>1, <2>3, ConcatProperties
    <2>5. ScanFrom(s, Symbol(q)) = open
        <3>1. ScanFrom(s, Symbol(q)) = ScanSymbol(s, q)
            BY <1>4, <2>1, ScanOfOne
        <3> QED
            BY <2>1, <3>1, ScanOfAQuote
    <2>6. open \in States(C) /\ Within(g, ws, word, q) \in States(C)
        BY <1>1, <2>1, EmptySeq, FreshStatesAreTyped
    <2>7. ScanFrom(open, word) = Within(g, ws, word, q)
        <3>1. CASE word = <<>>
            BY <3>1, <2>6, ScanOfNothing
        <3>2. CASE word # <<>>
            <4>1. PlainWord(word, C, q)
                BY <1>1, <2>1, <3>2 DEF PlainWord, Plain, NoQuote, Quotes
            <4>2. Takes(open, C, g, ws, q)
                <5>1. PICK none : none = <<>>
                    OBVIOUS
                <5>2. \A char : Plain(char, q) =>
                        ScanSymbol(Within(g, ws, none, q), char) = Within(g, ws, Append(none, char), q)
                    BY <2>1, ScanOfPlain
                <5> QED
                    BY <2>6, <5>1, <5>2 DEF Takes
            <4> HIDE DEF open
            <4> QED
                BY <2>1, <4>1, <4>2, ScanOfAPlainWord
        <3> QED
            BY <3>1, <3>2
    <2>8. ScanFrom(Within(g, ws, word, q), Symbol(q)) = done
        <3>1. ScanFrom(Within(g, ws, word, q), Symbol(q)) = ScanSymbol(Within(g, ws, word, q), q)
            BY <2>1, <2>6, ScanOfOne
        <3> QED
            BY <2>1, <3>1, ScanOfTheOtherQuote
    <2>9. ScanFrom(s, Symbol(q) \o word) = ScanFrom(ScanFrom(s, Symbol(q)), word)
        BY <1>1, <1>4, <2>3, ScanOfTwo
    <2>10. ScanFrom(s, (Symbol(q) \o word) \o Symbol(q)) = ScanFrom(ScanFrom(s, Symbol(q) \o word), Symbol(q))
        <3> DEFINE a == Symbol(q) \o word
        <3>1. a \in Seq(C)
            BY <2>4
        <3> HIDE DEF a, s
        <3>2. ScanFrom(s, a \o Symbol(q)) = ScanFrom(ScanFrom(s, a), Symbol(q))
            BY <1>4, <2>3, <3>1, ScanOfTwo
        <3> QED
            BY <3>2 DEF a
    <2>11. goal((Symbol(q) \o word) \o Symbol(q))
        BY <2>4, <2>5, <2>7, <2>8, <2>9, <2>10
    <2> HIDE DEF goal
    <2> QED
        BY <2>2, <2>11
<1>8. Quoted(word, quote) \in Seq(C) /\ ScanFrom(s, Quoted(word, quote)) = done
    BY <1>5, <1>6, <1>7
<1>9. Symbol(Blank) \in Seq(C)
    BY <1>2, OneSymbol
<1>10. ScanFrom(s, Quoted(word, quote) \o Symbol(Blank)) = ScanFrom(ScanFrom(s, Quoted(word, quote)), Symbol(Blank))
    BY <1>4, <1>8, <1>9, ScanOfTwo
<1>11. ScanFrom(done, Symbol(Blank)) = ScanSymbol(done, Blank)
    BY <1>2, <1>4, ScanOfOne
<1>12. ScanSymbol(done, Blank) = Fresh(g, Append(ws, word))
    BY ScanOfABlank
<1>13. Quoted(word, quote) \o Symbol(Blank) \in Seq(C)
    BY <1>8, <1>9, ConcatProperties
<1> QED
    BY <1>8, <1>10, <1>11, <1>12, <1>13

-----------------------------------------------------------------------------
(* What a scan makes of a command that is written.                         *)

\* A word as it stands in a line, with the blank after it.
Stands(word, quote) == Quoted(word, quote) \o Symbol(Blank)

\* f says what has been written with the first words.
WritesWords(f, C, words, quote) ==
    /\ f \in [0..Len(words) -> Seq(C)]
    /\ f[0] = <<>>
    /\ \A n \in 1..Len(words) : f[n] = f[n - 1] \o Stands(words[n], quote)
    /\ f[Len(words)] = WriteWords(words, quote)

LEMMA WordsAreWritten ==
    ASSUME NEW C, NEW words, NEW quote, Len(words) \in Nat,
           \A n \in 1..Len(words) : Stands(words[n], quote) \in Seq(C)
    PROVE  \E f : WritesWords(f, C, words, quote)
<1> DEFINE top == Len(words)
           R == Seq(C)
           Step(n, t) == t \o Stands(words[n], quote)
           next == [p \in (1..top) \X R |-> Step(p[1], p[2])]
           Right(f) == f = [n \in 0..top |-> IF n = 0 THEN <<>> ELSE Step(n, f[n - 1])]
           g == CHOOSE g : Right(g)
<1>1. top \in Nat
    OBVIOUS
<1>2. <<>> \in R
    BY EmptySeq
<1>3. \A n \in 1..top : \A t \in R : Step(n, t) \in R
    BY ConcatProperties
<1>4. WriteWords(words, quote) = g[top]
    BY DEF WriteWords, Stands, Symbol, Blank
<1> HIDE DEF top, R, Step
<1>5. next \in [(1..top) \X R -> R]
    BY <1>3
<1>6. PICK f \in [0..top -> R] : Recurs(f, top, <<>>, next)
    <2> HIDE DEF next
    <2> QED
        BY <1>1, <1>2, <1>5, RecursionIsThere
<1>7. Right(f)
    <2>1. f = [n \in 0..top |-> IF n = 0 THEN <<>> ELSE next[<<n, f[n - 1]>>]]
        BY <1>6 DEF Recurs
    <2>2. ASSUME NEW n \in 0..top
          PROVE  (IF n = 0 THEN <<>> ELSE next[<<n, f[n - 1]>>]) = (IF n = 0 THEN <<>> ELSE Step(n, f[n - 1]))
        <3>1. n # 0 => n \in 1..top /\ n - 1 \in 0..top
            BY <1>1
        <3>2. n # 0 => f[n - 1] \in R
            BY <1>6, <3>1
        <3> QED
            BY <3>1, <3>2
    <2> HIDE DEF next
    <2> QED
        BY <2>1, <2>2
<1>8. Right(g)
    BY <1>7
<1> HIDE DEF g
<1>9. g[0] = <<>> /\ \A n \in 1..top : g[n] = Step(n, g[n - 1])
    <2>1. \A n \in 0..top : g[n] = IF n = 0 THEN <<>> ELSE Step(n, g[n - 1])
        BY <1>8
    <2> QED
        BY <1>1, <2>1
<1>10. g \in [0..top -> R]
    <2> DEFINE T == {n \in 0..top : g[n] \in R}
    <2>1. 0 \in T
        BY <1>1, <1>2, <1>9
    <2>2. \A n \in 1..top : n - 1 \in T => n \in T
        BY <1>1, <1>3, <1>9
    <2> HIDE DEF T
    <2>3. \A n \in 0..top : n \in T
        BY <1>1, <2>1, <2>2, Upwards
    <2>4. \A n \in 0..top : g[n] \in R
        BY <2>3 DEF T
    <2>5. g = [n \in 0..top |-> g[n]]
        BY <1>8
    <2> QED
        BY <2>4, <2>5
<1> QED
    BY <1>4, <1>9, <1>10 DEF WritesWords, top, R, Step

\* Words a line can be written with.
WrittenWords(words, C) ==
    words \in Seq(Seq(C)) /\ \A n \in 1..Len(words) : Written(words[n], C)

LEMMA ScanOfWords ==
    ASSUME NEW C, Signs \subseteq C, NEW g \in Seq(Seq(Seq(C))), NEW words, WrittenWords(words, C), NEW quote
    PROVE  /\ WriteWords(words, quote) \in Seq(C)
           /\ ScanFrom(Fresh(g, <<>>), WriteWords(words, quote)) = Fresh(g, words)
<1> DEFINE top == Len(words)
           s == Fresh(g, <<>>)
           upTo(n) == SubSeq(words, 1, n)
<1>1. /\ words \in Seq(Seq(C)) /\ top \in Nat
      /\ \A n \in 1..top : Written(words[n], C)
    BY DEF WrittenWords
<1>2. \A n \in 1..top : Stands(words[n], quote) \in Seq(C)
    <2>1. <<>> \in Seq(Seq(C))
        BY EmptySeq
    <2> QED
        BY <1>1, <2>1, ScanOfAWord DEF Stands
<1>3. PICK f : WritesWords(f, C, words, quote)
    BY <1>1, <1>2, WordsAreWritten
<1>4. /\ f \in [0..top -> Seq(C)] /\ f[0] = <<>> /\ f[top] = WriteWords(words, quote)
      /\ \A n \in 1..top : f[n] = f[n - 1] \o Stands(words[n], quote)
    BY <1>3 DEF WritesWords
<1>5. s \in States(C)
    <2>1. <<>> \in Seq(Seq(C)) /\ <<>> \in Seq(C) /\ NoQuote \in Marks
        BY EmptySeq DEF Marks
    <2> QED
        BY <2>1, FreshStatesAreTyped
<1> DEFINE T == {n \in 0..top : ScanFrom(s, f[n]) = Fresh(g, upTo(n))}
<1>6. 0 \in T
    <2>1. ScanFrom(s, <<>>) = s
        BY <1>5, ScanOfNothing
    <2>2. upTo(0) = <<>>
        OBVIOUS
    <2> HIDE DEF upTo
    <2> QED
        BY <1>1, <1>4, <2>1, <2>2
<1>7. ASSUME NEW n \in 1..top, n - 1 \in T PROVE n \in T
    <2> DEFINE before == upTo(n - 1)
               word == words[n]
    <2>1. upTo(n) = Append(before, word) /\ before \in Seq(Seq(C))
        BY <1>1, UpToIsAppended
    <2>2. n \in 0..top /\ n - 1 \in 0..top /\ f[n - 1] \in Seq(C)
        <3>1. n \in 0..top /\ n - 1 \in 0..top
            BY <1>1
        <3> QED
            BY <1>4, <3>1
    <2>3. Written(word, C) /\ Stands(word, quote) \in Seq(C)
        BY <1>1, <1>2
    <2>4. ScanFrom(s, f[n - 1]) = Fresh(g, before)
        BY <1>7
    <2> HIDE DEF before, s, word, T
    <2>5. ScanFrom(Fresh(g, before), Stands(word, quote)) = Fresh(g, Append(before, word))
        BY <2>1, <2>3, ScanOfAWord, ZenonT(60) DEF Stands
    <2>6. ScanFrom(s, f[n - 1] \o Stands(word, quote)) = ScanFrom(ScanFrom(s, f[n - 1]), Stands(word, quote))
        BY <1>5, <2>2, <2>3, ScanOfTwo
    <2>7. f[n] = f[n - 1] \o Stands(word, quote)
        BY <1>4 DEF word
    <2>8. ScanFrom(s, f[n]) = Fresh(g, upTo(n))
        BY <2>1, <2>4, <2>5, <2>6, <2>7
    <2> QED
        BY <2>2, <2>8 DEF T
<1> HIDE DEF T
<1>8. \A n \in 0..top : n \in T
    BY <1>1, <1>6, <1>7, Upwards
<1>9. ScanFrom(s, f[top]) = Fresh(g, upTo(top)) /\ f[top] \in Seq(C)
    BY <1>1, <1>4, <1>8 DEF T
<1>10. upTo(top) = words
    BY <1>1, SubSeqFull
<1> QED
    BY <1>4, <1>9, <1>10

-----------------------------------------------------------------------------
(* What a scan makes of a line that is written.                            *)

\* A comment ends the line: it is passed over.
Remark == <<"#", ";", "git", " ", "push">>

LEMMA ScanOfARemark ==
    ASSUME NEW C, Signs \subseteq C, NEW g \in Seq(Seq(Seq(C))), NEW ws \in Seq(Seq(C))
    PROVE  Remark \in Seq(C) /\ ScanFrom(Fresh(g, ws), Remark) = Commented(g, ws)
<1> DEFINE s == Fresh(g, ws)
<1>1. Len(Remark) = 5 /\ Remark[1] = "#" /\ \A n \in 2..5 : Remark[n] # "newline"
    BY DEF Remark
<1>2. Remark \in Seq(C)
    <2>1. \A n \in 1..5 : Remark[n] \in Signs
        <3>1. {"#", ";", "git", " ", "push"} \subseteq Signs
            BY DEF Signs, Separators
        <3>2. \A n \in 1..5 : Remark[n] \in {"#", ";", "git", " ", "push"}
            <4>1. Remark[1] = "#" /\ Remark[2] = ";" /\ Remark[3] = "git" /\ Remark[4] = " " /\ Remark[5] = "push"
                BY DEF Remark
            <4>2. \A n \in 1..5 : n = 1 \/ n = 2 \/ n = 3 \/ n = 4 \/ n = 5
                OBVIOUS
            <4> QED
                BY <4>1, <4>2
        <3> QED
            BY <3>1, <3>2
    <2>2. Remark = [n \in 1..5 |-> Remark[n]]
        BY DEF Remark
    <2>3. \A n \in 1..5 : Remark[n] \in C
        BY <2>1
    <2> QED
        BY <2>2, <2>3
<1>3. s \in States(C)
    <2>1. <<>> \in Seq(C) /\ NoQuote \in Marks
        BY EmptySeq DEF Marks
    <2> QED
        BY <2>1, FreshStatesAreTyped
<1>4. PICK f : Scans(f, C, s, Remark)
    BY <1>2, <1>3, ScansAreThere
<1>5. f[0] = s /\ f[5] = ScanFrom(s, Remark) /\ \A n \in 1..5 : f[n] = ScanSymbol(f[n - 1], Remark[n])
    BY <1>1, <1>4 DEF Scans
<1>6. f[1] = Commented(g, ws)
    <2>1. f[1] = ScanSymbol(s, "#")
        BY <1>1, <1>5
    <2> QED
        BY <2>1, ScanOfAHash
<1>7. \A n \in 2..5 : f[n - 1] = Commented(g, ws) => f[n] = Commented(g, ws)
    BY <1>1, <1>5, ScanWithinAComment
<1>8. f[2] = Commented(g, ws)
    BY <1>6, <1>7
<1>9. f[3] = Commented(g, ws)
    BY <1>7, <1>8
<1>10. f[4] = Commented(g, ws)
    BY <1>7, <1>9
<1>11. f[5] = Commented(g, ws)
    BY <1>7, <1>10
<1> QED
    BY <1>2, <1>5, <1>11

\* A line that can be written.
WrittenLine(l, C) ==
    /\ l.commands \in Seq(Seq(Seq(C)))
    /\ \A n \in 1..Len(l.commands) : WrittenWords(l.commands[n], C) /\ l.commands[n] # <<>>
    /\ l.separator \in Separators

\* f says what has been written with the first commands.
Follows(t, n, l) == (IF n = 1 THEN <<>> ELSE Append(t, l.separator)) \o WriteWords(l.commands[n], l.quote)
WritesCommands(f, C, l) ==
    /\ f \in [0..Len(l.commands) -> Seq(C)]
    /\ f[0] = <<>>
    /\ \A n \in 1..Len(l.commands) : f[n] = Follows(f[n - 1], n, l)
    /\ f[Len(l.commands)] = WriteCommands(l)

LEMMA CommandsAreWritten ==
    ASSUME NEW C, Signs \subseteq C, NEW l, WrittenLine(l, C)
    PROVE  \E f : WritesCommands(f, C, l)
<1> DEFINE top == Len(l.commands)
           R == Seq(C)
           Step(n, t) == Follows(t, n, l)
           next == [p \in (1..top) \X R |-> Step(p[1], p[2])]
           Right(f) == f = [n \in 0..top |-> IF n = 0 THEN <<>> ELSE Step(n, f[n - 1])]
           g == CHOOSE g : Right(g)
<1>1. /\ top \in Nat /\ l.separator \in C
      /\ \A n \in 1..top : WrittenWords(l.commands[n], C)
    <2>1. Separators \subseteq C
        BY DEF Signs
    <2>2. l.commands \in Seq(Seq(Seq(C))) /\ l.separator \in Separators
        BY DEF WrittenLine
    <2>3. \A n \in 1..top : WrittenWords(l.commands[n], C)
        BY DEF WrittenLine
    <2> QED
        BY <2>1, <2>2, <2>3
<1>2. <<>> \in R
    BY EmptySeq
<1>3. ASSUME NEW n \in 1..top, NEW t \in R PROVE Step(n, t) \in R
    <2> DEFINE words == WriteWords(l.commands[n], l.quote)
               before == IF n = 1 THEN <<>> ELSE Append(t, l.separator)
    <2>1. <<>> \in Seq(Seq(Seq(C)))
        BY EmptySeq
    <2>2. words \in R
        BY <1>1, <2>1, ScanOfWords
    <2>3. before \in R
        BY <1>1, <1>2, AppendProperties
    <2> HIDE DEF words, before
    <2>4. before \o words \in R
        BY <2>2, <2>3, ConcatProperties
    <2> QED
        BY <2>4 DEF Follows, words, before
<1>4. WriteCommands(l) = g[top]
    BY DEF WriteCommands, Follows
<1> HIDE DEF top, R, Step
<1>5. next \in [(1..top) \X R -> R]
    BY <1>3
<1>6. PICK f \in [0..top -> R] : Recurs(f, top, <<>>, next)
    <2> HIDE DEF next
    <2> QED
        BY <1>1, <1>2, <1>5, RecursionIsThere
<1>7. Right(f)
    <2>1. f = [n \in 0..top |-> IF n = 0 THEN <<>> ELSE next[<<n, f[n - 1]>>]]
        BY <1>6 DEF Recurs
    <2>2. ASSUME NEW n \in 0..top
          PROVE  (IF n = 0 THEN <<>> ELSE next[<<n, f[n - 1]>>]) = (IF n = 0 THEN <<>> ELSE Step(n, f[n - 1]))
        <3>1. n # 0 => n \in 1..top /\ n - 1 \in 0..top
            BY <1>1
        <3>2. n # 0 => f[n - 1] \in R
            BY <1>6, <3>1
        <3> QED
            BY <3>1, <3>2
    <2> HIDE DEF next
    <2> QED
        BY <2>1, <2>2
<1>8. Right(g)
    BY <1>7
<1> HIDE DEF g
<1>9. g[0] = <<>> /\ \A n \in 1..top : g[n] = Step(n, g[n - 1])
    <2>1. \A n \in 0..top : g[n] = IF n = 0 THEN <<>> ELSE Step(n, g[n - 1])
        BY <1>8
    <2> QED
        BY <1>1, <2>1
<1>10. g \in [0..top -> R]
    <2> DEFINE T == {n \in 0..top : g[n] \in R}
    <2>1. 0 \in T
        BY <1>1, <1>2, <1>9
    <2>2. \A n \in 1..top : n - 1 \in T => n \in T
        BY <1>1, <1>3, <1>9
    <2> HIDE DEF T
    <2>3. \A n \in 0..top : n \in T
        BY <1>1, <2>1, <2>2, Upwards
    <2>4. \A n \in 0..top : g[n] \in R
        BY <2>3 DEF T
    <2>5. g = [n \in 0..top |-> g[n]]
        BY <1>8
    <2> QED
        BY <2>4, <2>5
<1> QED
    BY <1>4, <1>9, <1>10 DEF WritesCommands, top, R, Step

\* The state between two commands, and the commands there are by then.
Between(l, n) == Fresh(SubSeq(l.commands, 1, n - 1), l.commands[n])

LEMMA ScanOfCommands ==
    ASSUME NEW C, Signs \subseteq C, NEW l, WrittenLine(l, C)
    PROVE  /\ WriteCommands(l) \in Seq(C)
           /\ ScanFrom(Fresh(<<>>, <<>>), WriteCommands(l)) =
                IF l.commands = <<>> THEN Fresh(<<>>, <<>>) ELSE Between(l, Len(l.commands))
<1> DEFINE top == Len(l.commands)
           s == Fresh(<<>>, <<>>)
           g(n) == SubSeq(l.commands, 1, n - 1)
<1>1. /\ top \in Nat /\ l.commands \in Seq(Seq(Seq(C))) /\ l.separator \in Separators
      /\ \A n \in 1..top : WrittenWords(l.commands[n], C) /\ l.commands[n] # <<>>
      /\ \A n \in 1..top : l.commands[n] \in Seq(Seq(C))
    BY DEF WrittenLine
<1>2. l.separator \in C
    BY <1>1 DEF Signs
<1>3. PICK f : WritesCommands(f, C, l)
    BY CommandsAreWritten
<1>4. /\ f \in [0..top -> Seq(C)] /\ f[0] = <<>> /\ f[top] = WriteCommands(l)
      /\ \A n \in 1..top : f[n] = Follows(f[n - 1], n, l)
    BY <1>3 DEF WritesCommands
<1>5. <<>> \in Seq(C) /\ <<>> \in Seq(Seq(C)) /\ <<>> \in Seq(Seq(Seq(C))) /\ NoQuote \in Marks
    BY EmptySeq DEF Marks
<1>6. s \in States(C)
    BY <1>5, FreshStatesAreTyped
<1> DEFINE T == {n \in 0..top : n = 0 \/ ScanFrom(s, f[n]) = Fresh(g(n), l.commands[n])}
<1>7. 0 \in T
    BY <1>1
<1>8. ASSUME NEW n \in 1..top, n - 1 \in T PROVE n \in T
    <2> DEFINE words == l.commands[n]
               written == WriteWords(words, l.quote)
    <2>1. n \in 0..top /\ n - 1 \in 0..top
        BY <1>1
    <2>2. f[n - 1] \in Seq(C)
        BY <1>4, <2>1
    <2>3. WrittenWords(words, C)
        BY <1>1
    <2>4. SubSeq(l.commands, 1, n - 1) \in Seq(Seq(Seq(C)))
        BY <1>1, UpToIsAppended
    <2>5. written \in Seq(C) /\ ScanFrom(Fresh(g(n), <<>>), written) = Fresh(g(n), words)
        <3> DEFINE gg == g(n)
        <3>1. gg \in Seq(Seq(Seq(C)))
            BY <2>4
        <3> HIDE DEF gg, words
        <3>2. WriteWords(words, l.quote) \in Seq(C) /\ ScanFrom(Fresh(gg, <<>>), WriteWords(words, l.quote)) = Fresh(gg, words)
            BY <2>3, <3>1, ScanOfWords
        <3> QED
            BY <3>2 DEF gg
    <2>6. CASE n = 1
        <3>1. g(n) = <<>>
            BY <2>6
        <3>2. f[n] = <<>> \o written
            BY <1>4, <2>6 DEF Follows
        <3>3. <<>> \o written = written
            BY <2>5
        <3> HIDE DEF words, written, g, T, s
        <3>4. ScanFrom(s, f[n]) = Fresh(g(n), words)
            BY <2>5, <3>1, <3>2, <3>3 DEF s
        <3> QED
            BY <2>1, <3>4 DEF T, words
    <2>7. CASE n # 1
        <3> DEFINE last == l.commands[n - 1]
                   sep == l.separator
        <3>1. n - 1 \in 1..top /\ n - 1 # 0
            BY <1>1, <2>7
        <3>2. ScanFrom(s, f[n - 1]) = Fresh(g(n - 1), last)
            BY <1>8, <3>1
        <3>3. g(n) = Append(g(n - 1), last) /\ last # <<>>
            BY <1>1, <3>1, UpToIsAppended
        <3>4. f[n] = Append(f[n - 1], sep) \o written
            BY <1>4, <2>7 DEF Follows
        <3>5. Append(f[n - 1], sep) = f[n - 1] \o Symbol(sep) /\ Symbol(sep) \in Seq(C)
            BY <1>2, <2>2, AppendIsConcat, OneSymbol DEF Symbol
        <3> HIDE DEF words, written, g, T, s, last
        <3>6. ScanFrom(s, f[n - 1] \o Symbol(sep)) = ScanFrom(ScanFrom(s, f[n - 1]), Symbol(sep))
            BY <1>6, <2>2, <3>5, ScanOfTwo
        <3>7. ScanFrom(s, f[n - 1]) \in States(C)
            BY <1>6, <2>2, ScansAreTyped
        <3>8. ScanFrom(ScanFrom(s, f[n - 1]), Symbol(sep)) = ScanSymbol(ScanFrom(s, f[n - 1]), sep)
            BY <1>2, <3>7, ScanOfOne
        <3>9. ScanSymbol(Fresh(g(n - 1), last), sep) = Fresh(Append(g(n - 1), last), <<>>)
            BY <1>1, <3>3, ScanOfASeparator
        <3>10. f[n - 1] \o Symbol(sep) \in Seq(C)
            BY <2>2, <3>5, ConcatProperties
        <3>11. ScanFrom(s, (f[n - 1] \o Symbol(sep)) \o written) = ScanFrom(ScanFrom(s, f[n - 1] \o Symbol(sep)), written)
            <4> DEFINE a == f[n - 1] \o Symbol(sep)
            <4>1. a \in Seq(C)
                BY <3>10
            <4> HIDE DEF a
            <4>2. ScanFrom(s, a \o written) = ScanFrom(ScanFrom(s, a), written)
                BY <1>6, <2>5, <4>1, ScanOfTwo
            <4> QED
                BY <4>2 DEF a
        <3>12. ScanFrom(s, f[n]) = Fresh(g(n), words)
            BY <2>5, <3>2, <3>3, <3>4, <3>5, <3>6, <3>8, <3>9, <3>11
        <3> QED
            BY <2>1, <3>12 DEF T, words
    <2> QED
        BY <2>6, <2>7
<1> HIDE DEF T
<1>9. \A n \in 0..top : n \in T
    BY <1>1, <1>7, <1>8, Upwards
<1>10. top \in T /\ f[top] \in Seq(C)
    BY <1>1, <1>4, <1>9
<1>11. CASE l.commands = <<>>
    <2>1. top = 0
        BY <1>11
    <2>2. f[top] = <<>>
        BY <1>4, <2>1
    <2>3. ScanFrom(s, <<>>) = s
        BY <1>6, ScanOfNothing
    <2> QED
        BY <1>4, <1>10, <1>11, <2>2, <2>3
<1>12. CASE l.commands # <<>>
    <2>1. top # 0
        BY <1>1, <1>12
    <2>2. ScanFrom(s, f[top]) = Between(l, top)
        BY <1>10, <2>1 DEF T, Between
    <2> QED
        BY <1>4, <1>10, <1>12, <2>2
<1> QED
    BY <1>11, <1>12

LEMMA ScanBegins == Scan = Fresh(<<>>, <<>>)
BY DEF Scan, Fresh, State

LEMMA SegmentsOfAState ==
    ASSUME NEW g, NEW ws
    PROVE  Fresh(g, ws).segments = g /\ Commented(g, ws).segments = g
BY DEF Fresh, Commented, State

\* A line is split into the commands it is written with.
LEMMA LinesAreSplit ==
    ASSUME NEW C, Signs \subseteq C, NEW l, WrittenLine(l, C)
    PROVE  Write(l) \in Seq(C) /\ shellSegments(Write(l)) = l.commands
<1> DEFINE top == Len(l.commands)
           written == WriteCommands(l)
           s == Fresh(<<>>, <<>>)
           g == IF l.commands = <<>> THEN <<>> ELSE SubSeq(l.commands, 1, top - 1)
           ws == IF l.commands = <<>> THEN <<>> ELSE l.commands[top]
<1>1. /\ top \in Nat /\ l.commands \in Seq(Seq(Seq(C)))
      /\ \A n \in 1..top : l.commands[n] \in Seq(Seq(C)) /\ l.commands[n] # <<>>
    BY DEF WrittenLine
<1>2. <<>> \in Seq(C) /\ <<>> \in Seq(Seq(C)) /\ <<>> \in Seq(Seq(Seq(C))) /\ NoQuote \in Marks
    BY EmptySeq DEF Marks
<1>3. g \in Seq(Seq(Seq(C))) /\ ws \in Seq(Seq(C)) /\ (IF ws # <<>> THEN Append(g, ws) ELSE g) = l.commands
    <2>1. CASE l.commands = <<>>
        BY <1>2, <2>1
    <2>2. CASE l.commands # <<>>
        <3>1. top \in 1..top
            BY <1>1, <2>2
        <3>2. /\ SubSeq(l.commands, 1, top) = Append(SubSeq(l.commands, 1, top - 1), l.commands[top])
              /\ SubSeq(l.commands, 1, top - 1) \in Seq(Seq(Seq(C)))
            BY <1>1, <3>1, UpToIsAppended
        <3>3. SubSeq(l.commands, 1, top) = l.commands
            BY <1>1, SubSeqFull
        <3>4. g = SubSeq(l.commands, 1, top - 1) /\ ws = l.commands[top]
            BY <2>2
        <3>5. ws # <<>> /\ ws \in Seq(Seq(C))
            BY <1>1, <3>1, <3>4
        <3> HIDE DEF g, ws
        <3> QED
            BY <3>2, <3>3, <3>4, <3>5
    <2> QED
        BY <2>1, <2>2
<1>4. written \in Seq(C) /\ ScanFrom(s, written) = Fresh(g, ws)
    <2>1. written \in Seq(C) /\ ScanFrom(s, written) = IF l.commands = <<>> THEN s ELSE Between(l, top)
        BY ScanOfCommands
    <2>2. CASE l.commands = <<>>
        BY <2>1, <2>2
    <2>3. CASE l.commands # <<>>
        BY <2>1, <2>3 DEF Between
    <2> QED
        BY <2>2, <2>3
<1>5. s \in States(C)
    BY <1>2, FreshStatesAreTyped
<1> HIDE DEF g, ws, s, written
<1>6. CASE ~ l.comment
    <2>1. Write(l) = written \o <<>>
        BY <1>6 DEF Write, written
    <2>2. written \o <<>> = written
        BY <1>4
    <2>3. ScanFrom(Scan, Write(l)) = Fresh(g, ws)
        BY <1>4, <2>1, <2>2, ScanBegins DEF s
    <2>4. EndSegment(Fresh(g, ws)) = Fresh(l.commands, <<>>)
        BY <1>3, SegmentsAreEnded
    <2> QED
        BY <1>4, <2>1, <2>2, <2>3, <2>4, SegmentsOfAState DEF shellSegments
<1>7. CASE l.comment
    <2>1. Write(l) = written \o Remark
        BY <1>7 DEF Write, written, Remark
    <2>2. Remark \in Seq(C) /\ ScanFrom(Fresh(g, ws), Remark) = Commented(g, ws)
        BY <1>3, ScanOfARemark
    <2>3. ScanFrom(s, written \o Remark) = ScanFrom(ScanFrom(s, written), Remark)
        BY <1>4, <1>5, <2>2, ScanOfTwo
    <2>4. ScanFrom(Scan, Write(l)) = Commented(g, ws)
        BY <1>4, <2>1, <2>2, <2>3, ScanBegins DEF s
    <2>5. EndSegment(Commented(g, ws)) = Commented(l.commands, <<>>)
        BY <1>3, SegmentsAreEnded
    <2>6. written \o Remark \in Seq(C)
        BY <1>4, <2>2, ConcatProperties
    <2> QED
        BY <2>1, <2>4, <2>5, <2>6, SegmentsOfAState DEF shellSegments
<1> QED
    BY <1>6, <1>7

\* What the words of a line are made of stands in the line.
LEMMA PiecesStandInTheLine ==
    ASSUME NEW C, NEW symbols \in Seq(C)
    PROVE  shellSegments(symbols) \in Seq(Seq(Seq(Range(symbols))))
<1> DEFINE D == Range(symbols)
<1>1. symbols \in Seq(D)
    <2>1. \A n \in 1..Len(symbols) : symbols[n] \in D
        BY DEF Range
    <2>2. Len(symbols) \in Nat /\ symbols = [n \in 1..Len(symbols) |-> symbols[n]]
        OBVIOUS
    <2> HIDE DEF D
    <2> QED
        BY <2>1, <2>2
<1> HIDE DEF D
<1>2. <<>> \in Seq(D) /\ <<>> \in Seq(Seq(D)) /\ <<>> \in Seq(Seq(Seq(D))) /\ NoQuote \in Marks
    BY EmptySeq DEF Marks
<1>3. Scan \in States(D)
    BY <1>2, FreshStatesAreTyped, ScanBegins
<1>4. ScanFrom(Scan, symbols) \in States(D)
    BY <1>1, <1>3, ScansAreTyped
<1>5. EndSegment(ScanFrom(Scan, symbols)) \in States(D)
    BY <1>4, EndsAreTyped
<1>6. EndSegment(ScanFrom(Scan, symbols)).segments \in Seq(Seq(Seq(D)))
    BY <1>5 DEF States
<1> QED
    BY <1>6 DEF shellSegments, D

LEMMA SeqsGrow ==
    ASSUME NEW A, NEW B, A \subseteq B, NEW s \in Seq(A)
    PROVE  s \in Seq(B)
<1>1. Len(s) \in Nat /\ s = [n \in 1..Len(s) |-> s[n]] /\ \A n \in 1..Len(s) : s[n] \in B
    OBVIOUS
<1> QED
    BY <1>1

LEMMA RangesOfSeqs ==
    ASSUME NEW S, NEW s \in Seq(S)
    PROVE  Range(s) \subseteq S
BY DEF Range

\* Commands and a separator make a line that can be written.
LEMMA CommandsCanBeWritten ==
    ASSUME NEW l, AreCommands(l.commands), l.separator \in Separators
    PROVE  \E C : Signs \subseteq C /\ WrittenLine(l, C)
<1> DEFINE commands == l.commands
           pieces == UNION {UNION {Range(word) : word \in Range(words)} : words \in Range(commands)}
           C == Signs \union pieces
<1>1. /\ commands \in Seq(Range(commands))
      /\ \A words \in Range(commands) :
           /\ words \in Seq(Range(words)) /\ words # <<>>
           /\ \A word \in Range(words) :
                word \in Seq(Range(word)) /\ Range(word) \intersect (Quotes \union {EscapeSign}) = {}
    BY DEF AreCommands
<1>2. ASSUME NEW words \in Range(commands)
      PROVE  WrittenWords(words, C) /\ words \in Seq(Seq(C)) /\ words # <<>>
    <2>1. ASSUME NEW word \in Range(words)
          PROVE  word \in Seq(C) /\ Written(word, C)
        <3>1. Range(word) \subseteq C
            OBVIOUS
        <3>2. word \in Seq(Range(word)) /\ Range(word) \intersect (Quotes \union {EscapeSign}) = {}
            BY <1>1
        <3> HIDE DEF C
        <3>3. \A i \in 1..Len(word) : word[i] \in Range(word)
            BY <3>2
        <3>4. word \in Seq(C)
            BY <3>1, <3>2, SeqsGrow
        <3> QED
            BY <3>2, <3>3, <3>4 DEF Written
    <2> HIDE DEF C
    <2>2. words \in Seq(Range(words)) /\ words # <<>>
        BY <1>1
    <2>3. \A n \in 1..Len(words) : words[n] \in Range(words)
        BY <2>2
    <2>4. Range(words) \subseteq Seq(C)
        BY <2>1
    <2>5. words \in Seq(Seq(C))
        BY <2>2, <2>4, SeqsGrow
    <2> QED
        BY <2>1, <2>2, <2>3, <2>5 DEF WrittenWords
<1>3. Signs \subseteq C
    OBVIOUS
<1> HIDE DEF C
<1>4. Range(commands) \subseteq Seq(Seq(C))
    BY <1>2
<1>5. commands \in Seq(Seq(Seq(C)))
    BY <1>1, <1>4, SeqsGrow
<1>6. \A n \in 1..Len(commands) : commands[n] \in Range(commands)
    BY <1>1
<1>7. WrittenLine(l, C)
    BY <1>2, <1>5, <1>6 DEF WrittenLine
<1> QED
    BY <1>3, <1>7

\* A line of commands is split into them, and holds what their words are made of.
LEMMA LinesAreReadBack ==
    ASSUME NEW l, AreCommands(l.commands), l.separator \in Separators
    PROVE  /\ shellSegments(Write(l)) = l.commands
           /\ \A words \in Range(l.commands) : \A word \in Range(words) : Range(word) \subseteq Range(Write(l))
<1>1. PICK C : Signs \subseteq C /\ WrittenLine(l, C)
    BY CommandsCanBeWritten
<1>2. Write(l) \in Seq(C) /\ shellSegments(Write(l)) = l.commands
    BY <1>1, LinesAreSplit
<1> DEFINE D == Range(Write(l))
<1>3. l.commands \in Seq(Seq(Seq(D)))
    BY <1>2, PiecesStandInTheLine
<1> HIDE DEF D
<1>4. \A words \in Range(l.commands) : words \in Seq(Seq(D))
    BY <1>3, RangesOfSeqs
<1>5. \A words \in Range(l.commands) : \A word \in Range(words) : word \in Seq(D)
    BY <1>4, RangesOfSeqs
<1>6. \A words \in Range(l.commands) : \A word \in Range(words) : Range(word) \subseteq D
    BY <1>5, RangesOfSeqs
<1> QED
    BY <1>2, <1>6 DEF D

-----------------------------------------------------------------------------
(* What git is told to do, and what a command reads.                       *)

LEMMA TheProgramIsFound ==
    ASSUME NEW words, Len(words) \in Nat
    PROVE  /\ ProgramAt(words) \in 1..(Len(words) + 1)
           /\ \A k \in 1..(ProgramAt(words) - 1) : Wraps(words[k])
           /\ ProgramAt(words) <= Len(words) => ~ Wraps(words[ProgramAt(words)])
<1> DEFINE top == Len(words)
           runs == {i \in 1..(top + 1) : i <= top => ~ Wraps(words[i])}
           IsFirst(i) == /\ \A k \in 1..(i - 1) : Wraps(words[k])
                         /\ i <= top => ~ Wraps(words[i])
<1>1. top + 1 \in runs /\ runs \in SUBSET Nat
    OBVIOUS
<1>2. PICK i \in runs : \A j \in runs : i <= j
    <2> HIDE DEF runs
    <2> QED
        BY <1>1, LeastNumber
<1>3. i \in 1..(top + 1) /\ IsFirst(i)
    <2>1. ASSUME NEW k \in 1..(i - 1) PROVE Wraps(words[k])
        <3>1. k \in 1..(top + 1) /\ k <= top /\ ~ (i <= k)
            BY <1>2
        <3> QED
            BY <1>2, <3>1
    <2> QED
        BY <1>2, <2>1
<1>4. ProgramAt(words) = CHOOSE j \in 1..(top + 1) : IsFirst(j)
    BY DEF ProgramAt
<1> HIDE DEF IsFirst
<1>5. ProgramAt(words) \in 1..(top + 1) /\ IsFirst(ProgramAt(words))
    BY <1>3, <1>4
<1> QED
    BY <1>5 DEF IsFirst

\* What wraps a program is no option.
LEMMA WrappersAreNoOptions ==
    ASSUME NEW word, Is(word, WrapperOptions) \/ Is(word, SortOutput)
    PROVE  /\ ~ Wraps(word)
           /\ \A names : Named(word, names) => names \intersect (WrapperOptions \union SortOutput) # {}
<1>1. PICK n \in WrapperOptions \union SortOutput : word = <<n>>
    BY DEF Is
<1>2. n # "/bin/" /\ n \notin Assignments /\ n \notin COMMAND_PREFIXES
    BY DEF WrapperOptions, SortOutput, Assignments, COMMAND_PREFIXES
<1>3. word[1] = n
    BY <1>1
<1>4. executableName(word) = <<n>>
    BY <1>1, <1>2, <1>3 DEF executableName
<1>5. ~ Wraps(word)
    BY <1>1, <1>2, <1>4 DEF Wraps, Is, Named
<1>6. ASSUME NEW names, Named(word, names) PROVE n \in names
    BY <1>4, <1>6 DEF Named
<1> QED
    BY <1>5, <1>6

LEMMA TakesAWord ==
    ASSUME NEW word, Is(word, {"-u", "-n"})
    PROVE  ~ Wraps(word)
<1>1. Is(word, WrapperOptions)
    BY DEF Is, WrapperOptions
<1> QED
    BY <1>1, WrappersAreNoOptions

\* There is no other program.
LEMMA TheProgramRuns ==
    ASSUME NEW words, Len(words) \in Nat, DOMAIN words = 1..Len(words),
           ~ OptionBeforeProgram(words), NEW p \in 1..Len(words)
    PROVE  IsProgram(words, p) <=> p = ProgramAt(words)
<1> DEFINE q == ProgramAt(words)
<1>1. /\ q \in 1..(Len(words) + 1) /\ \A k \in 1..(q - 1) : Wraps(words[k])
      /\ q <= Len(words) => ~ Wraps(words[q])
    BY TheProgramIsFound
<1> HIDE DEF q
<1>2. q <= Len(words) => ~ Precedes(words, q)
    <2>1. ASSUME q <= Len(words) PROVE ~ Precedes(words, q)
        <3>1. ~ Is(words[q], WrapperOptions)
            BY <1>1, <2>1 DEF OptionBeforeProgram
        <3>2. q > 1 => ~ Is(words[q - 1], {"-u", "-n"})
            <4>1. q > 1 => q - 1 \in 1..(q - 1)
                BY <1>1
            <4> QED
                BY <1>1, <4>1, TakesAWord
        <3> QED
            BY <1>1, <2>1, <3>1, <3>2 DEF Precedes
    <2> QED
        BY <2>1
<1>3. \A k \in 1..(q - 1) : Precedes(words, k)
    BY <1>1 DEF Precedes
<1>4. ASSUME IsProgram(words, p) PROVE p = q
    <2>1. ~ Precedes(words, p) /\ \A j \in 1..(p - 1) : Precedes(words, j)
        BY <1>4 DEF IsProgram
    <2>2. ~ (p < q)
        <3>1. p < q => p \in 1..(q - 1)
            BY <1>1
        <3> QED
            BY <1>3, <2>1, <3>1
    <2>3. ~ (q < p)
        <3>1. q < p => q \in 1..(p - 1) /\ q <= Len(words)
            BY <1>1
        <3> QED
            BY <1>2, <2>1, <3>1
    <2> QED
        BY <1>1, <2>2, <2>3
<1>5. ASSUME p = q PROVE IsProgram(words, p)
    BY <1>2, <1>3, <1>5 DEF IsProgram
<1> QED
    BY <1>4, <1>5 DEF q

\* f says where the passes of the loop have come.
Passes(f, words, i) ==
    /\ f \in [0..Len(words) -> Nat]
    /\ f[0] = i
    /\ \A n \in 1..Len(words) : f[n] = PassOption(words, f[n - 1])
    /\ f[Len(words)] = AfterOptions(words, i)

LEMMA PassesAreNumbers ==
    ASSUME NEW words, Len(words) \in Nat, NEW i \in Nat
    PROVE  /\ PassOption(words, i) \in Nat
           /\ PassOption(words, i) # i => PassOption(words, i) > i
           /\ PassOption(words, i) = i <=> i > Len(words) \/ ~ Is(words[i], Options)
BY DEF PassOption, OptionEnds

LEMMA OptionsArePassed ==
    ASSUME NEW words, Len(words) \in Nat, NEW i \in Nat
    PROVE  \E f : Passes(f, words, i)
<1> DEFINE top == Len(words)
           R == Nat
           Step(n, t) == PassOption(words, t)
           next == [p \in (1..top) \X R |-> Step(p[1], p[2])]
           Right(f) == f = [n \in 0..top |-> IF n = 0 THEN i ELSE Step(n, f[n - 1])]
           g == CHOOSE g : Right(g)
<1>1. top \in Nat
    OBVIOUS
<1>2. i \in R
    OBVIOUS
<1>3. \A n \in 1..top : \A t \in R : Step(n, t) \in R
    BY PassesAreNumbers
<1>4. AfterOptions(words, i) = g[top]
    BY DEF AfterOptions
<1> HIDE DEF top, R, Step
<1>5. next \in [(1..top) \X R -> R]
    BY <1>3
<1>6. PICK f \in [0..top -> R] : Recurs(f, top, i, next)
    <2> HIDE DEF next
    <2> QED
        BY <1>1, <1>2, <1>5, RecursionIsThere
<1>7. Right(f)
    <2>1. f = [n \in 0..top |-> IF n = 0 THEN i ELSE next[<<n, f[n - 1]>>]]
        BY <1>6 DEF Recurs
    <2>2. ASSUME NEW n \in 0..top
          PROVE  (IF n = 0 THEN i ELSE next[<<n, f[n - 1]>>]) = (IF n = 0 THEN i ELSE Step(n, f[n - 1]))
        <3>1. n # 0 => n \in 1..top /\ n - 1 \in 0..top
            BY <1>1
        <3>2. n # 0 => f[n - 1] \in R
            BY <1>6, <3>1
        <3> QED
            BY <3>1, <3>2
    <2> HIDE DEF next
    <2> QED
        BY <2>1, <2>2
<1>8. Right(g)
    BY <1>7
<1> HIDE DEF g
<1>9. g[0] = i /\ \A n \in 1..top : g[n] = Step(n, g[n - 1])
    <2>1. \A n \in 0..top : g[n] = IF n = 0 THEN i ELSE Step(n, g[n - 1])
        BY <1>8
    <2> QED
        BY <1>1, <2>1
<1>10. g \in [0..top -> R]
    <2> DEFINE T == {n \in 0..top : g[n] \in R}
    <2>1. 0 \in T
        BY <1>1, <1>2, <1>9
    <2>2. \A n \in 1..top : n - 1 \in T => n \in T
        BY <1>1, <1>3, <1>9
    <2> HIDE DEF T
    <2>3. \A n \in 0..top : n \in T
        BY <1>1, <2>1, <2>2, Upwards
    <2>4. \A n \in 0..top : g[n] \in R
        BY <2>3 DEF T
    <2>5. g = [n \in 0..top |-> g[n]]
        BY <1>8
    <2> QED
        BY <2>4, <2>5
<1> QED
    BY <1>4, <1>9, <1>10 DEF Passes, top, R, Step

\* As many passes as there are words lead behind the options.
LEMMA OptionsEnd ==
    ASSUME NEW words, Len(words) \in Nat, NEW i \in Nat, i >= 1
    PROVE  LET last == AfterOptions(words, i)
           IN  last \in Nat /\ (last > Len(words) \/ ~ Is(words[last], Options))
<1> DEFINE top == Len(words)
<1>1. PICK f : Passes(f, words, i)
    BY OptionsArePassed
<1>2. /\ f \in [0..top -> Nat] /\ f[0] = i /\ f[top] = AfterOptions(words, i)
      /\ \A n \in 1..top : f[n] = PassOption(words, f[n - 1])
    BY <1>1 DEF Passes
<1>3. \A n \in 0..top : f[n] \in Nat
    BY <1>2
<1> DEFINE T == {n \in 0..top : f[n] >= i + n \/ PassOption(words, f[n]) = f[n]}
<1>4. 0 \in T
    BY <1>2
<1>5. ASSUME NEW n \in 1..top, n - 1 \in T PROVE n \in T
    <2>1. n \in 0..top /\ n - 1 \in 0..top
        OBVIOUS
    <2>2. f[n - 1] \in Nat /\ f[n] \in Nat /\ f[n] = PassOption(words, f[n - 1])
        BY <1>2, <1>3, <2>1
    <2>3. CASE PassOption(words, f[n - 1]) = f[n - 1]
        BY <2>1, <2>2, <2>3
    <2>4. CASE PassOption(words, f[n - 1]) # f[n - 1]
        <3>1. f[n - 1] >= i + (n - 1)
            BY <1>5, <2>4
        <3>2. f[n] > f[n - 1]
            BY <2>2, <2>4, PassesAreNumbers
        <3> QED
            BY <2>1, <2>2, <3>1, <3>2
    <2> QED
        BY <2>3, <2>4
<1> HIDE DEF T
<1>6. \A n \in 0..top : n \in T
    BY <1>4, <1>5, Upwards
<1>7. top \in T /\ f[top] \in Nat
    BY <1>3, <1>6
<1>8. f[top] > top \/ PassOption(words, f[top]) = f[top]
    BY <1>7 DEF T
<1> QED
    BY <1>2, <1>7, <1>8, PassesAreNumbers

\* Every pass comes to a word that may be the subcommand.
LEMMA OnePassOn ==
    ASSUME NEW words, Len(words) \in Nat, NEW p \in Nat, NEW m \in Nat, m > p,
           IsSubcommand(words, p, m), PassOption(words, m) # m
    PROVE  IsSubcommand(words, p, PassOption(words, m))
<1> DEFINE k == PassOption(words, m)
           valued == Is(words[m], GIT_OPTIONS_WITH_VALUE)
<1>1. /\ m <= Len(words) /\ Is(words[m], Options)
      /\ k = IF valued THEN m + 2 ELSE m + 1
    BY DEF PassOption, OptionEnds
<1>2. PICK options \in SUBSET ((p + 1)..(m - 1)) :
        /\ \A j \in options : Is(words[j], Options)
        /\ \A j \in (p + 1)..m : IsValue(words, options, j) <=> j \notin options \union {m}
    BY DEF IsSubcommand
<1> DEFINE more == options \union {m}
<1>3. more \in SUBSET ((p + 1)..(k - 1)) /\ \A j \in more : Is(words[j], Options)
    <2>1. m \in (p + 1)..(k - 1) /\ \A j \in (p + 1)..(m - 1) : j \in (p + 1)..(k - 1)
        BY <1>1
    <2> QED
        BY <1>1, <1>2, <2>1
<1>4. ASSUME NEW j \in (p + 1)..k
      PROVE  IsValue(words, more, j) <=> j \notin more \union {k}
    <2>1. j \in Int /\ k > m /\ \A x \in options : x < m
        BY <1>1, <1>2
    <2>2. CASE j <= m
        <3>1. j - 1 \in more <=> j - 1 \in options
            BY <2>1, <2>2
        <3>2. j \in (p + 1)..m /\ j # k
            BY <1>1, <2>1, <2>2
        <3>3. IsValue(words, options, j) <=> j \notin options \union {m}
            BY <1>2, <3>2
        <3> QED
            BY <3>1, <3>2, <3>3 DEF IsValue
    <2>3. CASE j > m
        <3>1. j \notin more /\ j - 1 \notin options
            BY <2>1, <2>3
        <3>2. CASE j = m + 1
            <4>1. IsValue(words, more, j) <=> valued
                BY <3>2 DEF IsValue
            <4>2. j = k <=> ~ valued
                BY <1>1, <3>2
            <4> QED
                BY <3>1, <4>1, <4>2
        <3>3. CASE j # m + 1
            <4>1. j = k /\ j - 1 # m
                BY <1>1, <2>1, <2>3, <3>3
            <4>2. ~ IsValue(words, more, j)
                BY <3>1, <4>1 DEF IsValue
            <4> QED
                BY <4>1, <4>2
        <3> QED
            BY <3>2, <3>3
    <2> QED
        BY <2>1, <2>2, <2>3
<1> QED
    BY <1>3, <1>4 DEF IsSubcommand

LEMMA WhatIsPassedIsNoSubcommand ==
    ASSUME NEW words, Len(words) \in Nat, NEW p \in Nat
    PROVE  LET last == AfterOptions(words, p + 1)
           IN  last > p /\ IsSubcommand(words, p, last)
<1> DEFINE top == Len(words)
<1>1. PICK f : Passes(f, words, p + 1)
    BY OptionsArePassed
<1>2. /\ f \in [0..top -> Nat] /\ f[0] = p + 1 /\ f[top] = AfterOptions(words, p + 1)
      /\ \A n \in 1..top : f[n] = PassOption(words, f[n - 1])
    BY <1>1 DEF Passes
<1>3. \A n \in 0..top : f[n] \in Nat
    BY <1>2
<1> DEFINE T == {n \in 0..top : f[n] > p /\ IsSubcommand(words, p, f[n])}
<1>4. 0 \in T
    <2>1. IsSubcommand(words, p, p + 1)
        <3>1. {} \in SUBSET ((p + 1)..((p + 1) - 1)) /\ \A j \in {} : Is(words[j], Options)
            OBVIOUS
        <3>2. \A j \in (p + 1)..(p + 1) : IsValue(words, {}, j) <=> j \notin {} \union {p + 1}
            BY DEF IsValue
        <3> QED
            BY <3>1, <3>2 DEF IsSubcommand
    <2> QED
        BY <1>2, <2>1
<1>5. ASSUME NEW n \in 1..top, n - 1 \in T PROVE n \in T
    <2>1. n \in 0..top /\ n - 1 \in 0..top
        OBVIOUS
    <2>2. f[n - 1] \in Nat /\ f[n] \in Nat /\ f[n] = PassOption(words, f[n - 1])
        BY <1>2, <1>3, <2>1
    <2>3. f[n - 1] > p /\ IsSubcommand(words, p, f[n - 1])
        BY <1>5
    <2>4. CASE PassOption(words, f[n - 1]) = f[n - 1]
        BY <2>1, <2>2, <2>3, <2>4
    <2>5. CASE PassOption(words, f[n - 1]) # f[n - 1]
        <3>1. IsSubcommand(words, p, f[n])
            BY <2>2, <2>3, <2>5, OnePassOn
        <3>2. f[n] > f[n - 1]
            BY <2>2, <2>5, PassesAreNumbers
        <3>3. f[n] > p
            BY <2>2, <2>3, <3>2
        <3> QED
            BY <2>1, <3>1, <3>3
    <2> QED
        BY <2>4, <2>5
<1> HIDE DEF T
<1>6. \A n \in 0..top : n \in T
    BY <1>4, <1>5, Upwards
<1>7. top \in T
    BY <1>6
<1> QED
    BY <1>2, <1>7 DEF T

\* There is no other subcommand, if that is no option.
LEMMA TheSubcommandIsFound ==
    ASSUME NEW words, Len(words) \in Nat, NEW p \in Nat, NEW i \in 1..Len(words), p < i,
           IsSubcommand(words, p, i), ~ Is(words[i], Options)
    PROVE  i = AfterOptions(words, p + 1)
<1> DEFINE top == Len(words)
           last == AfterOptions(words, p + 1)
<1>1. PICK f : Passes(f, words, p + 1)
    BY OptionsArePassed
<1>2. /\ f \in [0..top -> Nat] /\ f[0] = p + 1 /\ f[top] = last
      /\ \A n \in 1..top : f[n] = PassOption(words, f[n - 1])
    BY <1>1 DEF Passes
<1>3. \A n \in 0..top : f[n] \in Nat
    BY <1>2
<1>4. PICK options \in SUBSET ((p + 1)..(i - 1)) :
        /\ \A j \in options : Is(words[j], Options)
        /\ \A j \in (p + 1)..i : IsValue(words, options, j) <=> j \notin options \union {i}
    BY DEF IsSubcommand
<1> DEFINE starts == options \union {i}
           T == {n \in 0..top : f[n] \in starts}
<1>5. 0 \in T
    <2>1. p + 1 \in (p + 1)..i /\ (p + 1) - 1 \notin options
        BY <1>4
    <2>2. p + 1 \in starts
        BY <1>4, <2>1 DEF IsValue
    <2> QED
        BY <1>2, <2>2
<1>6. ASSUME NEW n \in 1..top, n - 1 \in T PROVE n \in T
    <2> DEFINE m == f[n - 1]
               k == PassOption(words, m)
               valued == Is(words[m], GIT_OPTIONS_WITH_VALUE)
    <2>1. n \in 0..top /\ n - 1 \in 0..top
        OBVIOUS
    <2>2. m \in Nat /\ f[n] = k /\ m \in starts
        BY <1>2, <1>3, <1>6, <2>1
    <2> HIDE DEF m
    <2>3. CASE k = m
        BY <2>1, <2>2, <2>3
    <2>4. CASE k # m
        <3>1. m <= Len(words) /\ Is(words[m], Options) /\ k = IF valued THEN m + 2 ELSE m + 1
            BY <2>2, <2>4 DEF PassOption, OptionEnds
        <3>2. m # i
            BY <3>1
        <3>3. m \in options /\ m \in (p + 1)..(i - 1)
            BY <1>4, <2>2, <3>2
        <3>4. m + 1 \in (p + 1)..i /\ (m + 1) - 1 = m
            BY <3>3
        <3>5. m + 1 \notin starts <=> valued
            BY <1>4, <3>3, <3>4 DEF IsValue
        <3>6. CASE ~ valued
            BY <2>1, <2>2, <3>1, <3>5, <3>6
        <3>7. CASE valued
            <4>1. m + 1 # i /\ m + 1 \notin options
                BY <3>5, <3>7
            <4>2. m + 2 \in (p + 1)..i /\ (m + 2) - 1 = m + 1
                BY <3>3, <4>1
            <4>3. m + 2 \in starts
                BY <1>4, <4>1, <4>2 DEF IsValue
            <4> QED
                BY <2>1, <2>2, <3>1, <3>7, <4>3
        <3> QED
            BY <3>6, <3>7
    <2> QED
        BY <2>3, <2>4
<1> HIDE DEF T
<1>7. \A n \in 0..top : n \in T
    BY <1>5, <1>6, Upwards
<1>8. last \in starts
    <2>1. top \in T
        BY <1>7
    <2> QED
        BY <1>2, <2>1 DEF T
<1>9. last > top \/ ~ Is(words[last], Options)
    BY OptionsEnd
<1>10. last \notin options
    <2>1. ASSUME last \in options PROVE FALSE
        <3>1. last \in (p + 1)..(i - 1) /\ Is(words[last], Options)
            BY <1>4, <2>1
        <3>2. last <= top
            BY <3>1
        <3> QED
            BY <1>9, <3>1, <3>2
    <2> QED
        BY <2>1
<1> QED
    BY <1>8, <1>10

\* What gitSubcommandOf finds is what git runs, unless a wrapper has options.
LEMMA GitRunsWhatIsFound ==
    ASSUME NEW S, NEW words \in Seq(S), NEW names, names \intersect Options = {}
    PROVE  Is(gitSubcommandOf(words), names)
             <=> RunsGit(words, names) /\ ~ OptionBeforeProgram(words)
<1> DEFINE top == Len(words)
           program == ProgramAt(words)
           sub == AfterOptions(words, program + 1)
           git == Named(words[program], {"git"})
<1>1. DOMAIN words = 1..top /\ top \in Nat
    OBVIOUS
<1>2. program \in 1..(top + 1) /\ program \in Nat
    BY <1>1, TheProgramIsFound
<1>3. sub \in Nat /\ sub > program /\ IsSubcommand(words, program, sub)
    <2>1. program + 1 \in Nat /\ program + 1 >= 1
        BY <1>2
    <2>2. sub \in Nat
        BY <1>1, <2>1, OptionsEnd
    <2>3. sub > program /\ IsSubcommand(words, program, sub)
        BY <1>1, <1>2, WhatIsPassedIsNoSubcommand
    <2> QED
        BY <2>2, <2>3
<1>4. gitSubcommandOf(words) = IF program > top \/ ~ git \/ sub > top THEN NoSubcommand ELSE words[sub]
    BY DEF gitSubcommandOf
<1>5. ~ Is(NoSubcommand, names)
    BY DEF Is, NoSubcommand
<1> HIDE DEF program, sub, git
<1>6. ASSUME Is(gitSubcommandOf(words), names)
      PROVE  RunsGit(words, names) /\ ~ OptionBeforeProgram(words)
    <2>1. program <= top /\ git /\ sub <= top /\ Is(words[sub], names)
        BY <1>2, <1>3, <1>4, <1>5, <1>6
    <2>2. program \in 1..top /\ sub \in 1..top
        BY <1>2, <1>3, <2>1
    <2>3. ASSUME OptionBeforeProgram(words) PROVE FALSE
        <3>1. PICK j \in 1..top : Is(words[j], WrapperOptions) /\ \A k \in 1..(j - 1) : Wraps(words[k])
            BY <1>1, <2>3 DEF OptionBeforeProgram
        <3>2. ~ Wraps(words[j])
            BY <3>1, WrappersAreNoOptions
        <3>3. /\ \A k \in 1..(program - 1) : Wraps(words[k])
              /\ program <= top => ~ Wraps(words[program])
            BY <1>1, TheProgramIsFound DEF program
        <3>4. ~ (j < program)
            <4>1. j < program => j \in 1..(program - 1)
                BY <1>2, <3>1
            <4> QED
                BY <3>2, <3>3, <4>1
        <3>5. ~ (program < j)
            <4>1. program < j => program \in 1..(j - 1)
                BY <2>2, <3>1
            <4> QED
                BY <2>1, <3>1, <3>3, <4>1
        <3>6. j = program
            BY <2>2, <3>1, <3>4, <3>5
        <3>7. {"git"} \intersect (WrapperOptions \union SortOutput) = {}
            BY DEF WrapperOptions, SortOutput
        <3> QED
            BY <2>1, <3>1, <3>6, <3>7, WrappersAreNoOptions DEF git
    <2>4. IsProgram(words, program)
        BY <1>1, <2>2, <2>3, TheProgramRuns DEF program
    <2>5. GitRuns(words, sub)
        BY <1>1, <1>3, <2>1, <2>2, <2>4 DEF GitRuns, git
    <2> QED
        BY <1>1, <2>1, <2>2, <2>3, <2>5 DEF RunsGit
<1>7. ASSUME RunsGit(words, names), ~ OptionBeforeProgram(words)
      PROVE  Is(gitSubcommandOf(words), names)
    <2>1. PICK i \in 1..top : GitRuns(words, i) /\ Is(words[i], names)
        BY <1>1, <1>7 DEF RunsGit
    <2>2. PICK p \in 1..top :
            IsProgram(words, p) /\ Named(words[p], {"git"}) /\ p < i /\ IsSubcommand(words, p, i)
        BY <1>1, <2>1 DEF GitRuns
    <2>3. p = program
        BY <1>1, <1>7, <2>2, TheProgramRuns DEF program
    <2>4. ~ Is(words[i], Options)
        BY <2>1 DEF Is
    <2>5. i = sub
        BY <1>1, <1>2, <2>2, <2>3, <2>4, TheSubcommandIsFound DEF sub
    <2>6. ~ (program > top \/ ~ git \/ sub > top)
        BY <1>1, <1>2, <1>3, <2>2, <2>3, <2>5 DEF git
    <2> QED
        BY <1>4, <2>1, <2>5, <2>6
<1> QED
    BY <1>6, <1>7

\* A command that counts as reading changes nothing by itself; what it is
\* redirected to is seen in the line.
LEMMA ReadingChangesNothing ==
    ASSUME NEW S, NEW words \in Seq(S), words # <<>>, ReadsOnly(words)
    PROVE  ChangesByItself(words) => \E w \in Range(words) : Is(w, {">"})
<1> DEFINE top == Len(words)
           first == words[1]
           git == Named(first, {"git"})
<1>1. top \in Nat /\ 1 \in 1..top /\ DOMAIN words = 1..top
    OBVIOUS
<1>2. /\ ~ Wraps(first)
      /\ git => Is(gitSubcommandOf(words), READ_ONLY_GIT_SUBCOMMANDS)
      /\ ~ git => /\ Named(first, {"sort"}) => \A i \in 2..top : ~ Is(words[i], SortOutput)
                  /\ Named(first, READ_ONLY_COMMANDS)
    BY DEF ReadsOnly
<1>3. Named(first, {"git"} \union READ_ONLY_COMMANDS)
    BY <1>2 DEF Named
<1>4. ~ Is(first, WrapperOptions) /\ ~ Is(first, SortOutput)
    <2>1. ({"git"} \union READ_ONLY_COMMANDS) \intersect (WrapperOptions \union SortOutput) = {}
        BY DEF WrapperOptions, SortOutput, READ_ONLY_COMMANDS
    <2> QED
        BY <1>3, <2>1, WrappersAreNoOptions
<1> HIDE DEF first
<1>5. ~ Precedes(words, 1)
    BY <1>2, <1>4 DEF Precedes, first
<1>6. \A p \in 1..top : IsProgram(words, p) => p = 1
    <2>1. ASSUME NEW p \in 1..top, IsProgram(words, p), p # 1 PROVE FALSE
        <3>1. 1 \in 1..(p - 1)
            BY <2>1
        <3> QED
            BY <1>5, <2>1, <3>1 DEF IsProgram
    <2> QED
        BY <2>1
<1>7. ~ OptionBeforeProgram(words)
    <2>1. ASSUME NEW j \in 1..top, Is(words[j], WrapperOptions), \A k \in 1..(j - 1) : Wraps(words[k])
          PROVE  FALSE
        <3>1. j # 1
            BY <1>4, <2>1 DEF first
        <3>2. 1 \in 1..(j - 1)
            BY <2>1, <3>1
        <3> QED
            BY <1>2, <2>1, <3>2 DEF first
    <2> QED
        BY <1>1, <2>1 DEF OptionBeforeProgram
<1>8. ASSUME NEW n, Runs(words, n) PROVE Named(first, {n})
    <2>1. PICK p \in 1..top : IsProgram(words, p) /\ Named(words[p], {n})
        BY <1>1, <1>8 DEF Runs
    <2> QED
        BY <1>6, <2>1 DEF first
<1>9. ASSUME NEW n, NEW names, Named(first, {n}), Named(first, names) PROVE n \in names
    BY <1>9 DEF Named
<1>10. ~ RunsGit(words, GitWriters)
    <2>1. ASSUME RunsGit(words, GitWriters) PROVE FALSE
        <3>1. PICK i \in 1..top : GitRuns(words, i)
            BY <1>1, <2>1 DEF RunsGit
        <3>2. PICK p \in 1..top : IsProgram(words, p) /\ Named(words[p], {"git"})
            BY <1>1, <3>1 DEF GitRuns
        <3>3. git
            BY <1>6, <3>2 DEF first
        <3>4. Is(gitSubcommandOf(words), READ_ONLY_GIT_SUBCOMMANDS)
            BY <1>2, <3>3
        <3>5. GitWriters \intersect Options = {}
            BY DEF GitWriters, Options, GIT_OPTIONS_WITH_VALUE, SortOutput, WrapperOptions
        <3>6. Is(gitSubcommandOf(words), GitWriters)
            BY <1>7, <2>1, <3>5, GitRunsWhatIsFound
        <3>7. READ_ONLY_GIT_SUBCOMMANDS \intersect GitWriters = {}
            BY DEF READ_ONLY_GIT_SUBCOMMANDS, GitWriters
        <3> QED
            BY <3>4, <3>6, <3>7 DEF Is
    <2> QED
        BY <2>1
<1>11. \A name \in Writers : ~ Runs(words, name)
    <2>1. ASSUME NEW name \in Writers, Runs(words, name) PROVE FALSE
        <3>1. name \notin {"git"} \union READ_ONLY_COMMANDS
            BY <2>1 DEF Writers, READ_ONLY_COMMANDS
        <3>2. Named(first, {name})
            BY <1>8, <2>1
        <3> QED
            BY <1>3, <1>9, <3>1, <3>2
    <2> QED
        BY <2>1
<1>12. ~ (Runs(words, "sort") /\ \E w \in Range(words) : Is(w, SortOutput))
    <2>1. ASSUME Runs(words, "sort"), NEW w \in Range(words), Is(w, SortOutput) PROVE FALSE
        <3>1. Named(first, {"sort"})
            BY <1>8, <2>1
        <3>2. ~ git
            BY <1>9, <3>1
        <3>3. PICK k \in 1..top : words[k] = w
            BY <1>1 DEF Range
        <3>4. k # 1
            BY <1>4, <2>1, <3>3 DEF first
        <3>5. k \in 2..top
            BY <3>3, <3>4
        <3> QED
            BY <1>2, <2>1, <3>1, <3>2, <3>3, <3>5
    <2> QED
        BY <2>1
<1> QED
    BY <1>10, <1>11, <1>12 DEF ChangesByItself

\* What the shell says of a line is what is written.
LEMMA LinesAreReadAsTheyRun ==
    ASSUME NEW l, AreCommands(l.commands), l.separator \in Separators
    PROVE  LET symbols == Write(l)
           IN  /\ (\E words \in Range(l.commands) :
                      RunsGit(words, FORBIDDEN_GIT_SUBCOMMANDS) /\ ~ OptionBeforeProgram(words))
                    <=> hasForbiddenGitSubcommand(symbols)
               /\ (\E words \in Range(l.commands) : ChangesByItself(words))
                    => ~ isReadOnlyBashCommand(symbols)
<1> DEFINE symbols == Write(l)
<1>1. /\ shellSegments(symbols) = l.commands
      /\ \A words \in Range(l.commands) : \A word \in Range(words) : Range(word) \subseteq Range(symbols)
    BY LinesAreReadBack
<1>2. \A words \in Range(l.commands) : words \in Seq(Range(words)) /\ words # <<>>
    BY DEF AreCommands
<1> HIDE DEF symbols
<1>3. \A words \in Range(l.commands) :
        Is(gitSubcommandOf(words), FORBIDDEN_GIT_SUBCOMMANDS)
          <=> RunsGit(words, FORBIDDEN_GIT_SUBCOMMANDS) /\ ~ OptionBeforeProgram(words)
    <2>1. FORBIDDEN_GIT_SUBCOMMANDS \intersect Options = {}
        BY DEF FORBIDDEN_GIT_SUBCOMMANDS, Options, GIT_OPTIONS_WITH_VALUE, SortOutput, WrapperOptions
    <2> QED
        BY <1>2, <2>1, GitRunsWhatIsFound
<1>4. (\E words \in Range(l.commands) :
          RunsGit(words, FORBIDDEN_GIT_SUBCOMMANDS) /\ ~ OptionBeforeProgram(words))
        <=> hasForbiddenGitSubcommand(symbols)
    BY <1>1, <1>3 DEF hasForbiddenGitSubcommand
<1>5. ASSUME NEW words \in Range(l.commands), ChangesByItself(words), isReadOnlyBashCommand(symbols)
      PROVE  FALSE
    <2>1. ~ WritesOrHides(symbols) /\ ReadsOnly(words)
        BY <1>1, <1>5 DEF isReadOnlyBashCommand
    <2>2. ~ \E w \in Range(words) : Is(w, {">"})
        <3>1. ASSUME NEW w \in Range(words), Is(w, {">"}) PROVE FALSE
            <4>1. w = <<">">>
                BY <3>1 DEF Is
            <4>2. ">" \in Range(w)
                BY <4>1 DEF Range
            <4>3. ">" \in Range(symbols)
                BY <1>1, <4>2
            <4> QED
                BY <2>1, <4>3 DEF WritesOrHides
        <3> QED
            BY <3>1
    <2> QED
        BY <1>2, <1>5, <2>1, <2>2, ReadingChangesNothing
<1> QED
    BY <1>4, <1>5 DEF symbols

\* What the shell said is right.
ReadsAsItRuns(l) ==
    /\ shellSegments(Write(l)) = l.commands
    /\ (\E words \in Range(l.commands) :
           RunsGit(words, FORBIDDEN_GIT_SUBCOMMANDS) /\ ~ OptionBeforeProgram(words))
         <=> hasForbiddenGitSubcommand(Write(l))
    /\ (\E words \in Range(l.commands) : ChangesByItself(words)) => ~ isReadOnlyBashCommand(Write(l))

LEMMA EveryLineReadsAsItRuns == \A l \in Lines : ReadsAsItRuns(l)
BY LinesAssumption, LinesAreReadBack, LinesAreReadAsTheyRun DEF ReadsAsItRuns

LEMMA ClassifyingIsRight ==
    ASSUME LinesAreReadAsWritten, ShellNext \/ UNCHANGED shellVars
    PROVE  LinesAreReadAsWritten'
<1>1. CASE Classify
    <2>1. line' \in Lines /\ answers' = [segments |-> shellSegments(Write(line')),
                                        forbidden |-> hasForbiddenGitSubcommand(Write(line')),
                                        readOnly |-> isReadOnlyBashCommand(Write(line'))]
        BY <1>1 DEF Classify
    <2>2. ReadsAsItRuns(line')
        BY <2>1, EveryLineReadsAsItRuns
    <2>3. /\ answers'.segments = shellSegments(Write(line'))
          /\ answers'.forbidden = hasForbiddenGitSubcommand(Write(line'))
          /\ answers'.readOnly = isReadOnlyBashCommand(Write(line'))
        BY <2>1
    <2> QED
        BY <2>2, <2>3 DEF LinesAreReadAsWritten, SegmentsAreCommands, ChangingIsSeen, ReadsAsItRuns
<1>2. CASE UNCHANGED shellVars
    BY <1>2 DEF LinesAreReadAsWritten, SegmentsAreCommands, ChangingIsSeen, shellVars
<1> QED
    BY <1>1, <1>2 DEF ShellNext

\* However commands are quoted and separated, with a comment or without, a line is
\* split into them; one that commits or pushes is known whatever wrappers, and options of
\* git, stand before the subcommand, but not behind an option of a wrapper; and one that
\* changes something whatever its arguments are is never taken for one that reads
\* (shellSegments, gitSubcommandOf, isReadOnlyBashCommand).  That what reads by its name
\* changes something for an argument is not excluded: see ReadsChangeNothing.
THEOREM LinesAreAlwaysReadAsWritten == ShellSpec => []LinesAreReadAsWritten
<1>1. ShellInit => LinesAreReadAsWritten
    BY DEF ShellInit, LinesAreReadAsWritten, SegmentsAreCommands, ChangingIsSeen
<1>2. LinesAreReadAsWritten /\ [ShellNext]_shellVars => LinesAreReadAsWritten'
    BY ClassifyingIsRight
<1> QED
    BY <1>1, <1>2, PTL DEF ShellSpec

-----------------------------------------------------------------------------
(* Masks.                                                                  *)

\* What GlobMatches asks from the end of a mask to its beginning.
Places(path, mask, from) ==
    /\ from \in [0..Len(mask) -> SUBSET (1..(Len(path) + 1))]
    /\ from[0] = {Len(path) + 1}
    /\ \A n \in 1..Len(mask) :
         from[n] = MatchedFrom(path, mask[Len(mask) - n + 1], n = 1, from[n - 1])
    /\ 1 \in from[Len(mask)]

LEMMA MatchesArePlaces ==
    ASSUME NEW P, NEW path \in Seq(P), NEW M, NEW mask \in Seq(M), GlobMatches(path, mask)
    PROVE  \E from : Places(path, mask, from)
<1> DEFINE top == Len(mask)
           end == Len(path) + 1
           S == SUBSET (1..end)
           Next_(n, later) == MatchedFrom(path, mask[top - n + 1], n = 1, later)
           next == [p \in (1..top) \X S |-> Next_(p[1], p[2])]
           Right(f) == f = [n \in 0..top |-> IF n = 0 THEN {end} ELSE Next_(n, f[n - 1])]
<1>1. top \in Nat /\ end \in Nat /\ {end} \in S
    OBVIOUS
<1> HIDE DEF top
<1>2. \A n, later : Next_(n, later) \in S
    BY DEF MatchedFrom
<1> HIDE DEF Next_, end
<1>3. next \in [(1..top) \X S -> S]
    BY <1>2
<1>4. PICK f \in [0..top -> S] : Recurs(f, top, {end}, next)
    <2> HIDE DEF S, next
    <2> QED
        BY <1>1, <1>3, RecursionIsThere
<1>5. Right(f)
    <2>1. f = [n \in 0..top |-> IF n = 0 THEN {end} ELSE next[<<n, f[n - 1]>>]]
        BY <1>4 DEF Recurs
    <2>2. ASSUME NEW n \in 0..top
          PROVE  (IF n = 0 THEN {end} ELSE next[<<n, f[n - 1]>>])
                   = (IF n = 0 THEN {end} ELSE Next_(n, f[n - 1]))
        <3>1. CASE n # 0
            <4>1. n \in 1..top /\ n - 1 \in 0..top
                BY <1>1, <3>1
            <4>2. f[n - 1] \in S
                BY <1>4, <4>1
            <4> HIDE DEF S
            <4>3. next[<<n, f[n - 1]>>] = Next_(n, f[n - 1])
                BY <4>1, <4>2
            <4> QED
                BY <4>3
        <3> QED
            BY <3>1
    <2> HIDE DEF next
    <2> QED
        BY <2>1, <2>2
<1> DEFINE g == CHOOSE g : Right(g)
<1>6. Right(g)
    BY <1>5
<1>7. 1 \in g[top]
    BY DEF GlobMatches, top, end, Next_
<1> HIDE DEF g
<1>8. \A n \in 0..top : g[n] = IF n = 0 THEN {end} ELSE Next_(n, g[n - 1])
    BY <1>6
<1>9. g[0] = {end} /\ \A n \in 1..top : g[n] = Next_(n, g[n - 1])
    BY <1>1, <1>8
<1>10. g \in [0..top -> S]
    <2>1. g = [n \in 0..top |-> g[n]]
        BY <1>6
    <2>2. ASSUME NEW n \in 0..top PROVE g[n] \in S
        <3>1. CASE n = 0
            BY <1>1, <1>9, <3>1
        <3>2. CASE n # 0
            BY <1>1, <1>2, <1>9, <3>2
        <3> QED
            BY <3>1, <3>2
    <2> HIDE DEF S
    <2> QED
        BY <2>1, <2>2
<1> QED
    BY <1>7, <1>9, <1>10 DEF Places, top, end, Next_

\* Something of a mask that is left matches nothing where the path is at its end.
LEMMA NothingMatchesTheEnd ==
    ASSUME NEW P, NEW path \in Seq(P), NEW M, NEW mask \in Seq(M), NEW from,
           Places(path, mask, from)
    PROVE  \A n \in 1..Len(mask) : Len(path) + 1 \notin from[n]
<1> DEFINE bad == {n \in 1..Len(mask) : Len(path) + 1 \in from[n]}
<1>1. SUFFICES ASSUME bad # {} PROVE FALSE
    OBVIOUS
<1>2. PICK n \in bad : \A k \in bad : n <= k
    <2>1. bad \in SUBSET Nat
        OBVIOUS
    <2> HIDE DEF bad
    <2> QED
        BY <1>1, <2>1, LeastNumber
<1> DEFINE segment == mask[Len(mask) - n + 1]
<1>3. Len(path) \in Nat /\ Len(path) + 1 \in MatchedFrom(path, segment, n = 1, from[n - 1])
    BY <1>2 DEF Places
<1>4. PICK k \in from[n - 1] : n # 1 /\ Len(path) + 1 <= k
    BY <1>3 DEF MatchedFrom
<1>5. n - 1 \in 1..Len(mask) /\ n - 1 \notin bad
    BY <1>2, <1>4
<1>6. k \in 1..(Len(path) + 1)
    <2>1. n - 1 \in 0..Len(mask) /\ from \in [0..Len(mask) -> SUBSET (1..(Len(path) + 1))]
        BY <1>5 DEF Places
    <2>2. from[n - 1] \subseteq 1..(Len(path) + 1)
        BY <2>1
    <2> QED
        BY <1>4, <2>2
<1> QED
    BY <1>3, <1>4, <1>5, <1>6

\* Up to its first wildcard a mask is the path.
LEMMA LiteralsAreThePath ==
    ASSUME NEW P, NEW path \in Seq(P), NEW M, NEW mask \in Seq(M), NEW from,
           Places(path, mask, from), NEW literal \in 0..Len(mask),
           \A i \in 1..literal : ~ Wild(mask[i])
    PROVE  /\ literal + 1 \in from[Len(mask) - literal]
           /\ \A i \in 1..literal : i <= Len(path) /\ path[i] = mask[i]
<1> DEFINE Right(j) == /\ j + 1 \in from[Len(mask) - j]
                       /\ j # 0 => j <= Len(path) /\ path[j] = mask[j]
           bad == {j \in 0..literal : ~ Right(j)}
<1>1. SUFFICES ASSUME bad # {} PROVE FALSE
    <2>1. \A j \in 0..literal : Right(j)
        BY <1>1
    <2> QED
        BY <2>1
<1>2. PICK j \in bad : \A k \in bad : j <= k
    <2>1. bad \in SUBSET Nat
        OBVIOUS
    <2> HIDE DEF bad
    <2> QED
        BY <1>1, <2>1, LeastNumber
<1>3. j # 0
    BY <1>2 DEF Places
<1>4. j - 1 \in 0..literal /\ j - 1 \notin bad /\ j \in 1..literal
    <2>1. j \in 1..literal /\ j - 1 \in 0..literal /\ ~ j <= j - 1
        <3>1. j \in 0..literal
            BY <1>2
        <3> HIDE DEF bad
        <3> QED
            BY <1>3, <3>1
    <2> HIDE DEF bad
    <2> QED
        BY <1>2, <2>1
<1>5. j \in from[Len(mask) - (j - 1)]
    <2>1. Right(j - 1) /\ (j - 1) + 1 = j
        BY <1>4
    <2> HIDE DEF bad
    <2> QED
        BY <2>1
<1> DEFINE n == Len(mask) - (j - 1)
<1>6. n \in 1..Len(mask) /\ n - 1 = Len(mask) - j /\ Len(mask) - n + 1 = j
    BY <1>4
<1>7. j \in MatchedFrom(path, mask[j], n = 1, from[Len(mask) - j])
    <2>1. j \in from[n]
        BY <1>5
    <2> HIDE DEF n, bad
    <2>2. from[n] = MatchedFrom(path, mask[Len(mask) - n + 1], n = 1, from[n - 1])
        BY <1>6 DEF Places
    <2> QED
        BY <1>6, <2>1, <2>2
<1>8. mask[j] # "*" /\ mask[j] # "**"
    BY <1>4 DEF Wild
<1> HIDE DEF n
<1>9. j <= Len(path) /\ mask[j] = path[j] /\ j + 1 \in from[Len(mask) - j]
    BY <1>7, <1>8 DEF MatchedFrom
<1> QED
    BY <1>2, <1>9

\* Two masks that match the same file intersect: masksIntersect, which looks at the
\* first segment that is wild or differs and at the lengths alone, never takes
\* overlapping scopes for disjoint.
LEMMA MasksOfAFileIntersect ==
    ASSUME NEW P, NEW path \in Seq(P), NEW A, NEW a \in Seq(A), NEW B, NEW b \in Seq(B),
           GlobMatches(path, a), GlobMatches(path, b)
    PROVE  masksIntersect(a, b)
<1>1. PICK fromA : Places(path, a, fromA)
    BY MatchesArePlaces
<1>2. PICK fromB : Places(path, b, fromB)
    BY MatchesArePlaces
<1> DEFINE common == 1..(IF Len(a) < Len(b) THEN Len(a) ELSE Len(b))
           decides == {i \in common : Wild(a[i]) \/ Wild(b[i]) \/ a[i] # b[i]}
           first == CHOOSE i \in decides : \A j \in decides : i <= j
<1>3. Len(a) \in Nat /\ Len(b) \in Nat /\ Len(path) \in Nat
    OBVIOUS
<1>4. CASE decides = {}
    <2>1. \A i \in common : ~ Wild(a[i]) /\ ~ Wild(b[i])
        BY <1>4
    <2>2. CASE Len(a) < Len(b)
        <3>1. Len(a) + 1 \in fromA[0]
            BY <1>1, <1>3, <2>1, <2>2, LiteralsAreThePath
        <3>2. Len(a) + 1 \in fromB[Len(b) - Len(a)] /\ Len(b) - Len(a) \in 1..Len(b)
            BY <1>2, <1>3, <2>1, <2>2, LiteralsAreThePath
        <3>3. Len(a) + 1 = Len(path) + 1
            BY <1>1, <3>1 DEF Places
        <3>4. Len(path) + 1 \notin fromB[Len(b) - Len(a)]
            BY <1>2, <3>2, NothingMatchesTheEnd
        <3> QED
            BY <3>2, <3>3, <3>4
    <2>3. CASE Len(b) < Len(a)
        <3>1. Len(b) + 1 \in fromB[0]
            BY <1>2, <1>3, <2>1, <2>3, LiteralsAreThePath
        <3>2. Len(b) + 1 \in fromA[Len(a) - Len(b)] /\ Len(a) - Len(b) \in 1..Len(a)
            BY <1>1, <1>3, <2>1, <2>3, LiteralsAreThePath
        <3>3. Len(b) + 1 = Len(path) + 1
            BY <1>2, <3>1 DEF Places
        <3>4. Len(path) + 1 \notin fromA[Len(a) - Len(b)]
            BY <1>1, <3>2, NothingMatchesTheEnd
        <3> QED
            BY <3>2, <3>3, <3>4
    <2>4. CASE Len(a) = Len(b)
        BY <1>4, <2>4 DEF masksIntersect
    <2>5. Len(a) < Len(b) \/ Len(b) < Len(a) \/ Len(a) = Len(b)
        BY <1>3
    <2> QED
        BY <2>2, <2>3, <2>4, <2>5
<1>5. CASE decides # {}
    <2>1. first \in decides /\ \A j \in decides : first <= j
        <3>1. decides \in SUBSET Nat
            BY <1>3
        <3> HIDE DEF decides
        <3> QED
            BY <1>5, <3>1, LeastNumber
    <2>2. masksIntersect(a, b) = (Wild(a[first]) \/ Wild(b[first]))
        BY <1>5 DEF masksIntersect
    <2> HIDE DEF first
    <2>3. SUFFICES ASSUME ~ Wild(a[first]), ~ Wild(b[first]) PROVE FALSE
        BY <2>2
    <2>4. \A i \in 1..first : ~ Wild(a[i]) /\ ~ Wild(b[i])
        <3>1. ASSUME NEW i \in 1..first, i # first PROVE i \in common /\ i \notin decides
            BY <1>3, <2>1, <3>1
        <3> QED
            BY <2>3, <3>1
    <2>5. first \in 0..Len(a) /\ first \in 0..Len(b) /\ first \in 1..first
        BY <1>3, <2>1
    <2>6. path[first] = a[first]
        BY <1>1, <2>4, <2>5, LiteralsAreThePath
    <2>7. path[first] = b[first]
        BY <1>2, <2>4, <2>5, LiteralsAreThePath
    <2> QED
        BY <2>1, <2>3, <2>6, <2>7
<1> QED
    BY <1>4, <1>5

\* Scopes that do not intersect have no file of the project in common.
LEMMA DisjointScopes ==
    ASSUME NEW x \in Scopes, NEW y \in Scopes, NEW f \in File,
           matchesScope(f, x.writes), matchesScope(f, y.writes)
    PROVE  scopesIntersect(x.writes, y.writes)
<1>1. PICK i \in DOMAIN x.writes : GlobMatches(f, x.writes[i])
    BY DEF matchesScope
<1>2. PICK j \in DOMAIN y.writes : GlobMatches(f, y.writes[j])
    BY DEF matchesScope
<1> DEFINE a == x.writes[i]
           b == y.writes[j]
<1>3. a \in Seq(Range(a)) /\ b \in Seq(Range(b)) /\ f \in Seq(Range(f))
    BY PathsAssumption
<1>4. masksIntersect(a, b)
    <2> HIDE DEF a, b
    <2>1. GlobMatches(f, a) /\ GlobMatches(f, b)
        BY <1>1, <1>2 DEF a, b
    <2> QED
        BY <1>3, <2>1, MasksOfAFileIntersect
<1> QED
    BY <1>4 DEF scopesIntersect

-----------------------------------------------------------------------------
(* Calls.                                                                  *)

\* A call that is in flight, and what is so of it while the session stands still.
IsCall(c) ==
    /\ c = [state |-> c.state, asked |-> c.asked, moved |-> c.moved, governed |-> c.governed,
            scopes |-> c.scopes, declared |-> c.declared]
    /\ c.state \in {"admitted", "over"} /\ c.asked \in Asked
Contained(c) == c.scopes # {} => \A n \in c.asked.names : OwnedBy(n, c.scopes)
Declared(c) ==
    c.asked.tool = "bash" /\ ~ c.governed =>
        \A words \in Range(c.asked.commands) : words \in c.declared \/ ~ ChangesByItself(words)

\* An operation is that of a call; if the session has not moved, the call is still
\* out, and still a mutation.
Tracked(k) ==
    k \in operations =>
        /\ pending[k] # NoCallYet
        /\ ~ pending[k].moved => pending[k].state = "admitted" /\ IsMutation(pending[k].asked)

IsWorker(w) ==
    /\ w = [scope |-> w.scope, strategy |-> w.strategy, before |-> w.before]
    /\ w.scope \in Scopes

CallsInv ==
    /\ pending = [k \in Calls |-> pending[k]]
    /\ \A k \in Calls :
         /\ pending[k] # NoCallYet => IsCall(pending[k])
         /\ pending[k].state = "admitted" => Contained(pending[k]) /\ Declared(pending[k])
         /\ Tracked(k)
    /\ operations \subseteq Calls
WorkersInv ==
    /\ \A t \in DOMAIN workers :
         /\ IsWorker(workers[t])
         /\ workers[t].before \subseteq DOMAIN workers
         /\ workers[t].strategy # "serial" =>
              \A u \in workers[t].before :
                 ~ scopesIntersect(workers[t].scope.writes, workers[u].scope.writes)

\* The inductive invariant.
PolicyInv == CallsInv /\ WorkersInv

LEMMA PolicyInvGoverns == PolicyInv => CallsAreGoverned
<1> SUFFICES ASSUME PolicyInv PROVE CallsAreGoverned
    OBVIOUS
<1>1. ASSUME NEW k \in Calls, pending[k].state = "admitted"
      PROVE  IsCall(pending[k]) /\ Contained(pending[k]) /\ Declared(pending[k])
    BY <1>1 DEF PolicyInv, CallsInv, NoCallYet
<1>2. ASSUME NEW k \in Calls, pending[k].state = "admitted", pending[k].scopes # {},
             NEW p \in TargetPaths(pending[k].asked.names)
      PROVE  p \in File /\ \E scope \in pending[k].scopes : matchesScope(p, scope)
    <2>1. PICK n \in pending[k].asked.names : p = NamedPath(n)
        BY DEF TargetPaths
    <2>2. OwnedBy(n, pending[k].scopes) /\ pending[k].asked \in Asked
        BY <1>1, <1>2 DEF Contained, IsCall
    <2> QED
        BY <2>1, <2>2, PathsAssumption DEF OwnedBy
<1>3. ASSUME NEW t \in DOMAIN workers, workers[t].strategy # "serial", NEW u \in workers[t].before,
             NEW f \in File
      PROVE  ~ (matchesScope(f, workers[t].scope.writes) /\ matchesScope(f, workers[u].scope.writes))
    <2>1. /\ workers[t].scope \in Scopes /\ workers[u].scope \in Scopes
          /\ ~ scopesIntersect(workers[t].scope.writes, workers[u].scope.writes)
        BY <1>3 DEF PolicyInv, WorkersInv, IsWorker
    <2> QED
        BY <2>1, DisjointScopes
<1>4. WritesHaveOneOwner
    BY <1>2, <1>3 DEF WritesHaveOneOwner
<1>5. UngovernedCallsAreDeclared
    BY <1>1 DEF UngovernedCallsAreDeclared, Declared
<1>6. OperationsEndWithTheirCall
    BY DEF PolicyInv, CallsInv, Tracked, OperationsEndWithTheirCall
<1> QED
    BY <1>4, <1>5, <1>6 DEF CallsAreGoverned

LEMMA PolicyInvStarts == PolicyInit => PolicyInv
<1> SUFFICES ASSUME PolicyInit PROVE PolicyInv
    OBVIOUS
<1>1. \A k \in Calls : pending[k] = NoCallYet
    BY DEF PolicyInit
<1>2. CallsInv
    BY <1>1 DEF PolicyInit, CallsInv, Tracked, NoCallYet
<1>3. DOMAIN workers = {}
    <2>1. workers = <<>>
        BY DEF PolicyInit
    <2> QED
        BY <2>1
<1> QED
    BY <1>2, <1>3 DEF PolicyInv, WorkersInv

\* Whether a call is a mutation depends on where the session is, and on nothing else.
LEMMA MutationsStay ==
    ASSUME UNCHANGED place, NEW asked
    PROVE  IsMutation(asked)' = IsMutation(asked)
<1>1. ActingStageActions' = ActingStageActions
    BY DEF ActingStageActions
<1>2. Deliveries' = Deliveries
    BY <1>1 DEF Deliveries
<1> QED
    BY <1>2 DEF IsMutation, IsCommitDelivery, ReadsOnlyCall

\* Tasks that begin and end say nothing of calls, and calls nothing of tasks.
LEMMA CallsInvStays ==
    ASSUME CallsInv, UNCHANGED <<place, pending, operations>>
    PROVE  CallsInv'
<1>1. \A asked : IsMutation(asked)' = IsMutation(asked)
    BY MutationsStay
<1>2. \A k : Tracked(k)' = Tracked(k)
    BY <1>1 DEF Tracked
<1> QED
    BY <1>2 DEF CallsInv

LEMMA StartTaskKeepsPolicyInv ==
    ASSUME PolicyInv, NEW t \in Worker, StartTask(t)
    PROVE  PolicyInv'
<1>1. CallsInv'
    BY CallsInvStays DEF PolicyInv, StartTask
<1>2. PICK scope \in Scopes, strategy \in {"parallel", "serial"} :
         /\ Admissible(scope, strategy)
         /\ workers' = [u \in DOMAIN workers \union {t} |->
                IF u = t THEN [scope |-> scope, strategy |-> strategy, before |-> DOMAIN workers]
                ELSE workers[u]]
    BY DEF StartTask
<1> DEFINE new == [scope |-> scope, strategy |-> strategy, before |-> DOMAIN workers]
<1>3. t \notin DOMAIN workers
    BY DEF StartTask
<1>4. /\ DOMAIN workers' = DOMAIN workers \union {t}
      /\ workers'[t] = new
      /\ \A u \in DOMAIN workers : workers'[u] = workers[u]
    BY <1>2, <1>3
<1>5. IsWorker(new) /\ new.before = DOMAIN workers
    BY DEF IsWorker
<1>6. new.strategy # "serial" =>
        \A u \in DOMAIN workers : ~ scopesIntersect(new.scope.writes, workers[u].scope.writes)
    BY <1>2 DEF Admissible
<1> HIDE DEF new
<1>7. WorkersInv'
    <2> SUFFICES ASSUME NEW u \in DOMAIN workers'
                 PROVE  /\ IsWorker(workers'[u])
                        /\ workers'[u].before \subseteq DOMAIN workers'
                        /\ workers'[u].strategy # "serial" =>
                             \A v \in workers'[u].before :
                                ~ scopesIntersect(workers'[u].scope.writes, workers'[v].scope.writes)
        BY DEF WorkersInv
    <2>1. CASE u = t
        BY <1>4, <1>5, <1>6, <2>1
    <2>2. CASE u # t
        <3>1. u \in DOMAIN workers /\ workers'[u] = workers[u] /\ workers[u].before \subseteq DOMAIN workers
            BY <1>4, <2>2 DEF PolicyInv, WorkersInv
        <3> QED
            BY <1>4, <3>1 DEF PolicyInv, WorkersInv
    <2> QED
        BY <2>1, <2>2
<1> QED
    BY <1>1, <1>7 DEF PolicyInv

LEMMA EndTaskKeepsPolicyInv ==
    ASSUME PolicyInv, NEW t \in Worker, EndTask(t)
    PROVE  PolicyInv'
<1>1. CallsInv'
    BY CallsInvStays DEF PolicyInv, EndTask
<1>2. /\ DOMAIN workers' = DOMAIN workers \ {t}
      /\ \A u \in DOMAIN workers' : workers'[u] = [workers[u] EXCEPT !.before = @ \ {t}]
    BY DEF EndTask
<1>3. ASSUME NEW u \in DOMAIN workers'
      PROVE  /\ workers'[u] = [scope |-> workers[u].scope, strategy |-> workers[u].strategy,
                               before |-> workers[u].before \ {t}]
             /\ workers[u].scope \in Scopes
    <2>1. IsWorker(workers[u])
        BY <1>2 DEF PolicyInv, WorkersInv
    <2> QED
        BY <1>2, <2>1 DEF IsWorker
<1>4. WorkersInv'
    <2> SUFFICES ASSUME NEW u \in DOMAIN workers'
                 PROVE  /\ IsWorker(workers'[u])
                        /\ workers'[u].before \subseteq DOMAIN workers'
                        /\ workers'[u].strategy # "serial" =>
                             \A v \in workers'[u].before :
                                ~ scopesIntersect(workers'[u].scope.writes, workers'[v].scope.writes)
        BY DEF WorkersInv
    <2>1. IsWorker(workers'[u])
        BY <1>3 DEF IsWorker
    <2>2. workers'[u].before = workers[u].before \ {t} /\ workers[u].before \subseteq DOMAIN workers
        BY <1>2, <1>3 DEF PolicyInv, WorkersInv
    <2>3. ASSUME workers'[u].strategy # "serial", NEW v \in workers'[u].before
          PROVE  ~ scopesIntersect(workers'[u].scope.writes, workers'[v].scope.writes)
        <3>1. v \in DOMAIN workers' /\ v \in workers[u].before /\ u \in DOMAIN workers
            BY <1>2, <2>2, <2>3
        <3>2. workers'[v].scope = workers[v].scope /\ workers'[u].scope = workers[u].scope
              /\ workers[u].strategy # "serial"
            BY <1>3, <2>3, <3>1
        <3> QED
            BY <3>1, <3>2 DEF PolicyInv, WorkersInv
    <2> QED
        BY <1>2, <2>1, <2>2, <2>3
<1> QED
    BY <1>1, <1>4 DEF PolicyInv

\* The commands of a call are read as they run.
LEMMA CommandsAreReadAsTheyRun ==
    ASSUME NEW asked \in Asked, asked.tool = "bash"
    PROVE  /\ ReadAs[asked].segments = asked.commands
           /\ ReadAs[asked].readOnly => \A words \in Range(asked.commands) : ~ ChangesByItself(words)
<1> DEFINE l == [commands |-> asked.commands, separator |-> ";", quote |-> "none", comment |-> FALSE]
<1>1. l.commands = asked.commands /\ l.separator \in Separators
    BY DEF Separators
<1>2. AreCommands(l.commands)
    BY <1>1, AskedAssumption
<1>3. ReadAs[asked] = [segments |-> shellSegments(Write(l)),
                      forbidden |-> hasForbiddenGitSubcommand(Write(l)),
                      readOnly |-> isReadOnlyBashCommand(Write(l))]
    BY DEF ReadAs, LineOf
<1> HIDE DEF l
<1>4. ReadAs[asked].segments = shellSegments(Write(l)) /\ ReadAs[asked].readOnly = isReadOnlyBashCommand(Write(l))
    BY <1>3
<1>5. shellSegments(Write(l)) = l.commands
    BY <1>1, <1>2, LinesAreReadBack
<1>6. (\E words \in Range(l.commands) : ChangesByItself(words)) => ~ isReadOnlyBashCommand(Write(l))
    BY <1>1, <1>2, LinesAreReadAsTheyRun
<1> QED
    BY <1>1, <1>4, <1>5, <1>6

\* What is admitted lies in the scopes of the tasks that run, and what is not an
\* operation is a delivery of the stage or reads.
LEMMA BeforeKeepsPolicyInv ==
    ASSUME PolicyInv, NEW k \in Calls, NEW asked \in Asked, NEW holds \in BOOLEAN,
           Before(k, asked, holds)
    PROVE  PolicyInv'
<1> DEFINE new == [state |-> "admitted", asked |-> asked, moved |-> FALSE,
                   governed |-> k \in operations',
                   scopes |-> IF asked.tool \in fileTools
                              THEN {workers[t].scope.writes : t \in DOMAIN workers} ELSE {},
                   declared |-> IF IsCommitDelivery(asked) THEN Range(Deliveries) ELSE {}]
<1>1. /\ pending[k] = NoCallYet
      /\ ScopeBefore(asked)
      /\ operations' = IF IsMutation(asked) THEN operations \union {k} ELSE operations
      /\ pending' = [pending EXCEPT ![k] = new]
      /\ place' = place /\ workers' = workers
    BY DEF Before
<1>2. CallsInv /\ pending = [j \in Calls |-> pending[j]]
    BY DEF PolicyInv, CallsInv
<1>3. IsCall(new)
    BY DEF IsCall
<1>4. Contained(new)
    <2>1. SUFFICES ASSUME new.scopes # {} PROVE \A n \in asked.names : OwnedBy(n, new.scopes)
        BY DEF Contained
    <2>2. asked.tool \in fileTools /\ new.scopes = {workers[t].scope.writes : t \in DOMAIN workers}
        BY <2>1
    <2> HIDE DEF new
    <2> QED
        BY <1>1, <2>1, <2>2 DEF ScopeBefore
<1>5. Declared(new)
    <2>1. SUFFICES ASSUME asked.tool = "bash", k \notin operations', NEW words \in Range(asked.commands)
                   PROVE  words \in new.declared \/ ~ ChangesByItself(words)
        BY DEF Declared
    <2>2. ~ IsMutation(asked)
        BY <1>1, <2>1
    <2>3. IsCommitDelivery(asked) \/ ReadsOnlyCall(asked)
        BY <2>1, <2>2 DEF IsMutation, mutatingTools
    <2>4. CASE IsCommitDelivery(asked)
        <3>1. new.declared = Range(Deliveries)
            BY <2>4
        <3>2. commandMatches(asked.commands, Deliveries)
            BY <2>1, <2>4, CommandsAreReadAsTheyRun DEF IsCommitDelivery
        <3>3. \E i \in DOMAIN Deliveries : Deliveries[i] = words
            BY <2>1, <3>2 DEF commandMatches
        <3> HIDE DEF new
        <3> QED
            BY <3>1, <3>3 DEF Range
    <2>5. CASE ReadsOnlyCall(asked)
        BY <2>1, <2>5, CommandsAreReadAsTheyRun DEF ReadsOnlyCall
    <2> QED
        BY <2>3, <2>4, <2>5
<1>6. new.state = "admitted" /\ new.moved = FALSE /\ new.asked = asked /\ new # NoCallYet
    BY DEF NoCallYet
<1> HIDE DEF new
<1>7. pending' = [j \in Calls |-> IF j = k THEN new ELSE pending[j]]
    BY <1>1, <1>2
<1>8. k \notin operations
    BY <1>1, <1>2 DEF CallsInv, Tracked
<1>9. ASSUME NEW j \in Calls
      PROVE  /\ pending'[j] # NoCallYet => IsCall(pending'[j])
             /\ pending'[j].state = "admitted" => Contained(pending'[j]) /\ Declared(pending'[j])
             /\ Tracked(j)'
    <2>1. CASE j = k
        <3>1. pending'[j] = new
            BY <1>7, <2>1
        <3>2. j \in operations' => IsMutation(asked)
            BY <1>1, <1>8, <2>1
        <3>3. Tracked(j)'
            BY <1>1, <1>6, <3>1, <3>2, MutationsStay DEF Tracked
        <3> QED
            BY <1>3, <1>4, <1>5, <3>1, <3>3
    <2>2. CASE j # k
        <3>1. pending'[j] = pending[j] /\ (j \in operations' => j \in operations)
            BY <1>1, <1>7, <2>2
        <3>2. Tracked(j)'
            BY <1>1, <1>2, <3>1, MutationsStay DEF Tracked, CallsInv
        <3> QED
            BY <1>2, <3>1, <3>2 DEF CallsInv
    <2> QED
        BY <2>1, <2>2
<1>10. CallsInv'
    <2>1. pending' = [j \in Calls |-> pending'[j]] /\ operations' \subseteq Calls
        BY <1>1, <1>2, <1>7 DEF CallsInv
    <2> QED
        BY <1>9, <2>1 DEF CallsInv, IsCall, Contained, Declared, OwnedBy
<1>11. WorkersInv'
    BY <1>1 DEF PolicyInv, WorkersInv
<1> QED
    BY <1>10, <1>11 DEF PolicyInv

\* What is left of a call after a step that is not its beginning, and of the others.
LEMMA CallsGoOn ==
    ASSUME CallsInv, NEW next,
           pending' = [j \in Calls |-> next[j]], operations' \subseteq operations,
           \A j \in Calls :
             /\ next[j] = NoCallYet \/ (pending[j] # NoCallYet /\ IsCall(next[j]))
             /\ next[j] # NoCallYet /\ next[j].state = "admitted" =>
                  /\ pending[j].state = "admitted" /\ next[j].asked = pending[j].asked
                  /\ next[j].governed = pending[j].governed /\ next[j].scopes = pending[j].scopes
                  /\ next[j].declared = pending[j].declared
             /\ Tracked(j)'
    PROVE  CallsInv'
<1>1. ASSUME NEW j \in Calls
      PROVE  /\ pending'[j] = next[j]
             /\ next[j] # NoCallYet => IsCall(next[j])
             /\ next[j].state = "admitted" => Contained(next[j]) /\ Declared(next[j])
             /\ Tracked(j)'
    <2>1. next[j].state = "admitted" => next[j] # NoCallYet
        BY DEF NoCallYet
    <2> QED
        BY <2>1 DEF CallsInv, Contained, Declared
<1> QED
    BY <1>1 DEF CallsInv

\* After a call its operation is gone, unless the session has moved.
LEMMA AfterKeepsPolicyInv ==
    ASSUME PolicyInv, NEW k \in Calls, After(k)
    PROVE  PolicyInv'
<1> DEFINE c == pending[k]
           left == IF k \in operations' THEN [c EXCEPT !.state = "over", !.scopes = {}] ELSE NoCallYet
           next == [j \in Calls |-> IF j = k THEN left ELSE pending[j]]
<1>1. /\ c.state = "admitted"
      /\ operations' = IF IsMutation(c.asked) THEN operations \ {k} ELSE operations
      /\ pending' = [pending EXCEPT ![k] = left]
      /\ place' = place /\ workers' = workers
    BY DEF After, Finishes
<1>2. CallsInv /\ pending = [j \in Calls |-> pending[j]]
    BY DEF PolicyInv, CallsInv
<1>3. c # NoCallYet /\ IsCall(c)
    BY <1>1, <1>2 DEF CallsInv, NoCallYet
<1>4. left # NoCallYet => /\ k \in operations' /\ k \in operations /\ ~ IsMutation(c.asked)
                         /\ left.state = "over" /\ left.moved = c.moved /\ IsCall(left)
    <2>1. SUFFICES ASSUME k \in operations'
                   PROVE  /\ k \in operations' /\ k \in operations /\ ~ IsMutation(c.asked)
                          /\ left.state = "over" /\ left.moved = c.moved /\ IsCall(left)
        OBVIOUS
    <2>2. left = [state |-> "over", asked |-> c.asked, moved |-> c.moved, governed |-> c.governed,
                  scopes |-> {}, declared |-> c.declared]
        BY <1>3, <2>1 DEF IsCall
    <2>3. IsCall(left) /\ left.state = "over" /\ left.moved = c.moved
        BY <1>3, <2>2 DEF IsCall
    <2> QED
        BY <1>1, <2>1, <2>3
<1>5. k \in operations' => left # NoCallYet
    <2>1. SUFFICES ASSUME k \in operations' PROVE left.state = "over"
        BY DEF NoCallYet
    <2> QED
        BY <1>3, <2>1 DEF IsCall
<1> HIDE DEF left
<1>6. pending' = [j \in Calls |-> next[j]]
    BY <1>1, <1>2
<1>7. ASSUME NEW j \in Calls
      PROVE  /\ next[j] = NoCallYet \/ (pending[j] # NoCallYet /\ IsCall(next[j]))
             /\ next[j] # NoCallYet /\ next[j].state = "admitted" => next[j] = pending[j]
             /\ Tracked(j)'
    <2>1. CASE j = k
        <3>1. next[j] = left /\ pending'[j] = left
            BY <1>6, <2>1
        <3>2. left # NoCallYet => left.moved
            BY <1>2, <1>4 DEF CallsInv, Tracked
        <3>3. Tracked(j)'
            BY <1>5, <2>1, <3>1, <3>2 DEF Tracked
        <3> QED
            BY <1>3, <1>4, <2>1, <3>1, <3>3
    <2>2. CASE j # k
        <3>1. next[j] = pending[j] /\ pending'[j] = pending[j] /\ (j \in operations' => j \in operations)
            BY <1>1, <1>6, <2>2
        <3>2. Tracked(j)'
            BY <1>1, <1>2, <3>1, MutationsStay DEF Tracked, CallsInv
        <3> QED
            BY <1>2, <3>1, <3>2 DEF CallsInv
    <2> QED
        BY <2>1, <2>2
<1>8. operations' \subseteq operations
    BY <1>1
<1> HIDE DEF next
<1>9. CallsInv'
    BY <1>2, <1>6, <1>7, <1>8, CallsGoOn
<1>10. WorkersInv'
    BY <1>1 DEF PolicyInv, WorkersInv
<1> QED
    BY <1>9, <1>10 DEF PolicyInv

LEMMA LeaseEndsKeepsPolicyInv ==
    ASSUME PolicyInv, NEW k \in Calls, LeaseEnds(k)
    PROVE  PolicyInv'
<1> DEFINE next == [j \in Calls |-> IF j = k THEN NoCallYet ELSE pending[j]]
<1>1. /\ operations' = operations \ {k}
      /\ pending' = [pending EXCEPT ![k] = NoCallYet]
      /\ place' = place /\ workers' = workers
    BY DEF LeaseEnds
<1>2. CallsInv /\ pending = [j \in Calls |-> pending[j]]
    BY DEF PolicyInv, CallsInv
<1>3. pending' = [j \in Calls |-> next[j]]
    BY <1>1, <1>2
<1>4. ASSUME NEW j \in Calls
      PROVE  /\ next[j] = NoCallYet \/ (pending[j] # NoCallYet /\ IsCall(next[j]))
             /\ next[j] # NoCallYet => next[j] = pending[j]
             /\ Tracked(j)'
    <2>1. Tracked(j)'
        <3>1. j \in operations' => j \in operations /\ pending'[j] = pending[j]
            BY <1>1, <1>2
        <3> QED
            BY <1>1, <1>2, <3>1, MutationsStay DEF Tracked, CallsInv
    <2> QED
        BY <1>2, <2>1 DEF CallsInv
<1> HIDE DEF next
<1>5. CallsInv'
    BY <1>1, <1>2, <1>3, <1>4, CallsGoOn
<1>6. WorkersInv'
    BY <1>1 DEF PolicyInv, WorkersInv
<1> QED
    BY <1>5, <1>6 DEF PolicyInv

\* A session that moves marks every call that is in flight.
LEMMA MoveStageKeepsPolicyInv ==
    ASSUME PolicyInv, MoveStage
    PROVE  PolicyInv'
<1> DEFINE next == [j \in Calls |-> IF pending[j] = NoCallYet THEN NoCallYet
                                    ELSE [pending[j] EXCEPT !.moved = TRUE]]
<1>1. pending' = next /\ operations' = operations /\ workers' = workers
    BY DEF MoveStage
<1>2. CallsInv
    BY DEF PolicyInv
<1>3. ASSUME NEW j \in Calls, pending[j] # NoCallYet
      PROVE  /\ IsCall(next[j]) /\ next[j].moved /\ next[j].state = pending[j].state
             /\ next[j].asked = pending[j].asked
             /\ next[j].governed = pending[j].governed /\ next[j].scopes = pending[j].scopes
             /\ next[j].declared = pending[j].declared
    <2> DEFINE c == pending[j]
    <2>1. IsCall(c) /\ next[j] = [c EXCEPT !.moved = TRUE]
        BY <1>2, <1>3 DEF CallsInv
    <2> HIDE DEF next
    <2>2. next[j] = [state |-> c.state, asked |-> c.asked, moved |-> TRUE, governed |-> c.governed,
                     scopes |-> c.scopes, declared |-> c.declared]
        BY <2>1 DEF IsCall
    <2> QED
        BY <2>1, <2>2 DEF IsCall
<1>4. ASSUME NEW j \in Calls
      PROVE  Tracked(j)'
    <2>1. j \in operations' => pending[j] # NoCallYet
        BY <1>1, <1>2 DEF CallsInv, Tracked
    <2>2. pending[j] # NoCallYet => pending'[j] # NoCallYet /\ pending'[j].moved
        <3>1. \A c : IsCall(c) => c # NoCallYet
            BY DEF IsCall, NoCallYet
        <3> HIDE DEF next
        <3> QED
            BY <1>1, <1>3, <3>1
    <2> QED
        BY <2>1, <2>2 DEF Tracked
<1>5. pending' = [j \in Calls |-> next[j]]
    BY <1>1
<1>6. ASSUME NEW j \in Calls, pending[j] = NoCallYet PROVE next[j] = NoCallYet
    BY <1>6
<1> HIDE DEF next
<1>7. ASSUME NEW j \in Calls
      PROVE  /\ next[j] = NoCallYet \/ (pending[j] # NoCallYet /\ IsCall(next[j]))
             /\ next[j] # NoCallYet /\ next[j].state = "admitted" =>
                  /\ pending[j].state = "admitted" /\ next[j].asked = pending[j].asked
                  /\ next[j].governed = pending[j].governed /\ next[j].scopes = pending[j].scopes
                  /\ next[j].declared = pending[j].declared
             /\ Tracked(j)'
    <2>1. CASE pending[j] = NoCallYet
        BY <1>4, <1>6, <2>1
    <2>2. CASE pending[j] # NoCallYet
        BY <1>3, <1>4, <2>2
    <2> QED
        BY <2>1, <2>2
<1>8. CallsInv'
    BY <1>1, <1>2, <1>5, <1>7, CallsGoOn
<1>9. WorkersInv'
    BY <1>1 DEF PolicyInv, WorkersInv
<1> QED
    BY <1>8, <1>9 DEF PolicyInv

LEMMA PolicyStepsKeepPolicyInv ==
    ASSUME PolicyInv, PolicyNext \/ UNCHANGED policyVars
    PROVE  PolicyInv'
<1>1. CASE UNCHANGED policyVars
    <2>1. CallsInv'
        BY <1>1, CallsInvStays DEF policyVars, PolicyInv
    <2> QED
        BY <1>1, <2>1 DEF policyVars, PolicyInv, WorkersInv
<1>2. CASE \E t \in Worker : StartTask(t) \/ EndTask(t)
    BY <1>2, StartTaskKeepsPolicyInv, EndTaskKeepsPolicyInv
<1>3. CASE \E k \in Calls : (\E asked \in Asked, holds \in BOOLEAN : Before(k, asked, holds))
                            \/ After(k) \/ LeaseEnds(k)
    BY <1>3, BeforeKeepsPolicyInv, AfterKeepsPolicyInv, LeaseEndsKeepsPolicyInv
<1>4. CASE MoveStage
    BY <1>4, MoveStageKeepsPolicyInv
<1> QED
    BY <1>1, <1>2, <1>3, <1>4 DEF PolicyNext

\* Whatever tasks start and end, whatever is called and wherever the session goes
\* meanwhile: what may be written has one owner, what runs without a baseline was
\* declared as a delivery or changes nothing but for an argument that nobody looks at,
\* and no operation outlives its call while the session stands still (scopeBefore,
\* actionsBefore, taskAdmissionRejection and mutationBefore/After).
THEOREM CallsAreAlwaysGoverned == PolicySpec => []CallsAreGoverned
<1>1. PolicyInv /\ [PolicyNext]_policyVars => PolicyInv'
    BY PolicyStepsKeepPolicyInv
<1> QED
    BY <1>1, PolicyInvStarts, PolicyInvGoverns, PTL DEF PolicySpec

-----------------------------------------------------------------------------
(* Matches of a pattern.                                                   *)

Row(t) == [1..(Len(t) + 1) -> SUBSET (0..Len(t))]

\* The ends are told from the last fragment to the first.
EndsAreTold(pattern, t) ==
    LET ends == EndsOf(pattern, t)
    IN  /\ ends \in [0..Len(pattern) -> Row(t)]
        /\ ends[0] = [i \in 1..(Len(t) + 1) |-> {i - 1}]
        /\ \A n \in 1..Len(pattern) : ends[n] = EndsBefore(pattern[Len(pattern) - n + 1], t, ends[n - 1])

LEMMA EndsBeforeIsARow ==
    ASSUME NEW S, NEW t \in Seq(S), NEW fragment, NEW later \in Row(t)
    PROVE  EndsBefore(fragment, t, later) \in Row(t)
<1> DEFINE InIt(i) == IF fragment = "..." THEN UNION {later[j] : j \in i..(Len(t) + 1)}
                    ELSE IF i <= Len(t) /\ t[i] = fragment THEN later[i + 1] ELSE {}
<1>1. Len(t) \in Nat
    OBVIOUS
<1>2. ASSUME NEW i \in 1..(Len(t) + 1) PROVE InIt(i) \in SUBSET (0..Len(t))
    <2>1. \A j \in i..(Len(t) + 1) : later[j] \in SUBSET (0..Len(t))
        BY <1>1, <1>2 DEF Row
    <2>2. i <= Len(t) => later[i + 1] \in SUBSET (0..Len(t))
        BY <1>1, <1>2 DEF Row
    <2> QED
        BY <2>1, <2>2
<1>3. EndsBefore(fragment, t, later) = [i \in 1..(Len(t) + 1) |-> InIt(i)]
    BY DEF EndsBefore
<1> HIDE DEF InIt
<1> QED
    BY <1>2, <1>3 DEF Row

LEMMA EndsOfIsTold ==
    ASSUME NEW S, NEW t \in Seq(S), NEW F, NEW pattern \in Seq(F)
    PROVE  EndsAreTold(pattern, t)
<1> DEFINE top == Len(pattern)
           R == Row(t)
           none == [i \in 1..(Len(t) + 1) |-> {i - 1}]
           Step(n, later) == EndsBefore(pattern[top - n + 1], t, later)
           next == [p \in (1..top) \X R |-> Step(p[1], p[2])]
           Right(f) == f = [n \in 0..top |-> IF n = 0 THEN none ELSE Step(n, f[n - 1])]
<1>1. top \in Nat /\ Len(t) \in Nat
    OBVIOUS
<1>2. none \in R
    BY <1>1 DEF Row
<1>3. \A n, later : later \in R => Step(n, later) \in R
    BY EndsBeforeIsARow
<1> HIDE DEF top, Step, none, R
<1>4. next \in [(1..top) \X R -> R]
    BY <1>3
<1>5. PICK f \in [0..top -> R] : Recurs(f, top, none, next)
    <2> HIDE DEF next
    <2> QED
        BY <1>1, <1>2, <1>4, RecursionIsThere
<1>6. Right(f)
    <2>1. f = [n \in 0..top |-> IF n = 0 THEN none ELSE next[<<n, f[n - 1]>>]]
        BY <1>5 DEF Recurs
    <2>2. ASSUME NEW n \in 0..top
          PROVE  (IF n = 0 THEN none ELSE next[<<n, f[n - 1]>>]) = (IF n = 0 THEN none ELSE Step(n, f[n - 1]))
        <3>1. n # 0 => n \in 1..top /\ n - 1 \in 0..top
            BY <1>1
        <3>2. n # 0 => f[n - 1] \in R
            BY <1>5, <3>1
        <3> QED
            BY <3>1, <3>2
    <2> HIDE DEF next
    <2> QED
        BY <2>1, <2>2
<1> DEFINE g == CHOOSE g : Right(g)
<1>7. Right(g)
    BY <1>6
<1>8. EndsOf(pattern, t) = g
    BY DEF EndsOf, top, none, Step
<1> HIDE DEF g
<1>9. g[0] = none /\ \A n \in 1..top : g[n] = Step(n, g[n - 1])
    <2>1. \A n \in 0..top : g[n] = IF n = 0 THEN none ELSE Step(n, g[n - 1])
        BY <1>7
    <2> QED
        BY <1>1, <2>1
<1>10. g \in [0..top -> R]
    <2> DEFINE T == {n \in 0..top : g[n] \in R}
    <2>1. 0 \in T
        BY <1>1, <1>2, <1>9
    <2>2. \A n \in 1..top : n - 1 \in T => n \in T
        BY <1>1, <1>3, <1>9
    <2> HIDE DEF T
    <2>3. \A n \in 0..top : n \in T
        BY <1>1, <2>1, <2>2, Upwards
    <2>4. \A n \in 0..top : g[n] \in R
        BY <2>3 DEF T
    <2>5. g = [n \in 0..top |-> g[n]]
        BY <1>7
    <2> QED
        BY <2>4, <2>5
<1> QED
    BY <1>8, <1>9, <1>10 DEF EndsAreTold, top, none, Step, R

\* t has from i + d on what u has from i to j.
SameStretch(u, t, i, j, d) == j + d <= Len(t) /\ \A k \in i..j : u[k] = t[k + d]

\* A match, of some last fragments too, is one wherever what it matches stands.
LEMMA PartsMove ==
    ASSUME NEW S, NEW t \in Seq(S), NEW u \in Seq(S), NEW F, NEW pattern \in Seq(F),
           NEW m \in 0..Len(pattern),
           NEW i \in 1..(Len(u) + 1), NEW j \in EndsOf(pattern, u)[m][i]
    PROVE  /\ j \in 0..Len(u) /\ i - 1 <= j
           /\ \A d \in Nat : SameStretch(u, t, i, j, d) => j + d \in EndsOf(pattern, t)[m][i + d]
<1> DEFINE eu == EndsOf(pattern, u)
           et == EndsOf(pattern, t)
           top == Len(pattern)
           Moves(n) == \A a \in 1..(Len(u) + 1) : \A b \in eu[n][a] :
                         /\ b \in 0..Len(u) /\ a - 1 <= b
                         /\ \A d \in Nat : SameStretch(u, t, a, b, d) => b + d \in et[n][a + d]
<1>1. top \in Nat /\ Len(u) \in Nat /\ Len(t) \in Nat
    OBVIOUS
<1>2. EndsAreTold(pattern, u) /\ EndsAreTold(pattern, t)
    BY EndsOfIsTold
<1>3. /\ eu \in [0..top -> Row(u)]
      /\ et \in [0..top -> Row(t)]
      /\ eu[0] = [a \in 1..(Len(u) + 1) |-> {a - 1}]
      /\ et[0] = [a \in 1..(Len(t) + 1) |-> {a - 1}]
      /\ \A n \in 1..top : /\ eu[n] = EndsBefore(pattern[top - n + 1], u, eu[n - 1])
                           /\ et[n] = EndsBefore(pattern[top - n + 1], t, et[n - 1])
    BY <1>2 DEF EndsAreTold
<1> HIDE DEF eu, et, top
<1> DEFINE T == {n \in 0..top : Moves(n)}
<1>4. 0 \in T
    <2>1. ASSUME NEW a \in 1..(Len(u) + 1), NEW b \in eu[0][a]
          PROVE  /\ b \in 0..Len(u) /\ a - 1 <= b
                 /\ \A d \in Nat : SameStretch(u, t, a, b, d) => b + d \in et[0][a + d]
        <3>1. b = a - 1
            BY <1>3, <2>1
        <3>2. ASSUME NEW d \in Nat, SameStretch(u, t, a, b, d) PROVE b + d \in et[0][a + d]
            <4>1. a + d \in 1..(Len(t) + 1)
                BY <1>1, <3>1, <3>2 DEF SameStretch
            <4>2. et[0][a + d] = {a + d - 1}
                BY <1>3, <4>1
            <4> QED
                BY <1>1, <3>1, <4>2
        <3> QED
            BY <1>1, <3>1, <3>2
    <2> QED
        BY <1>1, <2>1
<1>5. ASSUME NEW n \in 1..top, n - 1 \in T PROVE n \in T
    <2> DEFINE fragment == pattern[top - n + 1]
               lu == eu[n - 1]
               lt == et[n - 1]
    <2>1. /\ eu[n] = EndsBefore(fragment, u, lu) /\ et[n] = EndsBefore(fragment, t, lt)
          /\ \A a \in 1..(Len(u) + 1) : \A b \in lu[a] :
               /\ b \in 0..Len(u) /\ a - 1 <= b
               /\ \A d \in Nat : SameStretch(u, t, a, b, d) => b + d \in lt[a + d]
        BY <1>3, <1>5
    <2> HIDE DEF fragment, lu, lt
    <2>2. ASSUME NEW a \in 1..(Len(u) + 1), NEW b \in eu[n][a]
          PROVE  /\ b \in 0..Len(u) /\ a - 1 <= b
                 /\ \A d \in Nat : SameStretch(u, t, a, b, d) => b + d \in et[n][a + d]
        <3>1. /\ eu[n][a] = IF fragment = "..." THEN UNION {lu[j_] : j_ \in a..(Len(u) + 1)}
                            ELSE IF a <= Len(u) /\ u[a] = fragment THEN lu[a + 1] ELSE {}
            BY <2>1 DEF EndsBefore
        <3>2. \A c \in 1..(Len(t) + 1) :
                et[n][c] = IF fragment = "..." THEN UNION {lt[j_] : j_ \in c..(Len(t) + 1)}
                           ELSE IF c <= Len(t) /\ t[c] = fragment THEN lt[c + 1] ELSE {}
            BY <2>1 DEF EndsBefore
        <3>3. CASE fragment = "..."
            <4>1. PICK c \in a..(Len(u) + 1) : b \in lu[c]
                BY <2>2, <3>1, <3>3
            <4>2. c \in 1..(Len(u) + 1) /\ a <= c
                BY <1>1, <4>1
            <4>3. /\ b \in 0..Len(u) /\ c - 1 <= b
                  /\ \A d \in Nat : SameStretch(u, t, c, b, d) => b + d \in lt[c + d]
                BY <2>1, <4>1, <4>2
            <4>4. ASSUME NEW d \in Nat, SameStretch(u, t, a, b, d) PROVE b + d \in et[n][a + d]
                <5>1. SameStretch(u, t, c, b, d)
                    BY <1>1, <4>2, <4>3, <4>4 DEF SameStretch
                <5>2. b + d \in lt[c + d]
                    BY <4>3, <5>1
                <5>3. c + d \in (a + d)..(Len(t) + 1) /\ a + d \in 1..(Len(t) + 1)
                    BY <1>1, <4>2, <4>3, <4>4 DEF SameStretch
                <5> QED
                    BY <3>2, <3>3, <5>2, <5>3
            <4> QED
                BY <1>1, <4>2, <4>3, <4>4
        <3>4. CASE fragment # "..."
            <4>1. a <= Len(u) /\ u[a] = fragment /\ b \in lu[a + 1]
                BY <2>2, <3>1, <3>4
            <4>2. a + 1 \in 1..(Len(u) + 1)
                BY <1>1, <4>1
            <4>3. /\ b \in 0..Len(u) /\ a <= b
                  /\ \A d \in Nat : SameStretch(u, t, a + 1, b, d) => b + d \in lt[a + 1 + d]
                <5>1. /\ b \in 0..Len(u) /\ (a + 1) - 1 <= b
                      /\ \A d \in Nat : SameStretch(u, t, a + 1, b, d) => b + d \in lt[a + 1 + d]
                    BY <2>1, <4>1, <4>2
                <5>2. (a + 1) - 1 = a
                    OBVIOUS
                <5> QED
                    BY <5>1, <5>2
            <4>4. ASSUME NEW d \in Nat, SameStretch(u, t, a, b, d) PROVE b + d \in et[n][a + d]
                <5>1. SameStretch(u, t, a + 1, b, d) /\ u[a] = t[a + d]
                    <6>1. b + d <= Len(t) /\ \A i_ \in a..b : u[i_] = t[i_ + d]
                        BY <4>4 DEF SameStretch
                    <6>2. a \in a..b /\ \A i_ \in (a + 1)..b : i_ \in a..b
                        BY <4>3
                    <6> QED
                        BY <6>1, <6>2 DEF SameStretch
                <5>2. b + d \in lt[(a + d) + 1]
                    <6>1. a + 1 + d = (a + d) + 1
                        BY <1>1
                    <6> QED
                        BY <4>3, <5>1, <6>1
                <5>3. a + d \in 1..(Len(t) + 1) /\ a + d <= Len(t)
                    BY <1>1, <4>1, <4>3, <4>4 DEF SameStretch
                <5> QED
                    BY <3>2, <3>4, <4>1, <5>1, <5>2, <5>3
            <4> QED
                BY <1>1, <4>3, <4>4
        <3> QED
            BY <3>3, <3>4
    <2> QED
        BY <2>2
<1>6. m \in 0..top
    BY DEF top
<1>7. Moves(m)
    <2> HIDE DEF T
    <2>1. \A n \in 0..top : n \in T
        BY <1>1, <1>4, <1>5, Upwards
    <2> QED
        BY <1>6, <2>1 DEF T
<1> QED
    BY <1>7 DEF eu, et

LEMMA MatchesMove ==
    ASSUME NEW S, NEW t \in Seq(S), NEW u \in Seq(S), NEW F, NEW pattern \in Seq(F),
           NEW i \in 1..(Len(u) + 1), NEW j \in EndsAt(pattern, u, i)
    PROVE  /\ j \in 0..Len(u) /\ i - 1 <= j
           /\ \A d \in Nat : SameStretch(u, t, i, j, d) => j + d \in EndsAt(pattern, t, i + d)
<1>1. Len(pattern) \in 0..Len(pattern)
    OBVIOUS
<1> QED
    BY <1>1, PartsMove DEF EndsAt

\* What begins with something to look for matches something.
BeginsWithAWord(pattern) == pattern # <<>> /\ pattern[1] # "..."

LEMMA MatchesAreNotEmpty ==
    ASSUME NEW S, NEW t \in Seq(S), NEW F, NEW pattern \in Seq(F), BeginsWithAWord(pattern),
           NEW i \in DOMAIN t
    PROVE  EndsAt(pattern, t, i) \subseteq i..Len(t)
<1> DEFINE top == Len(pattern)
           ends == EndsOf(pattern, t)
<1>1. top \in Nat /\ top # 0 /\ Len(t) \in Nat /\ i \in 1..Len(t)
    BY DEF BeginsWithAWord
<1>2. top \in 1..top /\ top - 1 \in 0..top /\ top - top + 1 = 1
    BY <1>1
<1>3. ends[top] = EndsBefore(pattern[1], t, ends[top - 1])
    <2>1. EndsAreTold(pattern, t)
        BY EndsOfIsTold
    <2>2. ends[top] = EndsBefore(pattern[top - top + 1], t, ends[top - 1])
        BY <1>2, <2>1 DEF EndsAreTold
    <2> QED
        BY <1>2, <2>2
<1>4. ASSUME NEW j \in EndsAt(pattern, t, i) PROVE j \in i..Len(t)
    <2>1. j \in ends[top][i]
        BY <1>4 DEF EndsAt
    <2>2. j \in ends[top - 1][i + 1]
        <3> HIDE DEF ends, top
        <3> QED
            BY <1>1, <1>3, <2>1 DEF EndsBefore, BeginsWithAWord
    <2>3. i + 1 \in 1..(Len(t) + 1)
        BY <1>1
    <2>4. j \in 0..Len(t) /\ (i + 1) - 1 <= j
        BY <1>2, <2>2, <2>3, PartsMove
    <2> QED
        BY <1>1, <2>4
<1> QED
    BY <1>4

\* Of some numbers up to a limit Max is one.
LEMMA MaxIsThere ==
    ASSUME NEW limit \in Nat, NEW S \in SUBSET (0..limit), S # {}
    PROVE  Max(S) \in S
<1> DEFINE R == {limit - x : x \in S}
<1>1. R \in SUBSET Nat /\ R # {}
    <2>1. \A x \in S : limit - x \in Nat
        OBVIOUS
    <2> QED
        BY <2>1
<1>2. PICK r \in R : \A q \in R : r <= q
    <2> HIDE DEF R
    <2> QED
        BY <1>1, LeastNumber
<1>3. PICK x \in S : r = limit - x
    BY <1>2
<1>4. \A y \in S : x >= y
    <2>1. SUFFICES ASSUME NEW y \in S PROVE x >= y
        OBVIOUS
    <2>2. r <= limit - y
        BY <1>2
    <2> QED
        BY <1>3, <2>2
<1> QED
    BY <1>4 DEF Max

-----------------------------------------------------------------------------
(* Replacing matches.                                                      *)

\* In c everything of t from i to m is replaced by one fragment.
IsCut(c, t, by, i, m) ==
    /\ Len(c) = Len(t) - (m - i)
    /\ c[i] = by
    /\ \A k \in 1..(i - 1) : c[k] = t[k]
    /\ \A k \in (i + 1)..Len(c) : c[k] = t[k + (m - i)]

LEMMA CutsAreCuts ==
    ASSUME NEW S, NEW t \in Seq(S), NEW by \in S, NEW F, NEW pattern \in Seq(F),
           BeginsWithAWord(pattern), NEW i \in DOMAIN t, EndsAt(pattern, t, i) # {}
    PROVE  /\ Cut(t, pattern, by, i) \in Seq(S)
           /\ \E m \in i..Len(t) : IsCut(Cut(t, pattern, by, i), t, by, i, m)
<1> DEFINE m == Max(EndsAt(pattern, t, i))
           c == Cut(t, pattern, by, i)
           before == SubSeq(t, 1, i - 1)
           behind == SubSeq(t, m + 1, Len(t))
<1>1. Len(t) \in Nat /\ i \in 1..Len(t)
    OBVIOUS
<1>2. m \in i..Len(t)
    <2>1. EndsAt(pattern, t, i) \subseteq i..Len(t)
        BY MatchesAreNotEmpty
    <2>2. EndsAt(pattern, t, i) \in SUBSET (0..Len(t))
        BY <1>1, <2>1
    <2> QED
        BY <1>1, <2>1, <2>2, MaxIsThere
<1>3. c = before \o <<by>> \o behind
    BY DEF Cut
<1> HIDE DEF m, c
<1>4. /\ before \in Seq(S) /\ Len(before) = i - 1 /\ \A k \in 1..(i - 1) : before[k] = t[k]
    BY <1>1
<1>5. /\ behind \in Seq(S) /\ Len(behind) = Len(t) - m
      /\ \A k \in 1..(Len(t) - m) : behind[k] = t[m + k]
    BY <1>1, <1>2
<1> HIDE DEF before, behind
<1> DEFINE front == before \o <<by>>
<1>6. front \in Seq(S) /\ Len(front) = i /\ front[i] = by /\ \A k \in 1..(i - 1) : front[k] = t[k]
    BY <1>1, <1>4
<1>7. c = front \o behind
    BY <1>3
<1> HIDE DEF front
<1>8. c \in Seq(S) /\ Len(c) = i + (Len(t) - m)
    <2>1. front \in Seq(S) /\ behind \in Seq(S)
        BY <1>5, <1>6
    <2>2. c \in Seq(S) /\ Len(c) = Len(front) + Len(behind)
        BY ONLY <1>7, <2>1, ConcatProperties
    <2> QED
        BY <1>5, <1>6, <2>2
<1>9. \A k \in 1..i : c[k] = front[k]
    BY <1>5, <1>6, <1>7
<1>10. \A k \in (i + 1)..Len(c) : c[k] = behind[k - i]
    BY <1>1, <1>2, <1>5, <1>6, <1>7, <1>8
<1>11. IsCut(c, t, by, i, m)
    <2>1. Len(c) = Len(t) - (m - i)
        BY <1>1, <1>2, <1>8
    <2>2. c[i] = by /\ \A k \in 1..(i - 1) : c[k] = t[k]
        BY <1>1, <1>6, <1>9
    <2>3. ASSUME NEW k \in (i + 1)..Len(c) PROVE c[k] = t[k + (m - i)]
        <3>1. k - i \in 1..(Len(t) - m) /\ m + (k - i) = k + (m - i)
            BY <1>1, <1>2, <1>8
        <3> QED
            BY <1>5, <1>10, <3>1
    <2> QED
        BY <2>1, <2>2, <2>3 DEF IsCut
<1> QED
    BY <1>2, <1>8, <1>11 DEF c

\* Every stretch of u in which nothing was put is one of t.
ComesFrom(u, t, by) ==
    \A i, j \in DOMAIN u :
        i <= j /\ (\A k \in i..j : u[k] # by) => \E d \in Nat : SameStretch(u, t, i, j, d)

\* No match begins before a place but over something that was put in.
LookedAt(u, pattern, by, upTo) ==
    \A i \in DOMAIN u : i < upTo => \A j \in EndsAt(pattern, u, i) : \E k \in i..j : u[k] = by

LEMMA ComesFromIsTransitive ==
    ASSUME NEW S, NEW t \in Seq(S), NEW u \in Seq(S), NEW v \in Seq(S), NEW by,
           ComesFrom(u, t, by), ComesFrom(v, u, by)
    PROVE  ComesFrom(v, t, by)
<1>1. ASSUME NEW i \in DOMAIN v, NEW j \in DOMAIN v, i <= j, \A k \in i..j : v[k] # by
      PROVE  \E d \in Nat : SameStretch(v, t, i, j, d)
    <2>1. PICK d \in Nat : SameStretch(v, u, i, j, d)
        BY <1>1 DEF ComesFrom
    <2>2. /\ i + d \in DOMAIN u /\ j + d \in DOMAIN u /\ i + d <= j + d
          /\ \A k \in i..j : v[k] = u[k + d]
        BY <1>1, <2>1 DEF SameStretch
    <2>3. ASSUME NEW k \in (i + d)..(j + d) PROVE u[k] # by
        <3>1. k - d \in i..j /\ (k - d) + d = k
            BY <1>1
        <3> QED
            BY <1>1, <2>2, <3>1
    <2>4. PICK e \in Nat : SameStretch(u, t, i + d, j + d, e)
        BY <2>2, <2>3 DEF ComesFrom
    <2>5. SameStretch(v, t, i, j, d + e)
        <3>1. j + (d + e) <= Len(t)
            BY <1>1, <2>4 DEF SameStretch
        <3>2. ASSUME NEW k \in i..j PROVE v[k] = t[k + (d + e)]
            <4>1. k + d \in (i + d)..(j + d) /\ (k + d) + e = k + (d + e)
                BY <1>1
            <4>2. u[k + d] = t[(k + d) + e]
                BY <2>4, <4>1 DEF SameStretch
            <4> QED
                BY <2>2, <4>1, <4>2
        <3> QED
            BY <3>1, <3>2 DEF SameStretch
    <2> QED
        BY <2>5
<1> QED
    BY <1>1 DEF ComesFrom

LEMMA CutsComeFrom ==
    ASSUME NEW S, NEW t \in Seq(S), NEW c \in Seq(S), NEW by, NEW i \in DOMAIN t,
           NEW m \in i..Len(t), IsCut(c, t, by, i, m)
    PROVE  /\ Len(c) <= Len(t) /\ i \in DOMAIN c
           /\ ComesFrom(c, t, by)
           /\ \A F : \A pattern \in Seq(F) :
                BeginsWithAWord(pattern) /\ LookedAt(t, pattern, by, i) => LookedAt(c, pattern, by, i + 1)
<1>1. /\ Len(t) \in Nat /\ i \in 1..Len(t) /\ Len(c) = Len(t) - (m - i) /\ Len(c) \in Nat
      /\ DOMAIN c = 1..Len(c) /\ DOMAIN t = 1..Len(t)
    BY DEF IsCut
<1>2. /\ c[i] = by /\ \A k \in 1..(i - 1) : c[k] = t[k]
      /\ \A k \in (i + 1)..Len(c) : c[k] = t[k + (m - i)]
    BY DEF IsCut
<1>3. Len(c) <= Len(t) /\ i \in DOMAIN c
    BY <1>1
<1>4. ASSUME NEW a \in DOMAIN c, NEW b \in DOMAIN c, a <= b, \A k \in a..b : c[k] # by
      PROVE  \E d \in Nat : SameStretch(c, t, a, b, d)
    <2>1. ~ (a <= i /\ i <= b)
        BY <1>1, <1>2, <1>4
    <2>2. CASE b < i
        <3>1. SameStretch(c, t, a, b, 0)
            BY <1>1, <1>2, <1>4, <2>2 DEF SameStretch
        <3> QED
            BY <3>1
    <2>3. CASE i < a
        <3>1. b + (m - i) <= Len(t)
            BY <1>1
        <3>2. ASSUME NEW k \in a..b PROVE c[k] = t[k + (m - i)]
            <4>1. k \in (i + 1)..Len(c)
                BY <1>1, <2>3
            <4> QED
                BY <1>2, <4>1
        <3>3. SameStretch(c, t, a, b, m - i)
            BY <3>1, <3>2 DEF SameStretch
        <3> QED
            BY <1>1, <3>3
    <2> QED
        BY <1>1, <2>1, <2>2, <2>3
<1>5. ASSUME NEW F, NEW pattern \in Seq(F), BeginsWithAWord(pattern), LookedAt(t, pattern, by, i),
             NEW a \in DOMAIN c, a < i + 1, NEW b \in EndsAt(pattern, c, a)
      PROVE  \E k \in a..b : c[k] = by
    <2>1. b \in a..Len(c)
        BY <1>5, MatchesAreNotEmpty
    <2>2. CASE i <= b
        BY <1>1, <1>2, <1>5, <2>1, <2>2
    <2>3. CASE b < i
        <3>0. ASSUME NEW k \in a..b PROVE c[k] = t[k] /\ k + 0 = k
            <4>1. k \in 1..(i - 1)
                BY <1>1, <2>1, <2>3
            <4> QED
                BY <1>2, <4>1
        <3>1. SameStretch(c, t, a, b, 0)
            <4>1. b + 0 <= Len(t)
                BY <1>1, <2>1, <2>3
            <4> QED
                BY <3>0, <4>1 DEF SameStretch
        <3>2. a \in 1..(Len(c) + 1) /\ a + 0 = a /\ b + 0 = b
            BY <1>1, <2>1
        <3>3. b + 0 \in EndsAt(pattern, t, a + 0)
            BY <1>5, <3>1, <3>2, MatchesMove
        <3>4. a \in DOMAIN t /\ a < i
            BY <1>1, <1>5, <2>1, <2>3
        <3>5. PICK k \in a..b : t[k] = by
            BY <1>5, <3>2, <3>3, <3>4 DEF LookedAt
        <3>6. c[k] = t[k]
            BY <3>0, <3>5
        <3> QED
            BY <3>5, <3>6
    <2> QED
        BY <1>1, <2>1, <2>2, <2>3
<1> QED
    BY <1>3, <1>4, <1>5 DEF ComesFrom, LookedAt

\* A step of replacing keeps a text a text, and the rest of it untouched.
PartlyReplaced(S) == [output : Seq(S), next : Nat \ {0}]
Underway(s, t, pattern, by, n) ==
    /\ Len(s.output) <= Len(t)
    /\ s.next \in 1..(Len(s.output) + 1)
    /\ s.next = n + 1 \/ s.next = Len(s.output) + 1
    /\ ComesFrom(s.output, t, by)
    /\ LookedAt(s.output, pattern, by, s.next)

LEMMA ReplaceStepIsTyped ==
    ASSUME NEW S, NEW by \in S, NEW F, NEW pattern \in Seq(F), BeginsWithAWord(pattern), NEW s \in PartlyReplaced(S)
    PROVE  ReplaceStep(pattern, by, s) \in PartlyReplaced(S)
<1>1. s.output \in Seq(S) /\ s.next \in Nat \ {0} /\ Len(s.output) \in Nat
    BY DEF PartlyReplaced
<1>2. CASE s.next > Len(s.output)
    BY <1>2 DEF ReplaceStep
<1>3. CASE ~ (s.next > Len(s.output))
    <2>1. s.next \in DOMAIN s.output
        BY <1>1, <1>3
    <2>2. EndsAt(pattern, s.output, s.next) # {} => Cut(s.output, pattern, by, s.next) \in Seq(S)
        BY <1>1, <2>1, CutsAreCuts
    <2> QED
        BY <1>1, <1>3, <2>2 DEF ReplaceStep, PartlyReplaced
<1> QED
    BY <1>2, <1>3

LEMMA ReplaceStepGoesOn ==
    ASSUME NEW S, NEW t \in Seq(S), NEW by \in S, NEW F, NEW pattern \in Seq(F), BeginsWithAWord(pattern),
           NEW s \in PartlyReplaced(S), NEW n \in Nat, Underway(s, t, pattern, by, n)
    PROVE  Underway(ReplaceStep(pattern, by, s), t, pattern, by, n + 1)
<1> DEFINE u == s.output
           i == s.next
           new == ReplaceStep(pattern, by, s)
<1>1. u \in Seq(S) /\ i \in Nat \ {0} /\ Len(u) \in Nat /\ Len(t) \in Nat
    BY DEF PartlyReplaced
<1>2. /\ Len(u) <= Len(t) /\ i \in 1..(Len(u) + 1) /\ (i = n + 1 \/ i = Len(u) + 1)
      /\ ComesFrom(u, t, by) /\ LookedAt(u, pattern, by, i)
    BY DEF Underway
<1>3. CASE i > Len(u)
    <2>1. new = s
        BY <1>3 DEF ReplaceStep
    <2>2. i = Len(u) + 1
        BY <1>1, <1>2, <1>3
    <2> QED
        BY <1>1, <1>2, <2>1, <2>2 DEF Underway
<1>4. CASE ~ (i > Len(u)) /\ EndsAt(pattern, u, i) = {}
    <2>1. new = [output |-> u, next |-> i + 1]
        BY <1>4 DEF ReplaceStep
    <2>2. LookedAt(u, pattern, by, i + 1)
        <3>1. ASSUME NEW a \in DOMAIN u, a < i + 1, NEW b \in EndsAt(pattern, u, a)
              PROVE  \E k \in a..b : u[k] = by
            <4>1. a # i
                BY <1>4, <3>1
            <4>2. a < i
                BY <1>1, <3>1, <4>1
            <4> QED
                BY <1>2, <3>1, <4>2 DEF LookedAt
        <3> QED
            BY <3>1 DEF LookedAt
    <2>3. i = n + 1
        BY <1>1, <1>2, <1>4
    <2>4. i + 1 \in 1..(Len(u) + 1) /\ i + 1 = (n + 1) + 1
        BY <1>1, <1>4, <2>3
    <2>5. new.output = u /\ new.next = i + 1
        BY <2>1
    <2> HIDE DEF u, i, new
    <2>6. Underway(new, t, pattern, by, n + 1)
        BY <1>2, <2>2, <2>4, <2>5 DEF Underway
    <2> QED
        BY <2>6 DEF new
<1>5. CASE ~ (i > Len(u)) /\ EndsAt(pattern, u, i) # {}
    <2> DEFINE c == Cut(u, pattern, by, i)
    <2>1. new = [output |-> c, next |-> i + 1]
        BY <1>5 DEF ReplaceStep
    <2>2. i \in DOMAIN u
        BY <1>1, <1>5
    <2>3. c \in Seq(S) /\ \E m \in i..Len(u) : IsCut(c, u, by, i, m)
        BY <1>1, <1>5, <2>2, CutsAreCuts
    <2>4. new.output = c /\ new.next = i + 1
        BY <2>1
    <2>5. i = n + 1
        BY <1>1, <1>2, <1>5
    <2> HIDE DEF u, i, new, c
    <2>6. /\ Len(c) <= Len(u) /\ i \in DOMAIN c
          /\ ComesFrom(c, u, by)
          /\ LookedAt(c, pattern, by, i + 1)
        BY <1>1, <1>2, <2>2, <2>3, CutsComeFrom
    <2>7. ComesFrom(c, t, by)
        BY <1>1, <1>2, <2>3, <2>6, ComesFromIsTransitive
    <2>8. Len(c) \in Nat /\ i \in 1..Len(c)
        BY <2>3, <2>6
    <2>9. Len(c) <= Len(t) /\ i + 1 \in 1..(Len(c) + 1) /\ i + 1 = (n + 1) + 1
        BY <1>1, <1>2, <2>5, <2>6, <2>8
    <2>10. Underway(new, t, pattern, by, n + 1)
        BY <2>4, <2>6, <2>7, <2>9 DEF Underway
    <2> QED
        BY <2>10 DEF new
<1> QED
    BY <1>3, <1>4, <1>5

\* What Replace leaves is of the text, and no match of the pattern is left.
LEMMA ReplacedComesFrom ==
    ASSUME NEW S, NEW t \in Seq(S), NEW by \in S, NEW F, NEW pattern \in Seq(F), BeginsWithAWord(pattern)
    PROVE  LET u == Replace(t, pattern, by)
           IN  u \in Seq(S) /\ ComesFrom(u, t, by) /\ LookedAt(u, pattern, by, Len(u) + 1)
<1> DEFINE top == Len(t)
           R == PartlyReplaced(S)
           first == [output |-> t, next |-> 1]
           Step(s) == ReplaceStep(pattern, by, s)
           next == [p \in (1..top) \X R |-> Step(p[2])]
           Right(f) == f = [n \in 0..top |-> IF n = 0 THEN first ELSE Step(f[n - 1])]
<1>1. top \in Nat
    OBVIOUS
<1>2. first \in R /\ Underway(first, t, pattern, by, 0)
    <2>1. first \in R
        BY DEF PartlyReplaced
    <2>2. ComesFrom(t, t, by)
        <3>1. ASSUME NEW i \in DOMAIN t, NEW j \in DOMAIN t PROVE SameStretch(t, t, i, j, 0)
            BY DEF SameStretch
        <3> QED
            BY <3>1 DEF ComesFrom
    <2>3. LookedAt(t, pattern, by, 1)
        BY DEF LookedAt
    <2> QED
        BY <1>1, <2>1, <2>2, <2>3 DEF Underway
<1>3. \A s \in R : Step(s) \in R
    BY ReplaceStepIsTyped
<1>3a. \A s \in R : \A n \in Nat : Underway(s, t, pattern, by, n) => Underway(Step(s), t, pattern, by, n + 1)
    BY ReplaceStepGoesOn
<1>8a. Replace(t, pattern, by) = (CHOOSE f : Right(f))[top].output
    BY DEF Replace
<1> HIDE DEF top, Step, first, R
<1>4. next \in [(1..top) \X R -> R]
    BY <1>3
<1>5. PICK f \in [0..top -> R] : Recurs(f, top, first, next)
    <2> HIDE DEF next
    <2> QED
        BY <1>1, <1>2, <1>4, RecursionIsThere
<1>6. Right(f)
    <2>1. f = [n \in 0..top |-> IF n = 0 THEN first ELSE next[<<n, f[n - 1]>>]]
        BY <1>5 DEF Recurs
    <2>2. ASSUME NEW n \in 0..top
          PROVE  (IF n = 0 THEN first ELSE next[<<n, f[n - 1]>>]) = (IF n = 0 THEN first ELSE Step(f[n - 1]))
        <3>1. n # 0 => n \in 1..top /\ n - 1 \in 0..top
            BY <1>1
        <3>2. n # 0 => f[n - 1] \in R
            BY <1>5, <3>1
        <3> QED
            BY <3>1, <3>2
    <2> HIDE DEF next
    <2> QED
        BY <2>1, <2>2
<1> DEFINE g == CHOOSE g : Right(g)
<1>7. Right(g)
    BY <1>6
<1>8. Replace(t, pattern, by) = g[top].output
    BY <1>8a
<1> HIDE DEF g
<1>9. g[0] = first /\ \A n \in 1..top : g[n] = Step(g[n - 1])
    <2>1. \A n \in 0..top : g[n] = IF n = 0 THEN first ELSE Step(g[n - 1])
        BY <1>7
    <2> QED
        BY <1>1, <2>1
<1> DEFINE T == {n \in 0..top : g[n] \in R /\ Underway(g[n], t, pattern, by, n)}
<1>10. 0 \in T
    BY <1>1, <1>2, <1>9
<1>11. ASSUME NEW n \in 1..top, n - 1 \in T PROVE n \in T
    <2>1. n - 1 \in Nat /\ (n - 1) + 1 = n
        BY <1>1
    <2>2. Underway(Step(g[n - 1]), t, pattern, by, (n - 1) + 1)
        BY <1>3a, <1>11, <2>1
    <2> QED
        BY <1>1, <1>3, <1>9, <1>11, <2>1, <2>2
<1>12. g[top] \in R /\ Underway(g[top], t, pattern, by, top)
    <2> HIDE DEF T
    <2>1. \A n \in 0..top : n \in T
        BY <1>1, <1>10, <1>11, Upwards
    <2> QED
        BY <1>1, <2>1 DEF T
<1> DEFINE u == g[top].output
<1>13. u \in Seq(S)
    BY <1>12 DEF R, PartlyReplaced
<1>14. ComesFrom(u, t, by) /\ LookedAt(u, pattern, by, Len(u) + 1)
    <2>1. /\ Len(u) <= top /\ g[top].next \in 1..(Len(u) + 1)
          /\ g[top].next = top + 1 \/ g[top].next = Len(u) + 1
          /\ ComesFrom(u, t, by) /\ LookedAt(u, pattern, by, g[top].next)
        BY <1>12 DEF Underway, top
    <2>2. Len(u) \in Nat
        BY <1>13
    <2>3. g[top].next = Len(u) + 1
        BY <1>1, <2>1, <2>2
    <2> QED
        BY <2>1, <2>3
<1> QED
    BY <1>8, <1>13, <1>14

-----------------------------------------------------------------------------
(* What sanitizing leaves.                                                 *)

Markers == {Marker(g) : g \in Range(GUARDS)}
Proper(pattern) == pattern \in Seq(Range(pattern)) /\ BeginsWithAWord(pattern)

\* A match that no marker is in is left.
IsLeftOf(pattern, u) ==
    \E i \in DOMAIN u : \E j \in EndsAt(pattern, u, i) : \A k \in i..j : u[k] \notin Markers

\* Nothing comes to be left by replacing other things by markers.
LEMMA NothingComesBack ==
    ASSUME NEW S, NEW t \in Seq(S), NEW u \in Seq(S), NEW by \in Markers, ComesFrom(u, t, by),
           NEW pattern, Proper(pattern), IsLeftOf(pattern, u)
    PROVE  IsLeftOf(pattern, t)
<1>0. PICK i \in DOMAIN u : \E j \in EndsAt(pattern, u, i) : \A k \in i..j : u[k] \notin Markers
    BY DEF IsLeftOf
<1>1. PICK j \in EndsAt(pattern, u, i) : \A k \in i..j : u[k] \notin Markers
    BY <1>0
<1>2. j \in i..Len(u) /\ i \in 1..(Len(u) + 1) /\ Len(u) \in Nat /\ Len(t) \in Nat /\ i \in Nat
    <2>1. EndsAt(pattern, u, i) \subseteq i..Len(u)
        BY MatchesAreNotEmpty DEF Proper
    <2> QED
        BY <2>1
<1>3. PICK d \in Nat : SameStretch(u, t, i, j, d)
    <2>1. j \in DOMAIN u /\ i <= j /\ \A k \in i..j : u[k] # by
        BY <1>1, <1>2
    <2> QED
        BY <2>1 DEF ComesFrom
<1>4. j + d \in EndsAt(pattern, t, i + d)
    BY <1>2, <1>3, MatchesMove DEF Proper
<1>5. i + d \in DOMAIN t
    BY <1>2, <1>3 DEF SameStretch
<1>6. ASSUME NEW k \in (i + d)..(j + d) PROVE t[k] \notin Markers
    <2>1. k - d \in i..j /\ (k - d) + d = k
        BY <1>2
    <2>2. u[k - d] = t[k]
        BY <1>3, <2>1 DEF SameStretch
    <2> QED
        BY <1>1, <2>1, <2>2
<1> QED
    BY <1>4, <1>5, <1>6 DEF IsLeftOf

LEMMA PatternsAreProper ==
    ASSUME NEW guard \in Range(GUARDS)
    PROVE  /\ guard.patterns \in Seq(Range(guard.patterns)) /\ Len(guard.patterns) \in Nat
           /\ DOMAIN guard.patterns = 1..Len(guard.patterns)
           /\ \A n \in 1..Len(guard.patterns) : Proper(guard.patterns[n])
<1>1. guard.patterns \in Seq(Range(guard.patterns))
    BY GuardsAssumption
<1>2. ASSUME NEW p \in Range(guard.patterns) PROVE Proper(p)
    BY GuardsAssumption DEF Proper, BeginsWithAWord
<1>3. \A n \in DOMAIN guard.patterns : guard.patterns[n] \in Range(guard.patterns)
    BY DEF Range
<1> QED
    BY <1>1, <1>2, <1>3

\* One pattern.
LEMMA OnePattern ==
    ASSUME NEW S, Markers \subseteq S, NEW guard \in Range(GUARDS), NEW pattern, Proper(pattern),
           NEW s, s.output \in Seq(S), s.matched \in BOOLEAN
    PROVE  LET r == SanitizeBy(guard, s, pattern)
           IN  /\ r.output \in Seq(S) /\ r.matched \in BOOLEAN
               /\ s.matched \/ Found(pattern, s.output) => r.matched
               /\ r.output # s.output => r.matched /\ guard.severity = "block"
               /\ guard.severity = "block" => ~ IsLeftOf(pattern, r.output)
               /\ \A q : Proper(q) /\ ~ IsLeftOf(q, s.output) => ~ IsLeftOf(q, r.output)
<1> DEFINE r == SanitizeBy(guard, s, pattern)
           by == Marker(guard)
           u == Replace(s.output, pattern, by)
<1>1. by \in Markers /\ by \in S
    BY DEF Markers
<1>2. u \in Seq(S) /\ ComesFrom(u, s.output, by) /\ LookedAt(u, pattern, by, Len(u) + 1)
    BY <1>1, ReplacedComesFrom DEF Proper
<1>3. CASE ~ Found(pattern, s.output)
    <2>1. r = s
        BY <1>3 DEF SanitizeBy
    <2>2. ~ IsLeftOf(pattern, s.output)
        BY <1>3 DEF Found, IsLeftOf
    <2> QED
        BY <1>3, <2>1, <2>2
<1>4. CASE Found(pattern, s.output) /\ guard.severity # "block"
    <2>1. r = [output |-> s.output, matched |-> TRUE]
        BY <1>4 DEF SanitizeBy
    <2> HIDE DEF r
    <2>2. r.output = s.output /\ r.matched
        BY <2>1
    <2> QED
        BY <1>4, <2>2 DEF r
<1>5. CASE Found(pattern, s.output) /\ guard.severity = "block"
    <2>1. r = [output |-> u, matched |-> TRUE]
        BY <1>5 DEF SanitizeBy
    <2> HIDE DEF r, u, by
    <2>2. r.output = u /\ r.matched
        BY <2>1
    <2>3. ~ IsLeftOf(pattern, u)
        <3>1. \A i \in DOMAIN u : i < Len(u) + 1
            BY <1>2
        <3> QED
            BY <1>1, <1>2, <3>1 DEF LookedAt, IsLeftOf
    <2>4. \A q : Proper(q) /\ ~ IsLeftOf(q, s.output) => ~ IsLeftOf(q, u)
        BY <1>1, <1>2, NothingComesBack
    <2> QED
        BY <1>2, <1>5, <2>2, <2>3, <2>4 DEF r
<1> QED
    BY <1>3, <1>4, <1>5

\* The patterns of a guard up to the n-th.
UpToPattern(guard, given, s, n) ==
    /\ s.matched \in BOOLEAN
    /\ \A m \in 1..n : Found(guard.patterns[m], given) => s.matched
    /\ s.output # given => s.matched /\ guard.severity = "block"
    /\ guard.severity = "block" => \A m \in 1..n : ~ IsLeftOf(guard.patterns[m], s.output)
    /\ \A q : Proper(q) /\ ~ IsLeftOf(q, given) => ~ IsLeftOf(q, s.output)

LEMMA PatternsGoOn ==
    ASSUME NEW S, Markers \subseteq S, NEW guard \in Range(GUARDS), NEW given,
           NEW n \in 1..Len(guard.patterns), NEW s, s.output \in Seq(S),
           UpToPattern(guard, given, s, n - 1)
    PROVE  UpToPattern(guard, given, SanitizeBy(guard, s, guard.patterns[n]), n)
<1> DEFINE pattern == guard.patterns[n]
           r == SanitizeBy(guard, s, pattern)
<1>1. n \in Nat /\ Len(guard.patterns) \in Nat /\ \A m \in 1..n : Proper(guard.patterns[m])
    BY PatternsAreProper
<1>2. Proper(pattern) /\ n \in Nat
    BY <1>1
<1> HIDE DEF r, pattern
<1>3. /\ s.matched \in BOOLEAN
      /\ \A m \in 1..(n - 1) : Found(guard.patterns[m], given) => s.matched
      /\ s.output # given => s.matched /\ guard.severity = "block"
      /\ guard.severity = "block" => \A m \in 1..(n - 1) : ~ IsLeftOf(guard.patterns[m], s.output)
      /\ \A q : Proper(q) /\ ~ IsLeftOf(q, given) => ~ IsLeftOf(q, s.output)
    BY DEF UpToPattern
<1>4. /\ r.output \in Seq(S) /\ r.matched \in BOOLEAN
      /\ s.matched \/ Found(pattern, s.output) => r.matched
      /\ r.output # s.output => r.matched /\ guard.severity = "block"
      /\ guard.severity = "block" => ~ IsLeftOf(pattern, r.output)
      /\ \A q : Proper(q) /\ ~ IsLeftOf(q, s.output) => ~ IsLeftOf(q, r.output)
    BY <1>2, <1>3, OnePattern DEF r
<1>5. ASSUME NEW m \in 1..n PROVE /\ Found(guard.patterns[m], given) => r.matched
                                  /\ guard.severity = "block" => ~ IsLeftOf(guard.patterns[m], r.output)
    <2>1. CASE m = n
        <3>1. Found(pattern, given) => r.matched
            BY <1>3, <1>4
        <3> QED
            BY <1>4, <2>1, <3>1 DEF pattern
    <2>2. CASE m # n
        <3>1. m \in 1..(n - 1)
            BY <1>2, <2>2
        <3> QED
            BY <1>1, <1>3, <1>4, <3>1
    <2> QED
        BY <2>1, <2>2
<1>6. r.output # given => r.matched /\ guard.severity = "block"
    BY <1>3, <1>4
<1>7. UpToPattern(guard, given, r, n)
    BY <1>3, <1>4, <1>5, <1>6 DEF UpToPattern
<1> QED
    BY <1>7 DEF r, pattern

\* What a guard makes of the output it is given and of the hits.
LEMMA OneGuard ==
    ASSUME NEW S, Markers \subseteq S, NEW guard \in Range(GUARDS), NEW I, guard.id \in I,
           NEW sofar, sofar.output \in Seq(S), sofar.hits \in Seq(I)
    PROVE  LET r == Sanitize(sofar, guard)
           IN  /\ r \in [output : Seq(S), hits : Seq(I)]
               /\ Range(sofar.hits) \subseteq Range(r.hits)
               /\ Hit(guard, sofar.output) => guard.id \in Range(r.hits)
               /\ r.output # sofar.output => guard.severity = "block" /\ guard.id \in Range(r.hits)
               /\ guard.severity = "block" => \A p \in Range(guard.patterns) : ~ IsLeftOf(p, r.output)
               /\ \A q : Proper(q) /\ ~ IsLeftOf(q, sofar.output) => ~ IsLeftOf(q, r.output)
<1> DEFINE given == sofar.output
           patterns == guard.patterns
           top == Len(patterns)
           R == [output : Seq(S), matched : BOOLEAN]
           first == [output |-> given, matched |-> FALSE]
           Step(n, s) == SanitizeBy(guard, s, patterns[n])
           next == [p \in (1..top) \X R |-> Step(p[1], p[2])]
           Right(f) == f = [n \in 0..top |-> IF n = 0 THEN first ELSE Step(n, f[n - 1])]
           g == CHOOSE g : Right(g)
           left == g[top]
           r == Sanitize(sofar, guard)
<1>1. /\ patterns \in Seq(Range(patterns)) /\ top \in Nat /\ DOMAIN patterns = 1..top
      /\ \A n \in 1..top : Proper(patterns[n])
    BY PatternsAreProper
<1>2. first \in R
    OBVIOUS
<1>3. ASSUME NEW n \in 1..top, NEW s \in R PROVE Step(n, s) \in R
    <2>1. s.output \in Seq(S) /\ s.matched \in BOOLEAN /\ Proper(patterns[n])
        BY <1>1, <1>3
    <2>2. Step(n, s).output \in Seq(S) /\ Step(n, s).matched \in BOOLEAN
        BY <2>1, OnePattern
    <2>3. Step(n, s) = s \/ \E o, b : Step(n, s) = [output |-> o, matched |-> b]
        BY DEF SanitizeBy
    <2> HIDE DEF Step
    <2> QED
        BY <2>2, <2>3
<1>4. next \in [(1..top) \X R -> R]
    BY <1>3
<1>5. r = [output |-> left.output,
           hits |-> IF left.matched \/ Spam(guard, left.output) THEN Append(sofar.hits, guard.id) ELSE sofar.hits]
    BY DEF Sanitize
<1>6. /\ \A s \in R : \A n \in 1..top :
           UpToPattern(guard, given, s, n - 1) => UpToPattern(guard, given, Step(n, s), n)
      /\ UpToPattern(guard, given, first, 0)
    <2>1. ASSUME NEW s \in R, NEW n \in 1..top, UpToPattern(guard, given, s, n - 1)
          PROVE  UpToPattern(guard, given, Step(n, s), n)
        BY <2>1, PatternsGoOn
    <2>2. UpToPattern(guard, given, first, 0)
        BY DEF UpToPattern
    <2> QED
        BY <2>1, <2>2
<1> HIDE DEF top, R, Step, first, r
<1>7. PICK f \in [0..top -> R] : Recurs(f, top, first, next)
    <2> HIDE DEF next
    <2> QED
        BY <1>1, <1>2, <1>4, RecursionIsThere
<1>8. Right(f)
    <2>1. f = [n \in 0..top |-> IF n = 0 THEN first ELSE next[<<n, f[n - 1]>>]]
        BY <1>7 DEF Recurs
    <2>2. ASSUME NEW n \in 0..top
          PROVE  (IF n = 0 THEN first ELSE next[<<n, f[n - 1]>>]) = (IF n = 0 THEN first ELSE Step(n, f[n - 1]))
        <3>1. n # 0 => n \in 1..top /\ n - 1 \in 0..top
            BY <1>1
        <3>2. n # 0 => f[n - 1] \in R
            BY <1>7, <3>1
        <3> QED
            BY <3>1, <3>2
    <2> HIDE DEF next
    <2> QED
        BY <2>1, <2>2
<1>9. Right(g)
    BY <1>8
<1> HIDE DEF g
<1>10. g[0] = first /\ \A n \in 1..top : g[n] = Step(n, g[n - 1])
    <2>1. \A n \in 0..top : g[n] = IF n = 0 THEN first ELSE Step(n, g[n - 1])
        BY <1>9
    <2> QED
        BY <1>1, <2>1
<1> DEFINE T == {n \in 0..top : g[n] \in R /\ UpToPattern(guard, given, g[n], n)}
<1>11. 0 \in T
    BY <1>1, <1>2, <1>6, <1>10
<1>12. ASSUME NEW n \in 1..top, n - 1 \in T PROVE n \in T
    <2>1. UpToPattern(guard, given, g[n - 1], n - 1) /\ g[n - 1] \in R
        BY <1>12
    <2>2. UpToPattern(guard, given, Step(n, g[n - 1]), n) /\ Step(n, g[n - 1]) \in R
        BY <1>3, <1>6, <2>1
    <2> QED
        BY <1>1, <1>10, <2>2
<1>13. left \in R /\ UpToPattern(guard, given, left, top)
    <2> HIDE DEF T
    <2>1. \A n \in 0..top : n \in T
        BY <1>1, <1>11, <1>12, Upwards
    <2> QED
        BY <1>1, <2>1 DEF T
<1> HIDE DEF left
<1>14. left.output \in Seq(S) /\ left.matched \in BOOLEAN
    BY <1>13 DEF R
<1>15. /\ \A m \in 1..top : Found(patterns[m], given) => left.matched
       /\ left.output # given => left.matched /\ guard.severity = "block"
       /\ guard.severity = "block" => \A m \in 1..top : ~ IsLeftOf(patterns[m], left.output)
       /\ \A q : Proper(q) /\ ~ IsLeftOf(q, given) => ~ IsLeftOf(q, left.output)
    BY <1>13 DEF UpToPattern
<1>16. r.output = left.output
       /\ r.hits = IF left.matched \/ Spam(guard, left.output) THEN Append(sofar.hits, guard.id) ELSE sofar.hits
    BY <1>5
<1>17. /\ Append(sofar.hits, guard.id) \in Seq(I)
       /\ Range(sofar.hits) \subseteq Range(Append(sofar.hits, guard.id))
       /\ guard.id \in Range(Append(sofar.hits, guard.id))
    <2> DEFINE h == sofar.hits
               longer == Append(h, guard.id)
    <2>1. h \in Seq(I) /\ longer \in Seq(I) /\ Len(h) \in Nat /\ Len(longer) = Len(h) + 1
        OBVIOUS
    <2>2. longer[Len(h) + 1] = guard.id /\ \A k \in 1..Len(h) : longer[k] = h[k]
        OBVIOUS
    <2>3. DOMAIN h = 1..Len(h) /\ DOMAIN longer = 1..(Len(h) + 1)
        BY <2>1
    <2> HIDE DEF h, longer
    <2>4. Range(h) \subseteq Range(longer) /\ guard.id \in Range(longer)
        BY <2>1, <2>2, <2>3 DEF Range
    <2> QED
        BY <2>1, <2>4 DEF h, longer
<1>18. r \in [output : Seq(S), hits : Seq(I)]
    BY <1>5, <1>14, <1>17
<1>19. Hit(guard, given) => left.matched \/ Spam(guard, left.output)
    <2>1. CASE Spam(guard, given)
        BY <1>15, <2>1
    <2>2. CASE \E i \in DOMAIN patterns : Found(patterns[i], given)
        BY <1>1, <1>15, <2>2
    <2> QED
        BY <2>1, <2>2 DEF Hit
<1>20. guard.severity = "block" => \A p \in Range(patterns) : ~ IsLeftOf(p, left.output)
    BY <1>1, <1>15 DEF Range
<1> QED
    BY <1>15, <1>16, <1>17, <1>18, <1>19, <1>20 DEF r


\* The guards up to the n-th.
UpToGuard(given, s, n) ==
    /\ \A m \in 1..n : GUARDS[m].severity = "block" =>
         \A p \in Range(GUARDS[m].patterns) : ~ IsLeftOf(p, s.output)
    /\ s.output # given \/ (\E m \in 1..n : GUARDS[m].severity = "block" /\ Hit(GUARDS[m], given)) =>
         \E m \in 1..n : GUARDS[m].severity = "block" /\ GUARDS[m].id \in Range(s.hits)

Sanitized(S, I) == [output : Seq(S), hits : Seq(I)]

LEMMA GuardsGoOn ==
    ASSUME NEW S, Markers \subseteq S, NEW I, \A g \in Range(GUARDS) : g.id \in I,
           NEW given, NEW n \in 1..Len(GUARDS), NEW s \in Sanitized(S, I)
    PROVE  /\ Sanitize(s, GUARDS[n]) \in Sanitized(S, I)
           /\ UpToGuard(given, s, n - 1) => UpToGuard(given, Sanitize(s, GUARDS[n]), n)
<1> DEFINE guard == GUARDS[n]
           r == Sanitize(s, guard)
<1>1. GUARDS \in Seq(Range(GUARDS)) /\ Len(GUARDS) \in Nat /\ DOMAIN GUARDS = 1..Len(GUARDS) /\ n \in Nat
    BY GuardsAssumption
<1>2. \A m \in 1..n : GUARDS[m] \in Range(GUARDS)
    BY <1>1 DEF Range
<1>3. guard \in Range(GUARDS) /\ guard.id \in I
    BY <1>1, <1>2
<1>4. s.output \in Seq(S) /\ s.hits \in Seq(I)
    BY DEF Sanitized
<1> HIDE DEF guard, r
<1>5. /\ r \in [output : Seq(S), hits : Seq(I)]
      /\ Range(s.hits) \subseteq Range(r.hits)
      /\ Hit(guard, s.output) => guard.id \in Range(r.hits)
      /\ r.output # s.output => guard.severity = "block" /\ guard.id \in Range(r.hits)
      /\ guard.severity = "block" => \A p \in Range(guard.patterns) : ~ IsLeftOf(p, r.output)
      /\ \A q : Proper(q) /\ ~ IsLeftOf(q, s.output) => ~ IsLeftOf(q, r.output)
    BY <1>3, <1>4, OneGuard DEF r
<1>6. ASSUME UpToGuard(given, s, n - 1) PROVE UpToGuard(given, r, n)
    <2>1. ASSUME NEW m \in 1..n, GUARDS[m].severity = "block", NEW p \in Range(GUARDS[m].patterns)
          PROVE  ~ IsLeftOf(p, r.output)
        <3>1. CASE m = n
            BY <1>5, <2>1, <3>1 DEF guard
        <3>2. CASE m # n
            <4>1. m \in 1..(n - 1)
                BY <1>1, <3>2
            <4>2. ~ IsLeftOf(p, s.output)
                BY <1>6, <2>1, <4>1 DEF UpToGuard
            <4>3. Proper(p)
                <5>1. GUARDS[m] \in Range(GUARDS)
                    BY <1>2
                <5> QED
                    BY <5>1, <2>1, PatternsAreProper DEF Range
            <4> QED
                BY <1>5, <4>2, <4>3
        <3> QED
            BY <3>1, <3>2
    <2>2. ASSUME NEW m \in 1..(n - 1), GUARDS[m].id \in Range(s.hits)
          PROVE  m \in 1..n /\ GUARDS[m].id \in Range(r.hits)
        BY <1>1, <1>5, <2>2
    <2>3. CASE \E m \in 1..(n - 1) : GUARDS[m].severity = "block" /\ GUARDS[m].id \in Range(s.hits)
        <3>1. \E m \in 1..n : GUARDS[m].severity = "block" /\ GUARDS[m].id \in Range(r.hits)
            BY <2>2, <2>3
        <3> QED
            BY <2>1, <3>1 DEF UpToGuard
    <2>4. CASE ~ \E m \in 1..(n - 1) : GUARDS[m].severity = "block" /\ GUARDS[m].id \in Range(s.hits)
        <3>1. /\ s.output = given
              /\ ~ \E m \in 1..(n - 1) : GUARDS[m].severity = "block" /\ Hit(GUARDS[m], given)
            BY <1>6, <2>4 DEF UpToGuard
        <3>2. n \in 1..n
            BY <1>1
        <3>3. r.output # given => \E m \in 1..n : GUARDS[m].severity = "block" /\ GUARDS[m].id \in Range(r.hits)
            BY <1>5, <3>1, <3>2 DEF guard
        <3>4. ASSUME NEW m \in 1..n, GUARDS[m].severity = "block", Hit(GUARDS[m], given)
              PROVE  GUARDS[m].id \in Range(r.hits)
            <4>1. m = n
                BY <1>1, <3>1, <3>4
            <4> QED
                BY <1>5, <3>1, <3>4, <4>1 DEF guard
        <3> QED
            BY <2>1, <3>3, <3>4 DEF UpToGuard
    <2> QED
        BY <2>3, <2>4
<1> QED
    BY <1>5, <1>6 DEF r, guard, Sanitized

\* What is made of a text by all guards.
LEMMA NothingIsLeft ==
    ASSUME NEW given \in Texts
    PROVE  UpToGuard(given, sanitizeToolOutput(given), Len(GUARDS))
<1> DEFINE S == Range(given) \cup Markers
           I == {g.id : g \in Range(GUARDS)}
           top == Len(GUARDS)
           R == Sanitized(S, I)
           first == [output |-> given, hits |-> <<>>]
           Step(n, s) == Sanitize(s, GUARDS[n])
           next == [p \in (1..top) \X R |-> Step(p[1], p[2])]
           Right(f) == f = [n \in 0..top |-> IF n = 0 THEN first ELSE Step(n, f[n - 1])]
           g == CHOOSE g : Right(g)
<1>1. top \in Nat
    BY GuardsAssumption
<1>2. first \in R
    <2>1. given \in Seq(S)
        <3>1. given \in Seq(Range(given))
            BY GuardsAssumption
        <3> QED
            BY <3>1
    <2> HIDE DEF S, I
    <2> QED
        BY <2>1 DEF Sanitized
<1>3. \A n \in 1..top : \A s \in R :
        Step(n, s) \in R /\ (UpToGuard(given, s, n - 1) => UpToGuard(given, Step(n, s), n))
    <2>1. Markers \subseteq S /\ \A h \in Range(GUARDS) : h.id \in I
        OBVIOUS
    <2> HIDE DEF S, I
    <2> QED
        BY <2>1, GuardsGoOn
<1>4. UpToGuard(given, first, 0)
    <2>1. 1..0 = {}
        OBVIOUS
    <2> QED
        BY <2>1 DEF UpToGuard
<1>5. sanitizeToolOutput(given) = g[top]
    BY DEF sanitizeToolOutput
<1> HIDE DEF top, Step, first, R
<1>6. next \in [(1..top) \X R -> R]
    BY <1>3
<1>7. PICK f \in [0..top -> R] : Recurs(f, top, first, next)
    <2> HIDE DEF next
    <2> QED
        BY <1>1, <1>2, <1>6, RecursionIsThere
<1>8. Right(f)
    <2>1. f = [n \in 0..top |-> IF n = 0 THEN first ELSE next[<<n, f[n - 1]>>]]
        BY <1>7 DEF Recurs
    <2>2. ASSUME NEW n \in 0..top
          PROVE  (IF n = 0 THEN first ELSE next[<<n, f[n - 1]>>]) = (IF n = 0 THEN first ELSE Step(n, f[n - 1]))
        <3>1. n # 0 => n \in 1..top /\ n - 1 \in 0..top
            BY <1>1
        <3>2. n # 0 => f[n - 1] \in R
            BY <1>7, <3>1
        <3> QED
            BY <3>1, <3>2
    <2> HIDE DEF next
    <2> QED
        BY <2>1, <2>2
<1>9. Right(g)
    BY <1>8
<1> HIDE DEF g
<1>10. g[0] = first /\ \A n \in 1..top : g[n] = Step(n, g[n - 1])
    <2>1. \A n \in 0..top : g[n] = IF n = 0 THEN first ELSE Step(n, g[n - 1])
        BY <1>9
    <2> QED
        BY <1>1, <2>1
<1> DEFINE T == {n \in 0..top : g[n] \in R /\ UpToGuard(given, g[n], n)}
<1>11. 0 \in T
    BY <1>1, <1>2, <1>4, <1>10
<1>12. \A n \in 1..top : n - 1 \in T => n \in T
    BY <1>1, <1>3, <1>10
<1>13. UpToGuard(given, g[top], top)
    <2> HIDE DEF T
    <2>1. \A n \in 0..top : n \in T
        BY <1>1, <1>11, <1>12, Upwards
    <2> QED
        BY <1>1, <2>1 DEF T
<1> QED
    BY <1>5, <1>13 DEF top

\* Of what a tool answered nothing is left that blocks, and what was blocked or
\* replaced is reported (sanitizeToolOutput).
LEMMA GuardrailStepsAreClean ==
    ASSUME NothingBlockedIsLeft, GuardrailNext \/ UNCHANGED guardrailVars
    PROVE  NothingBlockedIsLeft'
<1>1. CASE GuardrailNext
    <2>1. text' \in Texts /\ sanitized' = sanitizeToolOutput(text')
        BY <1>1 DEF GuardrailNext, GuardrailAfter
    <2>2. UpToGuard(text', sanitized', Len(GUARDS))
        BY <2>1, NothingIsLeft
    <2> DEFINE Blocking == {g \in DOMAIN GUARDS : GUARDS[g].severity = "block"}
    <2>3. DOMAIN GUARDS = 1..Len(GUARDS)
        BY GuardsAssumption
    <2>4. {Marker(GUARDS[g]) : g \in DOMAIN GUARDS} = Markers
        BY DEF Markers, Range
    <2>5. ASSUME NEW g \in Blocking, NEW p \in Range(GUARDS[g].patterns), NEW i \in DOMAIN sanitized'.output,
                 NEW j \in EndsAt(p, sanitized'.output, i)
          PROVE  \E k \in i..j : sanitized'.output[k] \in Markers
        <3>1. ~ IsLeftOf(p, sanitized'.output)
            BY <2>2, <2>3 DEF UpToGuard
        <3> QED
            BY <3>1 DEF IsLeftOf
    <2>6. ASSUME sanitized'.output # text' \/ validateUserInput(text').blocked # {}
          PROVE  \E g \in Blocking : GUARDS[g].id \in Range(sanitized'.hits)
        <3>1. validateUserInput(text').blocked # {} =>
                \E g \in DOMAIN GUARDS : GUARDS[g].severity = "block" /\ Hit(GUARDS[g], text')
            BY DEF validateUserInput
        <3> QED
            BY <2>2, <2>3, <2>6, <3>1 DEF UpToGuard
    <2> QED
        BY <2>4, <2>5, <2>6 DEF NothingBlockedIsLeft
<1>2. CASE UNCHANGED guardrailVars
    <2>1. text' = text /\ sanitized' = sanitized
        BY <1>2 DEF guardrailVars
    <2> QED
        BY <2>1 DEF NothingBlockedIsLeft
<1> QED
    BY <1>1, <1>2

\* Whatever a tool answers and whatever is to be blocked in it: no match of a blocking
\* pattern is left outside what was put in place of one, however the patterns overlap
\* and whatever replacing one brings together, and a text that was changed or blocks
\* is reported (sanitizeToolOutput).
THEOREM NothingBlockedIsEverLeft == GuardrailSpec => []NothingBlockedIsLeft
<1>1. GuardrailInit => NothingBlockedIsLeft
    BY DEF GuardrailInit, NothingBlockedIsLeft
<1>2. NothingBlockedIsLeft /\ [GuardrailNext]_guardrailVars => NothingBlockedIsLeft'
    BY GuardrailStepsAreClean
<1> QED
    BY <1>1, <1>2, PTL DEF GuardrailSpec

-----------------------------------------------------------------------------
(* What stands between an agent and its tools.                             *)

\* A call is read for what its commands do by themselves, governed as that, and answers
\* nothing that is blocked (the hooks of runtime.ts): the three together, which share no variable.
THEOREM ToolCallsAreAlwaysGuarded == ToolCallsSpec => []ToolCallsAreGuarded
<1> DEFINE Inv == LinesAreReadAsWritten /\ PolicyInv /\ NothingBlockedIsLeft
           vars == <<shellVars, policyVars, guardrailVars>>
<1>1. ToolCallsInit => Inv
    <2>1. ShellInit => LinesAreReadAsWritten
        BY DEF ShellInit, LinesAreReadAsWritten, SegmentsAreCommands, ChangingIsSeen
    <2>2. GuardrailInit => NothingBlockedIsLeft
        BY DEF GuardrailInit, NothingBlockedIsLeft
    <2> QED
        BY <2>1, <2>2, PolicyInvStarts DEF ToolCallsInit
<1>2. Inv /\ [ToolCallsNext]_vars => Inv'
    <2> SUFFICES ASSUME Inv, [ToolCallsNext]_vars PROVE Inv'
        OBVIOUS
    <2>1. ShellNext \/ UNCHANGED shellVars
        BY DEF ToolCallsNext
    <2>2. PolicyNext \/ UNCHANGED policyVars
        BY DEF ToolCallsNext
    <2>3. GuardrailNext \/ UNCHANGED guardrailVars
        BY DEF ToolCallsNext
    <2>4. LinesAreReadAsWritten'
        BY <2>1, ClassifyingIsRight
    <2>5. PolicyInv'
        BY <2>2, PolicyStepsKeepPolicyInv
    <2>6. NothingBlockedIsLeft'
        BY <2>3, GuardrailStepsAreClean
    <2> QED
        BY <2>4, <2>5, <2>6
<1>3. Inv => ToolCallsAreGuarded
    BY PolicyInvGoverns DEF ToolCallsAreGuarded
<1> QED
    BY <1>1, <1>2, <1>3, PTL DEF ToolCallsSpec

-----------------------------------------------------------------------------
(* Profiles and what they extend.                                          *)

\* A walk along "extends" that has met nothing twice.
IsChain(disk, chain) ==
    /\ chain \in Seq(KnownProfiles(disk)) /\ chain # <<>>
    /\ \A i, j \in DOMAIN chain : chain[i] = chain[j] => i = j
    /\ \A i \in DOMAIN chain : i + 1 \in DOMAIN chain =>
         disk[chain[i]].extends = chain[i + 1] /\ chain[i + 1] # ""
Ends(disk, chain) == disk[chain[Len(chain)]].extends = ""

LEMMA ChainsAreLists ==
    ASSUME NEW disk, NEW chain, IsChain(disk, chain)
    PROVE  /\ chain \in Seq(KnownProfiles(disk)) /\ chain # <<>>
           /\ Len(chain) \in Nat /\ Len(chain) # 0 /\ DOMAIN chain = 1..Len(chain)
           /\ \A i \in DOMAIN chain : chain[i] \in KnownProfiles(disk)
<1>1. chain \in Seq(KnownProfiles(disk)) /\ chain # <<>>
    BY DEF IsChain
<1> QED
    BY <1>1

\* A step either goes on, or stays where it ends, or is refused.
LEMMA ChainsGrow ==
    ASSUME NEW disk, NEW chain, IsChain(disk, chain)
    PROVE  \/ ChainStep(disk, chain) = <<>>
           \/ ChainStep(disk, chain) = chain /\ Ends(disk, chain)
           \/ /\ IsChain(disk, ChainStep(disk, chain)) /\ ChainStep(disk, chain)[1] = chain[1]
              /\ Len(ChainStep(disk, chain)) = Len(chain) + 1
<1> DEFINE next == disk[Last(chain)].extends
           longer == Append(chain, next)
<1>1. /\ Len(chain) \in Nat /\ Len(chain) # 0 /\ DOMAIN chain = 1..Len(chain)
      /\ Last(chain) = chain[Len(chain)]
      /\ chain \in Seq(KnownProfiles(disk))
    BY ChainsAreLists DEF Last
<1>2. CASE next = ""
    BY <1>1, <1>2 DEF ChainStep, Ends, IsChain
<1>3. CASE next # "" /\ next \in Range(chain)
    BY <1>3 DEF ChainStep, IsChain, CycleFails
<1>4. CASE next # "" /\ next \notin Range(chain) /\ next \notin KnownProfiles(disk)
    BY <1>4 DEF ChainStep, IsChain
<1>5. CASE next # "" /\ next \notin Range(chain) /\ next \in KnownProfiles(disk)
    <2>1. ChainStep(disk, chain) = longer
        BY <1>5 DEF ChainStep, IsChain
    <2>2. disk[chain[Len(chain)]].extends = next
        BY <1>1
    <2>3. \A i \in DOMAIN chain : chain[i] # next
        BY <1>5 DEF Range
    <2>4. /\ longer \in Seq(KnownProfiles(disk)) /\ longer # <<>>
          /\ Len(longer) = Len(chain) + 1 /\ DOMAIN longer = 1..(Len(chain) + 1)
          /\ longer[Len(chain) + 1] = next
          /\ \A i \in DOMAIN chain : longer[i] = chain[i]
        <3>1. next \in KnownProfiles(disk)
            BY <1>5
        <3> HIDE DEF next
        <3>2. /\ longer \in Seq(KnownProfiles(disk)) /\ longer # <<>>
              /\ Len(longer) = Len(chain) + 1
              /\ \A i \in 1..Len(chain) : longer[i] = chain[i]
              /\ longer[Len(chain) + 1] = next
            BY <1>1, <3>1, AppendProperties
        <3>3. DOMAIN longer = 1..Len(longer)
            BY <3>2
        <3> QED
            BY <1>1, <3>2, <3>3
    <2> HIDE DEF longer, next
    <2>5. ASSUME NEW i \in DOMAIN longer, NEW j \in DOMAIN longer, longer[i] = longer[j]
          PROVE  i = j
        <3>1. (i \in DOMAIN chain \/ i = Len(chain) + 1) /\ (j \in DOMAIN chain \/ j = Len(chain) + 1)
            BY <1>1, <2>4
        <3> QED
            BY <2>3, <2>4, <2>5, <3>1 DEF IsChain
    <2>6. ASSUME NEW i \in DOMAIN longer, i + 1 \in DOMAIN longer
          PROVE  disk[longer[i]].extends = longer[i + 1] /\ longer[i + 1] # ""
        <3>1. i \in DOMAIN chain /\ (i + 1 \in DOMAIN chain \/ i = Len(chain))
            BY <1>1, <2>4, <2>6
        <3>2. CASE i + 1 \in DOMAIN chain
            BY <2>4, <3>1, <3>2 DEF IsChain
        <3>3. CASE i = Len(chain)
            BY <1>5, <2>2, <2>4, <3>1, <3>3
        <3> QED
            BY <3>1, <3>2, <3>3
    <2>7. IsChain(disk, longer)
        BY <2>4, <2>5, <2>6 DEF IsChain
    <2>8. longer[1] = chain[1]
        BY <1>1, <2>4
    <2> QED
        BY <2>1, <2>4, <2>7, <2>8
<1> QED
    BY <1>2, <1>3, <1>4, <1>5

\* A chain has no more profiles than there are.
LEMMA ChainsAreShort ==
    ASSUME NEW disk, IsFiniteSet(DOMAIN disk), NEW chain, IsChain(disk, chain)
    PROVE  Len(chain) <= Cardinality(DOMAIN disk)
<1>1. DOMAIN chain = 1..Len(chain) /\ Len(chain) \in Nat
    BY ChainsAreLists
<1>2. chain \in Injection(DOMAIN chain, DOMAIN disk)
    <2>1. chain \in [DOMAIN chain -> DOMAIN disk]
        <3>1. chain = [i \in DOMAIN chain |-> chain[i]]
            BY ChainsAreLists
        <3>2. \A i \in DOMAIN chain : chain[i] \in DOMAIN disk
            BY ChainsAreLists DEF KnownProfiles
        <3> QED
            BY <3>1, <3>2
    <2> QED
        BY <2>1 DEF IsChain, Injection, IsInjective
<1>3. Cardinality(DOMAIN chain) <= Cardinality(DOMAIN disk)
    BY <1>2, FS_Injection
<1>4. Cardinality(DOMAIN chain) = Len(chain)
    BY <1>1, FS_Interval
<1> QED
    BY <1>3, <1>4

\* Steps keep a list of profiles that are there.
LEMMA StepsAreAmongTheKnown ==
    ASSUME NEW disk, NEW chain \in Seq(KnownProfiles(disk))
    PROVE  ChainStep(disk, chain) \in Seq(KnownProfiles(disk))
<1> DEFINE next == disk[Last(chain)].extends
<1>1. CASE chain = <<>> \/ next = ""
    BY <1>1 DEF ChainStep
<1>2. CASE chain # <<>> /\ next # "" /\ next \in Range(chain)
    <2>1. ChainStep(disk, chain) = <<>>
        BY <1>2 DEF ChainStep, CycleFails
    <2> QED
        BY <2>1
<1>3. CASE chain # <<>> /\ next # "" /\ next \notin Range(chain)
    <2>1. ChainStep(disk, chain) = IF next \in KnownProfiles(disk) THEN Append(chain, next) ELSE <<>>
        BY <1>3 DEF ChainStep
    <2> HIDE DEF next
    <2> QED
        BY <2>1
<1> QED
    BY <1>1, <1>2, <1>3

\* Where a chain has ended, or was refused, it stays.
LEMMA EndsAreKept ==
    ASSUME NEW disk, NEW chain, chain = <<>> \/ (IsChain(disk, chain) /\ Ends(disk, chain))
    PROVE  ChainStep(disk, chain) = chain
<1>1. CASE chain = <<>>
    BY <1>1 DEF ChainStep
<1>2. CASE IsChain(disk, chain) /\ Ends(disk, chain)
    BY <1>2 DEF ChainStep, Ends, Last
<1> QED
    BY <1>1, <1>2

\* Following is as many steps as there are profiles.
InSteps(disk, chain, after) ==
    /\ after[0] = chain
    /\ \A n \in 1..Cardinality(DOMAIN disk) : after[n] = ChainStep(disk, after[n - 1])
    /\ Follow(disk, chain) = after[Cardinality(DOMAIN disk)]

LEMMA FollowIsInSteps ==
    ASSUME NEW disk, IsFiniteSet(DOMAIN disk), NEW chain \in Seq(KnownProfiles(disk))
    PROVE  \E after : InSteps(disk, chain, after)
<1> DEFINE top == Cardinality(DOMAIN disk)
           S == Seq(KnownProfiles(disk))
           next == [p \in (1..top) \X S |-> ChainStep(disk, p[2])]
           Right(f) == f = [n \in 0..top |-> IF n = 0 THEN chain ELSE ChainStep(disk, f[n - 1])]
<1>1. top \in Nat
    BY FS_CardinalityType
<1> HIDE DEF top
<1>2. next \in [(1..top) \X S -> S]
    BY StepsAreAmongTheKnown
<1>3. PICK f \in [0..top -> S] : Recurs(f, top, chain, next)
    <2> HIDE DEF S, next
    <2>1. chain \in S
        BY DEF S
    <2> QED
        BY <1>1, <1>2, <2>1, RecursionIsThere
<1>4. Right(f)
    <2>1. f = [n \in 0..top |-> IF n = 0 THEN chain ELSE next[<<n, f[n - 1]>>]]
        BY <1>3 DEF Recurs
    <2>2. ASSUME NEW n \in 0..top
          PROVE  (IF n = 0 THEN chain ELSE next[<<n, f[n - 1]>>])
                   = (IF n = 0 THEN chain ELSE ChainStep(disk, f[n - 1]))
        <3>1. n # 0 => <<n, f[n - 1]>> \in (1..top) \X S
            BY <1>1, <1>3
        <3> HIDE DEF S
        <3> QED
            BY <3>1
    <2> HIDE DEF next
    <2> QED
        BY <2>1, <2>2
<1> DEFINE g == CHOOSE g : Right(g)
<1>5. Right(g)
    BY <1>4
<1>6. Follow(disk, chain) = g[top]
    BY DEF Follow, top
<1> HIDE DEF g
<1>7. \A n \in 0..top : g[n] = IF n = 0 THEN chain ELSE ChainStep(disk, g[n - 1])
    BY <1>5
<1>8. g[0] = chain /\ \A n \in 1..top : g[n] = ChainStep(disk, g[n - 1])
    BY <1>1, <1>7
<1> QED
    BY <1>6, <1>8 DEF InSteps, top

\* A chain that is not refused is followed to its end.
LEMMA FollowedChainsEnd ==
    ASSUME NEW disk, IsFiniteSet(DOMAIN disk), NEW id \in KnownProfiles(disk),
           Follow(disk, <<id>>) # <<>>
    PROVE  LET chain == Follow(disk, <<id>>)
           IN  IsChain(disk, chain) /\ Ends(disk, chain) /\ chain[1] = id
<1> DEFINE top == Cardinality(DOMAIN disk)
           Fine(c, n) == \/ c = <<>>
                         \/ IsChain(disk, c) /\ c[1] = id /\ (Ends(disk, c) \/ Len(c) = n + 1)
<1>0. PICK after : InSteps(disk, <<id>>, after)
    <2>1. <<id>> \in Seq(KnownProfiles(disk))
        OBVIOUS
    <2> QED
        BY <2>1, FollowIsInSteps
<1>1. /\ after[0] = <<id>>
      /\ \A n \in 1..top : after[n] = ChainStep(disk, after[n - 1])
      /\ Follow(disk, <<id>>) = after[top]
    BY <1>0 DEF InSteps
<1>2. top \in Nat
    BY FS_CardinalityType
<1> HIDE DEF top
<1> DEFINE T == {n \in 0..top : Fine(after[n], n)}
<1>3. 0 \in T
    <2>1. IsChain(disk, <<id>>)
        <3> DEFINE c == <<id>>
        <3>1. c \in Seq(KnownProfiles(disk)) /\ c # <<>> /\ DOMAIN c = {1}
            OBVIOUS
        <3> HIDE DEF c
        <3>2. IsChain(disk, c)
            BY <3>1 DEF IsChain
        <3> QED
            BY <3>2 DEF c
    <2> QED
        BY <1>1, <1>2, <2>1
<1>4. ASSUME NEW n \in 1..top, n - 1 \in T PROVE n \in T
    <2> DEFINE c == after[n - 1]
    <2>1. Fine(c, n - 1) /\ after[n] = ChainStep(disk, c)
        BY <1>1, <1>4
    <2> HIDE DEF c
    <2>2. CASE c = <<>> \/ (IsChain(disk, c) /\ Ends(disk, c))
        BY <1>2, <2>1, <2>2, EndsAreKept
    <2>3. CASE IsChain(disk, c) /\ ~ Ends(disk, c)
        <3>1. c # <<>>
            BY <2>3, ChainsAreLists
        <3>2. c[1] = id /\ Len(c) = (n - 1) + 1
            BY <2>1, <2>3, <3>1
        <3>3. \/ after[n] = <<>>
              \/ IsChain(disk, after[n]) /\ after[n][1] = id /\ Len(after[n]) = n + 1
            BY <2>1, <2>3, <3>2, ChainsGrow
        <3> QED
            BY <1>2, <3>3
    <2> QED
        BY <2>1, <2>2, <2>3
<1>5. Fine(after[top], top)
    <2> HIDE DEF T
    <2>1. \A n \in 0..top : n \in T
        BY <1>2, <1>3, <1>4, Upwards
    <2> QED
        BY <1>2, <2>1 DEF T
<1>6. IsChain(disk, after[top]) => Len(after[top]) <= top
    BY ChainsAreShort DEF top
<1> QED
    BY <1>1, <1>2, <1>5, <1>6

\* What a profile of a chain extends is what comes after it.
LEMMA AboveIsTheRest ==
    ASSUME NEW disk, NEW chain, IsChain(disk, chain), Ends(disk, chain), NEW i \in DOMAIN chain
    PROVE  Above(disk, chain[i]) = {chain[j] : j \in (i + 1)..Len(chain)}
<1> DEFINE names == DOMAIN disk \union {disk[p].extends : p \in DOMAIN disk}
           rest == {chain[j] : j \in (i + 1)..Len(chain)}
           Closed(ids) == \A p \in ids \union {chain[i]} : Extended(disk, p) \subseteq ids
<1>1. /\ Len(chain) \in Nat /\ DOMAIN chain = 1..Len(chain) /\ i \in 1..Len(chain)
      /\ \A j \in DOMAIN chain : chain[j] \in KnownProfiles(disk) /\ chain[j] \in names
    BY ChainsAreLists DEF KnownProfiles
<1>2. Above(disk, chain[i]) = {a \in names : \A ids \in SUBSET names : Closed(ids) => a \in ids}
    BY DEF Above
<1>3. \A j \in DOMAIN chain : Extended(disk, chain[j]) =
          IF j + 1 \in DOMAIN chain THEN {chain[j + 1]} ELSE {}
    <2> SUFFICES ASSUME NEW j \in DOMAIN chain
                 PROVE  Extended(disk, chain[j]) = IF j + 1 \in DOMAIN chain THEN {chain[j + 1]} ELSE {}
        OBVIOUS
    <2>1. CASE j + 1 \in DOMAIN chain
        BY <1>1, <2>1 DEF Extended, IsChain
    <2>2. CASE j + 1 \notin DOMAIN chain
        <3>1. j = Len(chain)
            BY <1>1, <2>2
        <3> QED
            BY <1>1, <2>2, <3>1 DEF Extended, Ends
    <2> QED
        BY <2>1, <2>2
<1> HIDE DEF names
<1>4. rest \in SUBSET names
    BY <1>1
<1>5. Closed(rest)
    <2> SUFFICES ASSUME NEW p \in rest \union {chain[i]} PROVE Extended(disk, p) \subseteq rest
        OBVIOUS
    <2>1. PICK j \in i..Len(chain) : p = chain[j]
        BY <1>1
    <2>2. j \in DOMAIN chain
        BY <1>1
    <2>3. j + 1 \in DOMAIN chain => j + 1 \in (i + 1)..Len(chain)
        BY <1>1
    <2> QED
        BY <1>3, <2>1, <2>2, <2>3
<1>6. ASSUME NEW ids \in SUBSET names, Closed(ids) PROVE rest \subseteq ids
    <2> DEFINE top == Len(chain) - i
               T == {n \in 0..top : n = 0 \/ chain[i + n] \in ids}
    <2>1. top \in Nat
        BY <1>1
    <2>2. 0 \in T
        BY <2>1
    <2>3. ASSUME NEW n \in 1..top, n - 1 \in T PROVE n \in T
        <3>1. i + (n - 1) \in DOMAIN chain /\ (i + (n - 1)) + 1 = i + n /\ i + n \in DOMAIN chain
            BY <1>1
        <3>2. chain[i + (n - 1)] \in ids \union {chain[i]}
            BY <1>1, <2>3
        <3>3. Extended(disk, chain[i + (n - 1)]) = {chain[i + n]}
            BY <1>3, <3>1
        <3> QED
            BY <1>6, <3>2, <3>3
    <2> HIDE DEF T
    <2>4. \A n \in 0..top : n \in T
        BY <2>1, <2>2, <2>3, Upwards
    <2> SUFFICES ASSUME NEW j \in (i + 1)..Len(chain) PROVE chain[j] \in ids
        OBVIOUS
    <2>5. j - i \in 0..top /\ i + (j - i) = j /\ j - i # 0
        BY <1>1
    <2>6. j - i \in T
        BY <2>4, <2>5
    <2> QED
        BY <2>5, <2>6 DEF T
<1> HIDE DEF rest, Closed
<1>7. rest \subseteq Above(disk, chain[i])
    BY <1>2, <1>4, <1>6
<1>8. Above(disk, chain[i]) \subseteq rest
    BY <1>2, <1>4, <1>5
<1>9. Above(disk, chain[i]) = rest
    BY <1>7, <1>8
<1> QED
    BY <1>9 DEF rest

\* A profile whose chain is not refused is whole.
LEMMA FollowedIsWhole ==
    ASSUME NEW disk, IsFiniteSet(DOMAIN disk), NEW id, profileChain(disk, id) # <<>>
    PROVE  /\ IsChain(disk, profileChain(disk, id))
           /\ {id} \union Above(disk, id) = Range(profileChain(disk, id))
           /\ Whole(disk, id) /\ \A p \in KnownProfiles(disk) : disk[p].json = "ok"
<1> DEFINE chain == profileChain(disk, id)
<1>1. /\ id \in KnownProfiles(disk) /\ \A p \in KnownProfiles(disk) : disk[p].json = "ok"
      /\ chain = Follow(disk, <<id>>)
    BY DEF profileChain
<1>2. IsChain(disk, chain) /\ Ends(disk, chain) /\ chain[1] = id
    BY <1>1, FollowedChainsEnd
<1> HIDE DEF chain
<1>3. Len(chain) \in Nat /\ Len(chain) # 0 /\ DOMAIN chain = 1..Len(chain) /\ 1 \in DOMAIN chain
    BY <1>2, ChainsAreLists
<1>4. Above(disk, id) = {chain[j] : j \in 2..Len(chain)}
    BY <1>2, <1>3, AboveIsTheRest
<1>5. {id} \union Above(disk, id) = {chain[j] : j \in 1..Len(chain)}
    BY <1>2, <1>3, <1>4
<1>6. Whole(disk, id)
    <2> SUFFICES ASSUME NEW p \in Above(disk, id) \union {id}
                 PROVE  p \in KnownProfiles(disk) /\ p \notin Above(disk, p)
        BY DEF Whole
    <2>1. PICK j \in 1..Len(chain) : p = chain[j]
        BY <1>5
    <2>2. Above(disk, p) = {chain[k] : k \in (j + 1)..Len(chain)}
        BY <1>2, <1>3, <2>1, AboveIsTheRest
    <2>3. \A k \in (j + 1)..Len(chain) : k \in DOMAIN chain /\ k # j
        BY <1>3
    <2> QED
        BY <1>2, <1>3, <2>1, <2>2, <2>3, ChainsAreLists DEF IsChain
<1>7. {id} \union Above(disk, id) = Range(chain)
    BY <1>3, <1>5 DEF Range
<1> QED
    BY <1>1, <1>2, <1>6, <1>7 DEF chain

-----------------------------------------------------------------------------
(* Edges of schemas that are merged.                                       *)

\* How the edges between two stages are gathered one by one.
Gathered(E, edges, pair, upTo) ==
    /\ upTo \in [0..Len(edges) -> Seq(E)]
    /\ upTo[0] = <<>>
    /\ \A i \in 1..Len(edges) :
         upTo[i] = IF Pair(edges[i]) = pair THEN Append(upTo[i - 1], edges[i]) ELSE upTo[i - 1]
    /\ EdgesOf(edges, pair) = upTo[Len(edges)]

LEMMA EdgesAreGathered ==
    ASSUME NEW E, NEW edges \in Seq(E), NEW pair
    PROVE  \E upTo : Gathered(E, edges, pair, upTo)
<1> DEFINE top == Len(edges)
           S == Seq(E)
           One(i, sofar) == IF Pair(edges[i]) = pair THEN Append(sofar, edges[i]) ELSE sofar
           next == [p \in (1..top) \X S |-> One(p[1], p[2])]
           Right(f) == f = [i \in 0..top |-> IF i = 0 THEN <<>> ELSE One(i, f[i - 1])]
<1>1. top \in Nat /\ <<>> \in S
    OBVIOUS
<1>2. \A i \in 1..top, sofar \in S : One(i, sofar) \in S
    <2>1. \A i \in 1..top : edges[i] \in E
        OBVIOUS
    <2> QED
        BY <2>1
<1> HIDE DEF top, S, One
<1>3. next \in [(1..top) \X S -> S]
    BY <1>2
<1>4. PICK f \in [0..top -> S] : Recurs(f, top, <<>>, next)
    <2> HIDE DEF next
    <2> QED
        BY <1>1, <1>3, RecursionIsThere
<1>5. Right(f)
    <2>1. f = [i \in 0..top |-> IF i = 0 THEN <<>> ELSE next[<<i, f[i - 1]>>]]
        BY <1>4 DEF Recurs
    <2>2. ASSUME NEW i \in 0..top
          PROVE  (IF i = 0 THEN <<>> ELSE next[<<i, f[i - 1]>>]) = (IF i = 0 THEN <<>> ELSE One(i, f[i - 1]))
        <3>1. i # 0 => <<i, f[i - 1]>> \in (1..top) \X S
            BY <1>1, <1>4
        <3> QED
            BY <3>1
    <2> HIDE DEF next
    <2> QED
        BY <2>1, <2>2
<1> DEFINE g == CHOOSE g : Right(g)
<1>6. Right(g)
    BY <1>5
<1>7. EdgesOf(edges, pair) = g[top]
    BY DEF EdgesOf, top, One
<1> HIDE DEF g
<1>8. \A i \in 0..top : g[i] = IF i = 0 THEN <<>> ELSE One(i, g[i - 1])
    BY <1>6
<1>9. g[0] = <<>> /\ \A i \in 1..top : g[i] = One(i, g[i - 1])
    BY <1>1, <1>8
<1>10. g \in [0..top -> S]
    <2> DEFINE T == {i \in 0..top : g[i] \in S}
    <2>1. 0 \in T
        BY <1>1, <1>9
    <2>2. \A i \in 1..top : i - 1 \in T => i \in T
        BY <1>1, <1>2, <1>9
    <2>3. \A i \in 0..top : i \in T
        <3> HIDE DEF T
        <3> QED
            BY <1>1, <2>1, <2>2, Upwards
    <2>4. g = [i \in 0..top |-> g[i]]
        BY <1>6
    <2> QED
        BY <2>3, <2>4
<1> QED
    BY <1>7, <1>9, <1>10 DEF Gathered, top, S, One

\* They are those of the pair.
LEMMA EdgesAreOfThePair ==
    ASSUME NEW E, NEW edges \in Seq(E), NEW pair
    PROVE  /\ EdgesOf(edges, pair) \in Seq(E)
           /\ Range(EdgesOf(edges, pair)) = {e \in Range(edges) : Pair(e) = pair}
           /\ EdgesOf(edges, pair) = <<>> <=> \A e \in Range(edges) : Pair(e) # pair
<1> DEFINE top == Len(edges)
<1>0. PICK upTo : Gathered(E, edges, pair, upTo)
    BY EdgesAreGathered
<1>1. /\ upTo \in [0..top -> Seq(E)] /\ upTo[0] = <<>>
      /\ \A i \in 1..top :
           upTo[i] = IF Pair(edges[i]) = pair THEN Append(upTo[i - 1], edges[i]) ELSE upTo[i - 1]
      /\ EdgesOf(edges, pair) = upTo[top]
    BY <1>0 DEF Gathered
<1>2. top \in Nat /\ DOMAIN edges = 1..top /\ \A i \in 1..top : edges[i] \in E
    OBVIOUS
<1> HIDE DEF top
<1> DEFINE Of(n) == {edges[i] : i \in {j \in 1..n : Pair(edges[j]) = pair}}
           T == {n \in 0..top : Range(upTo[n]) = Of(n)}
<1>3. 0 \in T
    <2>1. Range(<<>>) = {} /\ Of(0) = {}
        BY DEF Range
    <2> QED
        BY <1>1, <1>2, <2>1
<1>4. ASSUME NEW n \in 1..top, n - 1 \in T PROVE n \in T
    <2>1. upTo[n - 1] \in Seq(E) /\ edges[n] \in E /\ Range(upTo[n - 1]) = Of(n - 1)
        BY <1>1, <1>2, <1>4
    <2>2. CASE Pair(edges[n]) = pair
        <3>1. Range(Append(upTo[n - 1], edges[n])) = Range(upTo[n - 1]) \union {edges[n]}
            <4> DEFINE s == upTo[n - 1]
                       t == Append(s, edges[n])
            <4>1. /\ t \in Seq(E) /\ Len(t) = Len(s) + 1 /\ t[Len(s) + 1] = edges[n]
                  /\ \A i \in 1..Len(s) : t[i] = s[i]
                BY <2>1, AppendProperties
            <4>2. s \in Seq(E) /\ Len(s) \in Nat /\ DOMAIN s = 1..Len(s) /\ DOMAIN t = 1..(Len(s) + 1)
                BY <2>1, <4>1
            <4> HIDE DEF s, t
            <4>3. Range(t) = Range(s) \union {edges[n]}
                BY <4>1, <4>2 DEF Range
            <4> QED
                BY <4>3 DEF s, t
        <3>2. Of(n) = Of(n - 1) \union {edges[n]}
            <4>1. {j \in 1..n : Pair(edges[j]) = pair} = {j \in 1..(n - 1) : Pair(edges[j]) = pair} \union {n}
                BY <1>2, <2>2
            <4> QED
                BY <4>1
        <3>3. upTo[n] = Append(upTo[n - 1], edges[n])
            BY <1>1, <2>2
        <3> HIDE DEF Of
        <3>4. Range(upTo[n]) = Of(n)
            BY <2>1, <3>1, <3>2, <3>3
        <3> QED
            BY <1>2, <3>4
    <2>3. CASE Pair(edges[n]) # pair
        <3>1. {j \in 1..n : Pair(edges[j]) = pair} = {j \in 1..(n - 1) : Pair(edges[j]) = pair}
            BY <1>2, <2>3
        <3>2. Of(n) = Of(n - 1)
            BY <3>1
        <3>3. upTo[n] = upTo[n - 1]
            BY <1>1, <2>3
        <3> HIDE DEF Of
        <3>4. Range(upTo[n]) = Of(n)
            BY <2>1, <3>2, <3>3
        <3> QED
            BY <1>2, <3>4
    <2> QED
        BY <2>2, <2>3
<1>5. top \in T
    <2> HIDE DEF T
    <2>1. \A n \in 0..top : n \in T
        BY <1>2, <1>3, <1>4, Upwards
    <2> QED
        BY <1>2, <2>1
<1>6. Range(EdgesOf(edges, pair)) = {e \in Range(edges) : Pair(e) = pair}
    <2>1. Range(upTo[top]) = Of(top)
        BY <1>5
    <2>2. Of(top) = {e \in Range(edges) : Pair(e) = pair}
        <3> HIDE DEF T
        <3> QED
            BY <1>2 DEF Range
    <2> HIDE DEF Of, T
    <2> QED
        BY <1>1, <2>1, <2>2
<1>7. EdgesOf(edges, pair) \in Seq(E)
    BY <1>1, <1>2
<1>8. EdgesOf(edges, pair) = <<>> <=> Range(EdgesOf(edges, pair)) = {}
    <2> DEFINE s == EdgesOf(edges, pair)
    <2>1. s \in Seq(E) /\ Len(s) \in Nat /\ DOMAIN s = 1..Len(s)
        BY <1>7
    <2> HIDE DEF s
    <2>2. s = <<>> <=> Range(s) = {}
        <3>1. CASE Len(s) = 0
            BY <2>1, <3>1 DEF Range
        <3>2. CASE Len(s) # 0
            <4>1. s[1] \in Range(s) /\ s # <<>>
                BY <2>1, <3>2 DEF Range
            <4> QED
                BY <4>1
        <3> QED
            BY <3>1, <3>2
    <2> QED
        BY <2>2 DEF s
<1> QED
    BY <1>6, <1>7, <1>8

\* One list and then another.
Joined(s, t) == s \o t

\* What is appended to the second of two lists is appended to both.
LEMMA AppendGoesLast ==
    ASSUME NEW E, NEW s \in Seq(E), NEW t \in Seq(E), NEW e \in E
    PROVE  Append(Joined(s, t), e) = Joined(s, Append(t, e))
<1> DEFINE w == <<e>>
<1>1. w \in Seq(E) /\ s \o t \in Seq(E)
    BY ConcatProperties
<1>2. Append(s \o t, e) = (s \o t) \o w /\ Append(t, e) = t \o w
    BY <1>1, AppendIsConcat
<1> HIDE DEF w
<1>3. (s \o t) \o w = s \o (t \o w)
    BY <1>1, ConcatAssociative
<1> QED
    BY <1>2, <1>3 DEF Joined

\* Those of two lists, one after the other.
LEMMA EdgesOfBoth ==
    ASSUME NEW E, NEW s \in Seq(E), NEW t \in Seq(E), NEW pair
    PROVE  EdgesOf(s \o t, pair) = EdgesOf(s, pair) \o EdgesOf(t, pair)
<1> DEFINE st == s \o t
<1>1. /\ st \in Seq(E) /\ Len(st) = Len(s) + Len(t) /\ Len(s) \in Nat /\ Len(t) \in Nat
      /\ \A i \in 1..Len(s) : st[i] = s[i]
      /\ \A i \in 1..Len(t) : st[Len(s) + i] = t[i]
    <2>1. /\ st \in Seq(E) /\ Len(st) = Len(s) + Len(t)
          /\ \A i \in 1..(Len(s) + Len(t)) : st[i] = IF i <= Len(s) THEN s[i] ELSE t[i - Len(s)]
        BY ConcatProperties
    <2>2. Len(s) \in Nat /\ Len(t) \in Nat
        OBVIOUS
    <2> HIDE DEF st
    <2>3. ASSUME NEW i \in 1..Len(t) PROVE st[Len(s) + i] = t[i]
        <3>1. Len(s) + i \in 1..(Len(s) + Len(t)) /\ ~ (Len(s) + i <= Len(s)) /\ (Len(s) + i) - Len(s) = i
            BY <2>2
        <3> QED
            BY <2>1, <3>1
    <2> QED
        BY <2>1, <2>2, <2>3
<1> HIDE DEF st
<1>8. PICK f : Gathered(E, st, pair, f)
    BY <1>1, EdgesAreGathered
<1>2. /\ f \in [0..Len(st) -> Seq(E)] /\ f[0] = <<>>
      /\ \A i \in 1..Len(st) :
           f[i] = IF Pair(st[i]) = pair THEN Append(f[i - 1], st[i]) ELSE f[i - 1]
      /\ EdgesOf(st, pair) = f[Len(st)]
    BY <1>8 DEF Gathered
<1>9. PICK g : Gathered(E, s, pair, g)
    BY EdgesAreGathered
<1>3. /\ g \in [0..Len(s) -> Seq(E)] /\ g[0] = <<>>
      /\ \A i \in 1..Len(s) :
           g[i] = IF Pair(s[i]) = pair THEN Append(g[i - 1], s[i]) ELSE g[i - 1]
      /\ EdgesOf(s, pair) = g[Len(s)]
    BY <1>9 DEF Gathered
<1>10. PICK h : Gathered(E, t, pair, h)
    BY EdgesAreGathered
<1>4. /\ h \in [0..Len(t) -> Seq(E)] /\ h[0] = <<>>
      /\ \A i \in 1..Len(t) :
           h[i] = IF Pair(t[i]) = pair THEN Append(h[i - 1], t[i]) ELSE h[i - 1]
      /\ EdgesOf(t, pair) = h[Len(t)]
    BY <1>10 DEF Gathered
<1>5. f[Len(s)] = g[Len(s)]
    <2> DEFINE T == {n \in 0..Len(s) : f[n] = g[n]}
    <2>1. 0 \in T
        BY <1>1, <1>2, <1>3
    <2>2. ASSUME NEW n \in 1..Len(s), n - 1 \in T PROVE n \in T
        <3>1. n \in 1..Len(st) /\ st[n] = s[n] /\ f[n - 1] = g[n - 1]
            BY <1>1, <2>2
        <3> QED
            BY <1>1, <1>2, <1>3, <3>1
    <2> HIDE DEF T
    <2>3. \A n \in 0..Len(s) : n \in T
        BY <1>1, <2>1, <2>2, Upwards
    <2> QED
        BY <1>1, <2>3 DEF T
<1> DEFINE before == g[Len(s)]
<1>6. before \in Seq(E)
    <2>1. Len(s) \in 0..Len(s)
        BY <1>1
    <2> QED
        BY <1>3, <2>1
<1> HIDE DEF before
<1>7. f[Len(s) + Len(t)] = before \o h[Len(t)]
    <2> DEFINE T == {n \in 0..Len(t) : f[Len(s) + n] = before \o h[n]}
    <2>1. 0 \in T
        <3>1. before \o <<>> = before /\ Len(s) + 0 = Len(s)
            BY <1>1, <1>6, ConcatEmptySeq
        <3>2. f[Len(s) + 0] = before /\ h[0] = <<>>
            BY <1>4, <1>5, <3>1 DEF before
        <3>3. f[Len(s) + 0] = before \o h[0]
            BY <3>1, <3>2
        <3> QED
            BY <1>1, <3>3
    <2>2. ASSUME NEW n \in 1..Len(t), n - 1 \in T PROVE n \in T
        <3>1. /\ Len(s) + n \in 1..Len(st) /\ st[Len(s) + n] = t[n] /\ (Len(s) + n) - 1 = Len(s) + (n - 1)
              /\ f[Len(s) + (n - 1)] = before \o h[n - 1]
            BY <1>1, <2>2
        <3>2. h[n - 1] \in Seq(E) /\ t[n] \in E
            <4>1. n - 1 \in 0..Len(t)
                BY <1>1
            <4> QED
                BY <1>4, <4>1
        <3>3. Append(before \o h[n - 1], t[n]) = before \o Append(h[n - 1], t[n])
            <4> DEFINE u == h[n - 1]
                       e == t[n]
            <4>1. u \in Seq(E) /\ e \in E
                BY <3>2
            <4> HIDE DEF u, e
            <4>2. Append(Joined(before, u), e) = Joined(before, Append(u, e))
                BY <1>6, <4>1, AppendGoesLast
            <4> QED
                BY <4>2 DEF Joined, u, e
        <3>4. f[Len(s) + n] = IF Pair(t[n]) = pair THEN Append(f[Len(s) + (n - 1)], t[n]) ELSE f[Len(s) + (n - 1)]
            BY <1>2, <3>1
        <3>5. h[n] = IF Pair(t[n]) = pair THEN Append(h[n - 1], t[n]) ELSE h[n - 1]
            BY <1>4
        <3>6. f[Len(s) + n] = before \o h[n]
            BY <3>1, <3>3, <3>4, <3>5
        <3> QED
            BY <3>6
    <2> HIDE DEF T
    <2>3. \A n \in 0..Len(t) : n \in T
        BY <1>1, <2>1, <2>2, Upwards
    <2> QED
        BY <1>1, <2>3 DEF T
<1> QED
    BY <1>1, <1>2, <1>3, <1>4, <1>7 DEF before, st

LEMMA EdgesOfJoined ==
    ASSUME NEW E
    PROVE  \A s, t \in Seq(E) : \A pair : EdgesOf(Joined(s, t), pair) = Joined(EdgesOf(s, pair), EdgesOf(t, pair))
<1> SUFFICES ASSUME NEW s \in Seq(E), NEW t \in Seq(E), NEW pair
             PROVE  EdgesOf(Joined(s, t), pair) = Joined(EdgesOf(s, pair), EdgesOf(t, pair))
    OBVIOUS
<1>1. EdgesOf(s \o t, pair) = EdgesOf(s, pair) \o EdgesOf(t, pair)
    BY EdgesOfBoth
<1> QED
    BY <1>1 DEF Joined

\* A list of edges that are all of one pair.
LEMMA EdgesOfAGroup ==
    ASSUME NEW E, NEW edges \in Seq(E), NEW own, NEW pair, \A e \in Range(edges) : Pair(e) = own
    PROVE  EdgesOf(edges, pair) = IF pair = own THEN edges ELSE <<>>
<1>1. CASE pair # own
    BY <1>1, EdgesAreOfThePair
<1>2. CASE pair = own
    <2> DEFINE top == Len(edges)
    <2>0. PICK upTo : Gathered(E, edges, pair, upTo)
        BY EdgesAreGathered
    <2>1. /\ upTo \in [0..top -> Seq(E)] /\ upTo[0] = <<>>
          /\ \A i \in 1..top :
               upTo[i] = IF Pair(edges[i]) = pair THEN Append(upTo[i - 1], edges[i]) ELSE upTo[i - 1]
          /\ EdgesOf(edges, pair) = upTo[top]
        BY <2>0 DEF Gathered
    <2>2. top \in Nat /\ \A i \in 1..top : edges[i] \in E /\ Pair(edges[i]) = pair
        BY <1>2 DEF Range
    <2> DEFINE T == {n \in 0..top : Len(upTo[n]) = n /\ \A i \in 1..n : upTo[n][i] = edges[i]}
    <2> HIDE DEF top
    <2>3. 0 \in T
        <3>1. Len(upTo[0]) = 0 /\ 1..0 = {}
            BY <2>1
        <3> QED
            BY <2>2, <3>1
    <2>4. ASSUME NEW n \in 1..top, n - 1 \in T PROVE n \in T
        <3> DEFINE s == upTo[n - 1]
                   e == edges[n]
        <3>1. s \in Seq(E) /\ e \in E /\ upTo[n] = Append(s, e)
            <4>1. n - 1 \in 0..top
                BY <2>2
            <4> QED
                BY <2>1, <2>2, <4>1
        <3>2. Len(s) = n - 1 /\ \A i \in 1..(n - 1) : s[i] = edges[i]
            BY <2>4
        <3> HIDE DEF s, e
        <3>3. /\ Len(Append(s, e)) = Len(s) + 1 /\ Append(s, e)[Len(s) + 1] = e
              /\ \A i \in 1..Len(s) : Append(s, e)[i] = s[i]
            BY <3>1, AppendProperties
        <3>4. Len(upTo[n]) = n /\ upTo[n][n] = edges[n] /\ \A i \in 1..(n - 1) : upTo[n][i] = edges[i]
            BY <2>2, <3>1, <3>2, <3>3 DEF e
        <3>5. \A i \in 1..n : i = n \/ i \in 1..(n - 1)
            BY <2>2
        <3> QED
            BY <2>2, <3>4, <3>5
    <2>5. top \in T
        <3> HIDE DEF T
        <3>1. \A n \in 0..top : n \in T
            BY <2>2, <2>3, <2>4, Upwards
        <3> QED
            BY <2>2, <3>1
    <2>6. upTo[top] \in Seq(E) /\ Len(upTo[top]) = Len(edges) /\ \A i \in 1..Len(edges) : upTo[top][i] = edges[i]
        BY <2>1, <2>2, <2>5 DEF top
    <2>7. upTo[top] = edges
        BY <2>6, SeqEqual
    <2> QED
        BY <1>2, <2>1, <2>7
<1> QED
    BY <1>1, <1>2

\* Every pair of some edges is in order once.
LEMMA PairsAreThoseOfTheEdges ==
    ASSUME NEW E, NEW edges \in Seq(E)
    PROVE  LET pairs == PairsInOrder(edges)
           IN  /\ Len(pairs) \in Nat /\ DOMAIN pairs = 1..Len(pairs)
               /\ \A i, j \in DOMAIN pairs : pairs[i] = pairs[j] => i = j
               /\ Range(pairs) = {Pair(e) : e \in Range(edges)}
<1> DEFINE top == Len(edges)
           all == {Pair(e) : e \in E}
           S == Seq(all)
           One(i, sofar) == IF Pair(edges[i]) \in Range(sofar) THEN sofar ELSE Append(sofar, Pair(edges[i]))
           next == [p \in (1..top) \X S |-> One(p[1], p[2])]
           Right(f) == f = [i \in 0..top |-> IF i = 0 THEN <<>> ELSE One(i, f[i - 1])]
<1>1. top \in Nat /\ <<>> \in S
    OBVIOUS
<1>2. /\ \A i \in 1..top : edges[i] \in E /\ Pair(edges[i]) \in all
      /\ DOMAIN edges = 1..top
    <2>1. \A i \in 1..top : edges[i] \in E
        OBVIOUS
    <2> QED
        BY <2>1
<1> HIDE DEF all
<1>3. \A i \in 1..top, sofar \in S : One(i, sofar) \in S
    BY <1>2
<1> HIDE DEF top, S, One
<1>4. next \in [(1..top) \X S -> S]
    BY <1>3
<1>5. PICK f \in [0..top -> S] : Recurs(f, top, <<>>, next)
    <2> HIDE DEF next
    <2> QED
        BY <1>1, <1>4, RecursionIsThere
<1>6. Right(f)
    <2>1. f = [i \in 0..top |-> IF i = 0 THEN <<>> ELSE next[<<i, f[i - 1]>>]]
        BY <1>5 DEF Recurs
    <2>2. ASSUME NEW i \in 0..top
          PROVE  (IF i = 0 THEN <<>> ELSE next[<<i, f[i - 1]>>]) = (IF i = 0 THEN <<>> ELSE One(i, f[i - 1]))
        <3>1. i # 0 => <<i, f[i - 1]>> \in (1..top) \X S
            BY <1>1, <1>5
        <3> QED
            BY <3>1
    <2> HIDE DEF next
    <2> QED
        BY <2>1, <2>2
<1> DEFINE g == CHOOSE g : Right(g)
<1>7. Right(g)
    BY <1>6
<1>8. PairsInOrder(edges) = g[top]
    BY DEF PairsInOrder, top, One
<1> HIDE DEF g
<1>9. \A i \in 0..top : g[i] = IF i = 0 THEN <<>> ELSE One(i, g[i - 1])
    BY <1>7
<1>10. g[0] = <<>> /\ \A i \in 1..top : g[i] = One(i, g[i - 1])
    BY <1>1, <1>9
<1> DEFINE Fine(pairs, n) == /\ pairs \in S
                             /\ \A i, j \in DOMAIN pairs : pairs[i] = pairs[j] => i = j
                             /\ Range(pairs) = {Pair(edges[i]) : i \in 1..n}
           T == {n \in 0..top : Fine(g[n], n)}
<1>11. 0 \in T
    <2>1. Range(<<>>) = {} /\ 1..0 = {} /\ DOMAIN <<>> = {}
        BY DEF Range
    <2> QED
        BY <1>1, <1>10, <2>1
<1>12. ASSUME NEW n \in 1..top, n - 1 \in T PROVE n \in T
    <2> DEFINE s == g[n - 1]
               p == Pair(edges[n])
    <2>1. Fine(s, n - 1) /\ g[n] = (IF p \in Range(s) THEN s ELSE Append(s, p)) /\ p \in all
        BY <1>2, <1>10, <1>12 DEF One
    <2>2. {Pair(edges[i]) : i \in 1..n} = {Pair(edges[i]) : i \in 1..(n - 1)} \union {p}
        <3>1. 1..n = (1..(n - 1)) \union {n}
            BY <1>1
        <3> QED
            BY <3>1
    <2> HIDE DEF s, p
    <2>3. CASE p \in Range(s)
        <3>1. Fine(s, n)
            BY <2>1, <2>2, <2>3
        <3>2. g[n] = s
            BY <2>1, <2>3
        <3> HIDE DEF Fine
        <3>3. Fine(g[n], n)
            BY <3>1, <3>2
        <3> QED
            BY <1>1, <3>3
    <2>4. CASE p \notin Range(s)
        <3> DEFINE t == Append(s, p)
        <3>1. s \in Seq(all)
            BY <2>1 DEF S
        <3>2. /\ t \in Seq(all) /\ Len(t) = Len(s) + 1 /\ t[Len(s) + 1] = p
              /\ \A i \in 1..Len(s) : t[i] = s[i]
            BY <2>1, <3>1, AppendProperties
        <3>3. Len(s) \in Nat /\ DOMAIN s = 1..Len(s)
            BY <3>1
        <3> HIDE DEF t
        <3>4. DOMAIN t = 1..(Len(s) + 1)
            BY <3>2
        <3>5. Range(t) = Range(s) \union {p}
            BY <3>2, <3>3, <3>4 DEF Range
        <3>6. ASSUME NEW i \in DOMAIN t, NEW j \in DOMAIN t, t[i] = t[j] PROVE i = j
            <4>1. (i \in DOMAIN s \/ i = Len(s) + 1) /\ (j \in DOMAIN s \/ j = Len(s) + 1)
                BY <3>3, <3>4
            <4>2. \A k \in DOMAIN s : s[k] # p
                BY <2>4 DEF Range
            <4> QED
                BY <2>1, <3>2, <3>3, <3>6, <4>1, <4>2
        <3>7. Fine(t, n)
            BY <2>1, <2>2, <3>2, <3>5, <3>6 DEF S
        <3>8. g[n] = t
            BY <2>1, <2>4 DEF t
        <3> HIDE DEF Fine
        <3>9. Fine(g[n], n)
            BY <3>7, <3>8
        <3> QED
            BY <1>1, <3>9
    <2> QED
        BY <2>3, <2>4
<1>13. Fine(g[top], top)
    <2> HIDE DEF T
    <2>1. \A n \in 0..top : n \in T
        BY <1>1, <1>11, <1>12, Upwards
    <2>2. top \in T
        BY <1>1, <2>1
    <2> QED
        BY <2>2 DEF T
<1>14. g[top] \in Seq(all)
    BY <1>13 DEF S
<1>15. Range(g[top]) = {Pair(e) : e \in Range(edges)}
    BY <1>2, <1>13 DEF Range
<1>16. Len(g[top]) \in Nat /\ DOMAIN g[top] = 1..Len(g[top])
    BY <1>14
<1> QED
    BY <1>8, <1>13, <1>15, <1>16

\* Lists in a row, one after the other.
Flattened(E, lists, flat) ==
    /\ flat[1] = lists[1]
    /\ \A i \in 2..Len(lists) : flat[i] = flat[i - 1] \o lists[i]
    /\ \A i \in 1..Len(lists) : flat[i] \in Seq(E)
    /\ FlattenSeq(lists) = flat[Len(lists)]

LEMMA FlattenedOneByOne ==
    ASSUME NEW E, NEW lists \in Seq(Seq(E)), lists # <<>>
    PROVE  \E flat : Flattened(E, lists, flat)
<1> DEFINE top == Len(lists)
           last == top - 1
           S == Seq(E)
           One(n, sofar) == sofar \o lists[n + 1]
           next == [p \in (1..last) \X S |-> One(p[1], p[2])]
           Right(f) == f = [i \in 1..top |-> IF i = 1 THEN lists[i] ELSE f[i - 1] \o lists[i]]
<1>1. top \in Nat /\ top # 0 /\ last \in Nat
    OBVIOUS
<1>2. \A i \in 1..top : lists[i] \in S
    OBVIOUS
<1> HIDE DEF S
<1>3. \A n \in 1..last, sofar \in S : One(n, sofar) \in S
    <2>1. \A n \in 1..last : n + 1 \in 1..top
        BY <1>1
    <2>2. \A a, b \in S : a \o b \in S
        BY DEF S
    <2> QED
        BY <1>2, <2>1, <2>2
<1> HIDE DEF One
<1>4. next \in [(1..last) \X S -> S]
    BY <1>3
<1>5. PICK h \in [0..last -> S] : Recurs(h, last, lists[1], next)
    <2>1. lists[1] \in S
        BY <1>1, <1>2
    <2> HIDE DEF next, last
    <2> QED
        BY <1>1, <1>4, <2>1, RecursionIsThere
<1>6. h = [n \in 0..last |-> IF n = 0 THEN lists[1] ELSE next[<<n, h[n - 1]>>]]
    BY <1>5 DEF Recurs
<1> DEFINE f == [i \in 1..top |-> h[i - 1]]
<1>7. ASSUME NEW i \in 1..top
      PROVE  f[i] = IF i = 1 THEN lists[i] ELSE f[i - 1] \o lists[i]
    <2>1. i - 1 \in 0..last /\ f[i] = h[i - 1]
        BY <1>1
    <2>2. CASE i = 1
        BY <1>6, <2>1, <2>2
    <2>3. CASE i # 1
        <3>1. i - 1 \in 1..last /\ i - 1 # 0 /\ i - 1 \in 1..top /\ (i - 1) - 1 \in 0..last /\ (i - 1) + 1 = i
            BY <1>1, <2>3
        <3>2. f[i - 1] = h[(i - 1) - 1]
            BY <3>1
        <3>3. h[i - 1] = next[<<i - 1, h[(i - 1) - 1]>>]
            <4> HIDE DEF next
            <4> QED
                BY <1>6, <2>1, <3>1
        <3>4. h[(i - 1) - 1] \in S
            BY <1>5, <3>1
        <3>5. next[<<i - 1, h[(i - 1) - 1]>>] = One(i - 1, h[(i - 1) - 1])
            BY <3>1, <3>4
        <3> QED
            BY <2>1, <2>3, <3>1, <3>2, <3>3, <3>5 DEF One
    <2> QED
        BY <2>2, <2>3
<1>8. Right(f)
    <2>1. f = [i \in 1..top |-> f[i]]
        OBVIOUS
    <2> HIDE DEF f
    <2> QED
        BY <1>7, <2>1
<1> DEFINE g == CHOOSE g : Right(g)
<1>9. Right(g)
    <2> HIDE DEF f
    <2> QED
        BY <1>8
<1>10. FlattenSeq(lists) = g[top]
    BY <1>1 DEF FlattenSeq
<1> HIDE DEF g
<1>11. \A i \in 1..top : g[i] = IF i = 1 THEN lists[i] ELSE g[i - 1] \o lists[i]
    BY <1>9
<1>12. g[1] = lists[1] /\ \A i \in 2..top : g[i] = g[i - 1] \o lists[i]
    <2>1. 1 \in 1..top /\ \A i \in 2..top : i \in 1..top /\ i # 1
        BY <1>1
    <2> HIDE DEF top
    <2> QED
        BY <1>11, <2>1
<1>13. \A i \in 1..top : g[i] \in S
    <2> DEFINE T == {n \in 0..last : g[n + 1] \in S}
    <2>1. 0 \in T
        BY <1>1, <1>2, <1>12
    <2>2. ASSUME NEW n \in 1..last, n - 1 \in T PROVE n \in T
        <3>1. n + 1 \in 2..top /\ (n + 1) - 1 = n /\ (n - 1) + 1 = n /\ n + 1 \in 1..top
            BY <1>1
        <3>2. g[n] \in S /\ lists[n + 1] \in S /\ g[n + 1] = g[n] \o lists[n + 1]
            BY <1>2, <1>12, <2>2, <3>1
        <3>3. g[n] \o lists[n + 1] \in S
            BY <3>2 DEF S
        <3>4. g[n + 1] \in S
            BY <3>2, <3>3
        <3>5. n \in 0..last
            BY <1>1
        <3> QED
            BY <3>4, <3>5
    <2>3. \A n \in 0..last : n \in T
        <3> HIDE DEF T, last
        <3> QED
            BY <1>1, <2>1, <2>2, Upwards
    <2> SUFFICES ASSUME NEW i \in 1..top PROVE g[i] \in S
        OBVIOUS
    <2>4. i - 1 \in 0..last /\ (i - 1) + 1 = i
        BY <1>1
    <2>5. i - 1 \in T
        BY <2>3, <2>4
    <2> QED
        BY <2>4, <2>5
<1> QED
    BY <1>10, <1>12, <1>13 DEF Flattened, S

\* Merged transitions: the edges between two stages are all the child's where the
\* child has one, and the parent's elsewhere.
LEMMA MergedEdges ==
    ASSUME NEW E, NEW base \in Seq(E), NEW extension \in Seq(E)
    PROVE  /\ mergeTransitions(base, extension) \in Seq(E)
           /\ \A pair : EdgesOf(mergeTransitions(base, extension), pair) =
                 IF EdgesOf(extension, pair) # <<>> THEN EdgesOf(extension, pair) ELSE EdgesOf(base, pair)
<1> DEFINE merged == mergeTransitions(base, extension)
           Chosen(pair) == IF EdgesOf(extension, pair) # <<>> THEN EdgesOf(extension, pair) ELSE EdgesOf(base, pair)
<1> SUFFICES merged \in Seq(E) /\ \A pair : EdgesOf(merged, pair) = Chosen(pair)
    OBVIOUS
<1>1. base \o extension \in Seq(E)
    BY ConcatProperties
<1>2. Range(base \o extension) = Range(base) \union Range(extension)
    BY RangeConcatenation
<1>3. CASE base = <<>> \/ extension = <<>>
    <2>1. merged = base \o extension
        BY <1>3 DEF mergeTransitions
    <2>2. ASSUME NEW pair PROVE EdgesOf(merged, pair) = Chosen(pair)
        <3> DEFINE a == EdgesOf(base, pair)
                   b == EdgesOf(extension, pair)
        <3>1. EdgesOf(merged, pair) = a \o b
            BY <2>1, EdgesOfJoined DEF Joined
        <3>2. a \in Seq(E) /\ b \in Seq(E)
            BY EdgesAreOfThePair
        <3>3. a = <<>> \/ b = <<>>
            <4>1. Range(<<>>) = {}
                BY DEF Range
            <4> QED
                BY <1>3, <4>1, EdgesAreOfThePair
        <3> HIDE DEF a, b
        <3>4. <<>> \o b = b /\ a \o <<>> = a
            BY <3>2, ConcatEmptySeq
        <3>5. a \o b = IF b # <<>> THEN b ELSE a
            BY <3>3, <3>4
        <3> QED
            BY <3>1, <3>5 DEF a, b
    <2> QED
        BY <1>1, <2>1, <2>2
<1>4. CASE base # <<>> /\ extension # <<>>
    <2> DEFINE pairs == PairsInOrder(base \o extension)
               groups == [i \in DOMAIN pairs |->
                   GroupOf(IF EdgesOf(extension, pairs[i]) # <<>> THEN extension ELSE base, pairs[i])]
    <2>1. merged = FlattenSeq(groups)
        BY <1>4 DEF mergeTransitions
    <2>2. /\ Len(pairs) \in Nat /\ DOMAIN pairs = 1..Len(pairs)
          /\ \A i, j \in DOMAIN pairs : pairs[i] = pairs[j] => i = j
          /\ Range(pairs) = {Pair(e) : e \in Range(base \o extension)}
        BY <1>1, PairsAreThoseOfTheEdges
    <2> HIDE DEF pairs
    <2>3. \A i \in DOMAIN pairs : groups[i] = Chosen(pairs[i])
        BY DEF GroupOf
    <2>4. \A pair : Chosen(pair) \in Seq(E) /\ \A e \in Range(Chosen(pair)) : Pair(e) = pair
        BY EdgesAreOfThePair
    <2>5. \A pair : pair \notin Range(pairs) => Chosen(pair) = <<>>
        BY <1>2, <2>2, EdgesAreOfThePair
    <2>6. Range(pairs) # {}
        <3>1. Range(base) # {}
            <4>1. Len(base) \in Nat /\ Len(base) # 0 /\ DOMAIN base = 1..Len(base)
                BY <1>4
            <4>2. base[1] \in Range(base)
                BY <4>1 DEF Range
            <4> QED
                BY <4>2
        <3> QED
            BY <1>2, <2>2, <3>1
    <2> DEFINE top == Len(pairs)
    <2>7. /\ groups \in Seq(Seq(E)) /\ groups # <<>> /\ Len(groups) = top /\ top # 0
          /\ \A i \in 1..top : groups[i] \in Seq(E)
        <3>1. top # 0
            BY <2>2, <2>6 DEF Range
        <3>2. groups \in [1..top -> Seq(E)]
            BY <2>2, <2>3, <2>4
        <3> HIDE DEF groups, top
        <3>3. top \in Nat
            BY <2>2 DEF top
        <3>4. groups \in Seq(Seq(E)) /\ Len(groups) = top
            BY <3>2, <3>3
        <3> QED
            BY <3>1, <3>2, <3>4
    <2> HIDE DEF groups, Chosen
    <2>12. PICK flat : Flattened(E, groups, flat)
        BY <2>7, FlattenedOneByOne
    <2>8. /\ flat[1] = groups[1]
          /\ \A i \in 2..top : flat[i] = flat[i - 1] \o groups[i]
          /\ \A i \in 1..top : flat[i] \in Seq(E)
          /\ FlattenSeq(groups) = flat[top]
        BY <2>7, <2>12 DEF Flattened
    <2>9. ASSUME NEW i \in 1..top, NEW pair
          PROVE  EdgesOf(groups[i], pair) = IF pair = pairs[i] THEN Chosen(pair) ELSE <<>>
        <3>1. groups[i] = Chosen(pairs[i]) /\ \A e \in Range(groups[i]) : Pair(e) = pairs[i]
            BY <2>2, <2>3, <2>4
        <3>2. groups[i] \in Seq(E)
            BY <2>7
        <3>3. EdgesOf(groups[i], pair) = IF pair = pairs[i] THEN groups[i] ELSE <<>>
            BY <3>1, <3>2, EdgesOfAGroup
        <3> QED
            BY <3>1, <3>3
    <2>10. ASSUME NEW pair PROVE EdgesOf(merged, pair) = Chosen(pair)
        <3> DEFINE Met(n) == \E i \in 1..n : pairs[i] = pair
                   Fine(n) == EdgesOf(flat[n], pair) = IF Met(n) THEN Chosen(pair) ELSE <<>>
                   last == top - 1
                   T == {n \in 0..last : Fine(n + 1)}
        <3>1. top \in Nat /\ last \in Nat
            BY <2>2, <2>7
        <3>2. Fine(1)
            <4>1. 1 \in 1..top /\ 1..1 = {1}
                BY <2>7, <3>1
            <4>2. Met(1) <=> pair = pairs[1]
                BY <4>1
            <4> HIDE DEF Met
            <4> QED
                BY <2>8, <2>9, <4>1, <4>2
        <3>3. 0 \in T
            BY <3>1, <3>2
        <3>4. ASSUME NEW n \in 1..last, n - 1 \in T PROVE n \in T
            <4> DEFINE k == n + 1
            <4>1. k \in 2..top /\ k - 1 = n /\ (n - 1) + 1 = n /\ k \in 1..top /\ n \in 1..top
                BY <3>1
            <4>2. Fine(n)
                BY <3>4, <4>1
            <4> HIDE DEF k
            <4>3. flat[k] = flat[n] \o groups[k] /\ flat[n] \in Seq(E) /\ groups[k] \in Seq(E)
                BY <2>7, <2>8, <4>1
            <4>4. EdgesOf(flat[k], pair) = EdgesOf(flat[n], pair) \o EdgesOf(groups[k], pair)
                <5>1. \A a, b \in Seq(E) : \A q : EdgesOf(Joined(a, b), q) = Joined(EdgesOf(a, q), EdgesOf(b, q))
                    BY EdgesOfJoined
                <5>2. EdgesOf(Joined(flat[n], groups[k]), pair) = Joined(EdgesOf(flat[n], pair), EdgesOf(groups[k], pair))
                    BY <4>3, <5>1
                <5> QED
                    BY <4>3, <5>2 DEF Joined
            <4>5. EdgesOf(groups[k], pair) = IF pair = pairs[k] THEN Chosen(pair) ELSE <<>>
                BY <2>9, <4>1
            <4>6. Met(k) <=> (Met(n) \/ pairs[k] = pair)
                <5>1. 1..k = (1..n) \union {k}
                    BY <3>1, <4>1
                <5> QED
                    BY <5>1
            <4>7. ~ (Met(n) /\ pairs[k] = pair)
                <5>1. SUFFICES ASSUME NEW i \in 1..n, pairs[i] = pair, pairs[k] = pair PROVE FALSE
                    OBVIOUS
                <5>2. i \in DOMAIN pairs /\ k \in DOMAIN pairs /\ i # k
                    BY <2>2, <3>1, <4>1
                <5> QED
                    BY <2>2, <5>1, <5>2
            <4>8. Chosen(pair) \in Seq(E)
                BY <2>4
            <4>9. <<>> \o Chosen(pair) = Chosen(pair) /\ Chosen(pair) \o <<>> = Chosen(pair)
                BY <4>8, ConcatEmptySeq
            <4>10. <<>> \o <<>> = <<>>
                OBVIOUS
            <4> HIDE DEF Met
            <4>11. Fine(k)
                BY <4>2, <4>4, <4>5, <4>6, <4>7, <4>9, <4>10
            <4> QED
                BY <3>1, <4>11 DEF k
        <3> HIDE DEF T
        <3>5. \A n \in 0..last : n \in T
            <4> HIDE DEF last
            <4> QED
                BY <3>1, <3>3, <3>4, Upwards
        <3>6. last \in 0..last /\ last + 1 = top
            BY <3>1
        <3>7. last \in T
            BY <3>5, <3>6
        <3> HIDE DEF last
        <3>8. Fine(top)
            BY <3>6, <3>7 DEF T
        <3>9. Met(top) <=> pair \in Range(pairs)
            BY <2>2 DEF Range
        <3> HIDE DEF Met
        <3> QED
            BY <2>1, <2>5, <2>8, <3>8, <3>9
    <2>11. merged \in Seq(E)
        <3>1. top \in 1..top
            BY <2>2, <2>7
        <3> QED
            BY <2>1, <2>8, <3>1
    <2> QED
        BY <2>10, <2>11 DEF Chosen
<1> QED
    BY <1>3, <1>4

-----------------------------------------------------------------------------
(* Files that are merged.                                                  *)

\* Of numbers there is a least, and Min is it.
LEMMA MinIsTheLeast ==
    ASSUME NEW S \in SUBSET Nat
    PROVE  /\ S # {} => Min(S) \in S /\ \A y \in S : Min(S) <= y
           /\ \A x \in S : (\A y \in S : x <= y) => Min(S) = x
<1>1. ASSUME S # {} PROVE Min(S) \in S /\ \A y \in S : Min(S) <= y
    <2>1. \E x \in S : \A y \in S : x <= y
        BY <1>1, LeastNumber
    <2> QED
        BY <2>1 DEF Min
<1>2. ASSUME NEW x \in S, \A y \in S : x <= y PROVE Min(S) = x
    <2>1. Min(S) \in S /\ Min(S) <= x /\ x <= Min(S) /\ x \in Nat /\ Min(S) \in Nat
        BY <1>1, <1>2
    <2> QED
        BY <2>1
<1> QED
    BY <1>1, <1>2

\* Files whose edges are listed.
Listed(disk) ==
    \A at \in StoredFiles(disk) : \A path \in DOMAIN FileOf(disk, at).stages :
        LET edges == FileOf(disk, at).stages[path].edges IN edges \in Seq(Range(edges))

StagesOnDisk(disk) ==
    UNION {{FileOf(disk, at).stages[path] : path \in DOMAIN FileOf(disk, at).stages} : at \in StoredFiles(disk)}
PathsOnDisk(disk) == UNION {DOMAIN FileOf(disk, at).stages : at \in StoredFiles(disk)}
EdgesOnDisk(disk) == UNION {Range(entry.edges) : entry \in StagesOnDisk(disk)}
FieldsOnDisk(disk) == UNION {DOMAIN entry.fields : entry \in StagesOnDisk(disk)}
ValuesOnDisk(disk) == UNION {Range(entry.fields) : entry \in StagesOnDisk(disk)}

\* What merging makes of stages.
ReadFields(disk) == UNION {[names -> ValuesOnDisk(disk)] : names \in SUBSET FieldsOnDisk(disk)}
ReadStages(disk) == StagesOnDisk(disk) \union [fields : ReadFields(disk), edges : Seq(EdgesOnDisk(disk))]
ReadSchemas(disk) == UNION {[paths -> ReadStages(disk)] : paths \in SUBSET PathsOnDisk(disk)}

LEMMA ReadStagesHave ==
    ASSUME NEW disk, Listed(disk), NEW entry \in ReadStages(disk)
    PROVE  /\ entry.edges \in Seq(EdgesOnDisk(disk))
           /\ DOMAIN entry.fields \subseteq FieldsOnDisk(disk)
           /\ \A f \in DOMAIN entry.fields : entry.fields[f] \in ValuesOnDisk(disk)
<1>1. CASE entry \in StagesOnDisk(disk)
    <2>1. DOMAIN entry.fields \subseteq FieldsOnDisk(disk) /\ Range(entry.fields) \subseteq ValuesOnDisk(disk)
        BY <1>1 DEF FieldsOnDisk, ValuesOnDisk
    <2>2. entry.edges \in Seq(Range(entry.edges))
        BY <1>1 DEF StagesOnDisk, Listed
    <2>3. Range(entry.edges) \subseteq EdgesOnDisk(disk)
        BY <1>1 DEF EdgesOnDisk
    <2>4. entry.edges \in Seq(EdgesOnDisk(disk))
        BY <2>2, <2>3
    <2> QED
        BY <2>1, <2>4 DEF Range
<1>2. CASE entry \in [fields : ReadFields(disk), edges : Seq(EdgesOnDisk(disk))]
    BY <1>2 DEF ReadFields
<1> QED
    BY <1>1, <1>2 DEF ReadStages

LEMMA ReadSchemasHave ==
    ASSUME NEW disk, NEW stages \in ReadSchemas(disk)
    PROVE  DOMAIN stages \subseteq PathsOnDisk(disk) /\ \A path \in DOMAIN stages : stages[path] \in ReadStages(disk)
BY DEF ReadSchemas

LEMMA FilesHave ==
    ASSUME NEW disk, NEW at \in StoredFiles(disk)
    PROVE  /\ DOMAIN FileOf(disk, at).stages \subseteq PathsOnDisk(disk)
           /\ \A path \in DOMAIN FileOf(disk, at).stages : FileOf(disk, at).stages[path] \in ReadStages(disk)
BY DEF PathsOnDisk, ReadStages, StagesOnDisk

\* One stage is what another became by an extension of it: a field is the
\* extension's where it has one, and so are the edges of a pair.
Extends(disk, base, extension, entry) ==
    /\ entry.edges \in Seq(EdgesOnDisk(disk))
    /\ DOMAIN entry.fields = DOMAIN base.fields \union DOMAIN extension.fields
    /\ \A f \in DOMAIN entry.fields :
         entry.fields[f] = IF f \in DOMAIN extension.fields THEN extension.fields[f] ELSE base.fields[f]
    /\ \A pair : EdgesOf(entry.edges, pair) =
         IF EdgesOf(extension.edges, pair) # <<>> THEN EdgesOf(extension.edges, pair)
         ELSE EdgesOf(base.edges, pair)

LEMMA NoEdgesOfNone == \A pair : EdgesOf(<<>>, pair) = <<>>
<1> TAKE pair
<1>1. <<>> \in Seq({}) /\ Range(<<>>) = {}
    BY DEF Range
<1> QED
    BY <1>1, EdgesAreOfThePair

\* Two stages are merged field by field and pair by pair.
LEMMA MergedStageExtends ==
    ASSUME NEW disk, Listed(disk), NEW base \in ReadStages(disk), NEW extension \in ReadStages(disk)
    PROVE  /\ mergeStage(base, extension) \in ReadStages(disk)
           /\ Extends(disk, base, extension, mergeStage(base, extension))
<1> DEFINE entry == mergeStage(base, extension)
           fields == Spread(base.fields, extension.fields)
           edges == mergeTransitions(base.edges, extension.edges)
<1>1. entry = [fields |-> fields, edges |-> edges]
    BY DEF mergeStage
<1>2. /\ base.edges \in Seq(EdgesOnDisk(disk)) /\ extension.edges \in Seq(EdgesOnDisk(disk))
      /\ DOMAIN base.fields \subseteq FieldsOnDisk(disk) /\ DOMAIN extension.fields \subseteq FieldsOnDisk(disk)
      /\ \A f \in DOMAIN base.fields : base.fields[f] \in ValuesOnDisk(disk)
      /\ \A f \in DOMAIN extension.fields : extension.fields[f] \in ValuesOnDisk(disk)
    BY ReadStagesHave
<1>3. /\ edges \in Seq(EdgesOnDisk(disk))
      /\ \A pair : EdgesOf(edges, pair) =
           IF EdgesOf(extension.edges, pair) # <<>> THEN EdgesOf(extension.edges, pair)
           ELSE EdgesOf(base.edges, pair)
    BY <1>2, MergedEdges
<1>4. /\ DOMAIN fields = DOMAIN base.fields \union DOMAIN extension.fields
      /\ \A f \in DOMAIN fields :
           fields[f] = IF f \in DOMAIN extension.fields THEN extension.fields[f] ELSE base.fields[f]
      /\ fields = [f \in DOMAIN fields |-> fields[f]]
    BY DEF Spread
<1> HIDE DEF fields, edges
<1>5. fields \in ReadFields(disk)
    <2>1. DOMAIN fields \in SUBSET FieldsOnDisk(disk)
        BY <1>2, <1>4
    <2>2. \A f \in DOMAIN fields : fields[f] \in ValuesOnDisk(disk)
        BY <1>2, <1>4
    <2>3. fields \in [DOMAIN fields -> ValuesOnDisk(disk)]
        BY <1>4, <2>2
    <2> QED
        BY <2>1, <2>3 DEF ReadFields
<1> HIDE DEF entry
<1>6. entry \in ReadStages(disk)
    BY <1>1, <1>3, <1>5 DEF ReadStages
<1>7. entry.fields = fields /\ entry.edges = edges
    BY <1>1
<1>8. Extends(disk, base, extension, entry)
    BY <1>3, <1>4, <1>7 DEF Extends
<1> QED
    BY <1>6, <1>8 DEF entry

\* A stage of what is merged, or none.
StageIn(stages, path) == IF path \in DOMAIN stages THEN stages[path] ELSE NoStage

LEMMA MergedSchemaExtends ==
    ASSUME NEW disk, Listed(disk), NEW base \in ReadSchemas(disk), NEW at \in StoredFiles(disk)
    PROVE  LET merged == mergeSchemas(disk, base, at)
           IN  /\ merged \in ReadSchemas(disk)
               /\ DOMAIN merged = DOMAIN base \union DOMAIN FileOf(disk, at).stages
               /\ \A path : Extends(disk, StageIn(base, path), StageInFile(disk, at, path), StageIn(merged, path))
<1> DEFINE extension == FileOf(disk, at).stages
           merged == mergeSchemas(disk, base, at)
           Merged(path) == IF path \notin DOMAIN extension THEN base[path]
                           ELSE IF path \notin DOMAIN base THEN extension[path]
                           ELSE mergeStage(base[path], extension[path])
<1>1. merged = [path \in DOMAIN base \union DOMAIN extension |-> Merged(path)]
    BY DEF mergeSchemas, mergeStages
<1>2. /\ DOMAIN base \subseteq PathsOnDisk(disk) /\ \A path \in DOMAIN base : base[path] \in ReadStages(disk)
      /\ DOMAIN extension \subseteq PathsOnDisk(disk)
      /\ \A path \in DOMAIN extension : extension[path] \in ReadStages(disk)
    BY ReadSchemasHave, FilesHave
<1>3. \A path : StageInFile(disk, at, path) = IF path \in DOMAIN extension THEN extension[path] ELSE NoStage
    BY DEF StageInFile
<1> HIDE DEF extension, merged
<1>4. DOMAIN merged = DOMAIN base \union DOMAIN extension
    BY <1>1
<1>5. \A path \in DOMAIN merged : merged[path] = Merged(path) /\ Merged(path) \in ReadStages(disk)
    BY <1>1, <1>2, MergedStageExtends
<1> HIDE DEF Merged
<1>6. merged \in ReadSchemas(disk)
    <2>1. DOMAIN merged \in SUBSET PathsOnDisk(disk)
        BY <1>2, <1>4
    <2>2. merged \in [DOMAIN merged -> ReadStages(disk)]
        BY <1>1, <1>4, <1>5
    <2> QED
        BY <2>1, <2>2 DEF ReadSchemas
<1>7. DOMAIN NoStage.fields = {} /\ NoStage.edges = <<>> /\ <<>> \in Seq(EdgesOnDisk(disk))
    BY DEF NoStage
<1>8. ASSUME NEW path
      PROVE  Extends(disk, StageIn(base, path), StageInFile(disk, at, path), StageIn(merged, path))
    <2>1. CASE path \in DOMAIN base /\ path \in DOMAIN extension
        <3>1. /\ StageIn(base, path) = base[path] /\ StageInFile(disk, at, path) = extension[path]
              /\ StageIn(merged, path) = mergeStage(base[path], extension[path])
            BY <1>3, <1>4, <1>5, <2>1 DEF StageIn, Merged
        <3> QED
            BY <1>2, <2>1, <3>1, MergedStageExtends
    <2>2. CASE path \notin DOMAIN extension
        <3>1. StageIn(merged, path) = StageIn(base, path)
            BY <1>3, <1>4, <1>5, <2>2 DEF StageIn, Merged
        <3>2. StageInFile(disk, at, path) = NoStage
            BY <1>3, <2>2
        <3>3. StageIn(base, path).edges \in Seq(EdgesOnDisk(disk))
            <4>1. CASE path \in DOMAIN base
                BY <1>2, <4>1, ReadStagesHave DEF StageIn
            <4>2. CASE path \notin DOMAIN base
                BY <1>7, <4>2 DEF StageIn
            <4> QED
                BY <4>1, <4>2
        <3> QED
            BY <1>7, <3>1, <3>2, <3>3, NoEdgesOfNone DEF Extends
    <2>3. CASE path \notin DOMAIN base /\ path \in DOMAIN extension
        <3>1. StageIn(merged, path) = extension[path] /\ StageInFile(disk, at, path) = extension[path]
            BY <1>3, <1>4, <1>5, <2>3 DEF StageIn, Merged
        <3>2. StageIn(base, path) = NoStage
            BY <2>3 DEF StageIn
        <3>3. extension[path].edges \in Seq(EdgesOnDisk(disk))
            BY <1>2, <2>3, ReadStagesHave
        <3> QED
            BY <1>7, <3>1, <3>2, <3>3, NoEdgesOfNone DEF Extends
    <2> QED
        BY <2>1, <2>2, <2>3
<1> QED
    BY <1>4, <1>6, <1>8 DEF extension, merged

\* Files are merged one by one, from the farthest to the nearest.
LEMMA FilesAreMerged ==
    ASSUME NEW disk, Listed(disk), NEW files \in Seq(StoredFiles(disk))
    PROVE  \E last \in [0..Len(files) -> ReadSchemas(disk)] :
             /\ last[0] = <<>>
             /\ \A n \in 1..Len(files) : last[n] = mergeSchemas(disk, last[n - 1], files[Len(files) - n + 1])
             /\ MergedFiles(disk, files) = last[Len(files)]
<1> DEFINE top == Len(files)
           S == ReadSchemas(disk)
           One(n, sofar) == mergeSchemas(disk, sofar, files[top - n + 1])
           next == [p \in (1..top) \X S |-> One(p[1], p[2])]
           Right(f) == f = [n \in 0..top |-> IF n = 0 THEN <<>> ELSE One(n, f[n - 1])]
<1>1. top \in Nat
    OBVIOUS
<1>2. <<>> \in S
    <2>1. <<>> \in [{} -> ReadStages(disk)]
        OBVIOUS
    <2> QED
        BY <2>1 DEF ReadSchemas
<1>3. \A n \in 1..top, sofar \in S : One(n, sofar) \in S
    <2> SUFFICES ASSUME NEW n \in 1..top, NEW sofar \in S PROVE One(n, sofar) \in S
        OBVIOUS
    <2>1. top - n + 1 \in 1..top
        BY <1>1
    <2>2. files[top - n + 1] \in StoredFiles(disk)
        BY <2>1
    <2> QED
        BY <2>2, MergedSchemaExtends
<1> HIDE DEF top, S, One
<1>4. next \in [(1..top) \X S -> S]
    BY <1>3
<1>5. PICK f \in [0..top -> S] : Recurs(f, top, <<>>, next)
    <2> HIDE DEF next
    <2> QED
        BY <1>1, <1>2, <1>4, RecursionIsThere
<1>6. Right(f)
    <2>1. f = [n \in 0..top |-> IF n = 0 THEN <<>> ELSE next[<<n, f[n - 1]>>]]
        BY <1>5 DEF Recurs
    <2>2. ASSUME NEW n \in 0..top
          PROVE  (IF n = 0 THEN <<>> ELSE next[<<n, f[n - 1]>>]) = (IF n = 0 THEN <<>> ELSE One(n, f[n - 1]))
        <3>1. n # 0 => <<n, f[n - 1]>> \in (1..top) \X S
            BY <1>1, <1>5
        <3> QED
            BY <3>1
    <2> HIDE DEF next
    <2> QED
        BY <2>1, <2>2
<1> DEFINE g == CHOOSE g : Right(g)
<1>7. Right(g)
    BY <1>6
<1>8. MergedFiles(disk, files) = g[top]
    BY DEF MergedFiles, top, One
<1> HIDE DEF g
<1>9. \A n \in 0..top : g[n] = IF n = 0 THEN <<>> ELSE One(n, g[n - 1])
    BY <1>7
<1>10. g[0] = <<>> /\ \A n \in 1..top : g[n] = One(n, g[n - 1])
    BY <1>1, <1>9
<1>11. g \in [0..top -> S]
    <2> DEFINE T == {n \in 0..top : g[n] \in S}
    <2>1. 0 \in T
        BY <1>1, <1>2, <1>10
    <2>2. \A n \in 1..top : n - 1 \in T => n \in T
        BY <1>1, <1>3, <1>10
    <2>3. \A n \in 0..top : n \in T
        <3> HIDE DEF T
        <3> QED
            BY <1>1, <2>1, <2>2, Upwards
    <2>4. g = [n \in 0..top |-> g[n]]
        BY <1>7
    <2> QED
        BY <2>3, <2>4
<1> QED
    BY <1>8, <1>10, <1>11 DEF top, S, One

\* A stage is read from the files from low on: each of its fields, and the edges of
\* each pair, from the nearest of them that has it.
ReadFrom(disk, files, path, low, entry) ==
    /\ \A f \in DOMAIN entry.fields :
         \E i \in low..Len(files) :
            /\ f \in DOMAIN StageInFile(disk, files[i], path).fields
            /\ \A j \in low..Len(files) : f \in DOMAIN StageInFile(disk, files[j], path).fields => i <= j
            /\ entry.fields[f] = StageInFile(disk, files[i], path).fields[f]
    /\ \A i \in low..Len(files) : DOMAIN StageInFile(disk, files[i], path).fields \subseteq DOMAIN entry.fields
    /\ \A pair : EdgesOf(entry.edges, pair) # <<>> =>
         \E i \in low..Len(files) :
            /\ EdgesOf(entry.edges, pair) = EdgesOf(StageInFile(disk, files[i], path).edges, pair)
            /\ \A j \in low..Len(files) : EdgesOf(StageInFile(disk, files[j], path).edges, pair) # <<>> => i <= j
    /\ \A i \in low..Len(files) : \A pair :
         EdgesOf(StageInFile(disk, files[i], path).edges, pair) # <<>> => EdgesOf(entry.edges, pair) # <<>>

LEMMA ExtendedIsReadFrom ==
    ASSUME NEW disk, NEW files, Len(files) \in Nat, NEW path, NEW low \in 1..Len(files), NEW base, NEW entry,
           ReadFrom(disk, files, path, low + 1, base),
           Extends(disk, base, StageInFile(disk, files[low], path), entry)
    PROVE  ReadFrom(disk, files, path, low, entry)
<1> DEFINE InIt(i) == StageInFile(disk, files[i], path)
           extension == InIt(low)
           Later == (low + 1)..Len(files)
<1>1. low..Len(files) = {low} \union Later /\ (\A i \in Later : ~ (i <= low)) /\ \A i \in Later : low <= i /\ i \in Int
    OBVIOUS
<1>2. /\ \A f \in DOMAIN base.fields :
           \E i \in Later : /\ f \in DOMAIN InIt(i).fields /\ base.fields[f] = InIt(i).fields[f]
                            /\ \A j \in Later : f \in DOMAIN InIt(j).fields => i <= j
      /\ \A i \in Later : DOMAIN InIt(i).fields \subseteq DOMAIN base.fields
      /\ \A pair : EdgesOf(base.edges, pair) # <<>> =>
           \E i \in Later : /\ EdgesOf(base.edges, pair) = EdgesOf(InIt(i).edges, pair)
                            /\ \A j \in Later : EdgesOf(InIt(j).edges, pair) # <<>> => i <= j
      /\ \A i \in Later : \A pair : EdgesOf(InIt(i).edges, pair) # <<>> => EdgesOf(base.edges, pair) # <<>>
    BY DEF ReadFrom
<1>3. /\ DOMAIN entry.fields = DOMAIN base.fields \union DOMAIN extension.fields
      /\ \A f \in DOMAIN entry.fields :
           entry.fields[f] = IF f \in DOMAIN extension.fields THEN extension.fields[f] ELSE base.fields[f]
      /\ \A pair : EdgesOf(entry.edges, pair) =
           IF EdgesOf(extension.edges, pair) # <<>> THEN EdgesOf(extension.edges, pair) ELSE EdgesOf(base.edges, pair)
    BY DEF Extends
<1> HIDE DEF InIt, Later
<1>4. ASSUME NEW f \in DOMAIN entry.fields
      PROVE  \E i \in low..Len(files) : /\ f \in DOMAIN InIt(i).fields
                                        /\ \A j \in low..Len(files) : f \in DOMAIN InIt(j).fields => i <= j
                                        /\ entry.fields[f] = InIt(i).fields[f]
    <2>1. CASE f \in DOMAIN extension.fields
        <3>1. low \in low..Len(files) /\ low <= low
            OBVIOUS
        <3> QED
            BY <1>1, <1>3, <2>1, <3>1
    <2>2. CASE f \notin DOMAIN extension.fields
        <3>1. PICK i \in Later : /\ f \in DOMAIN InIt(i).fields /\ base.fields[f] = InIt(i).fields[f]
                                 /\ \A j \in Later : f \in DOMAIN InIt(j).fields => i <= j
            BY <1>2, <1>3, <2>2
        <3> QED
            BY <1>1, <1>3, <2>2, <3>1
    <2> QED
        BY <2>1, <2>2
<1>5. ASSUME NEW pair, EdgesOf(entry.edges, pair) # <<>>
      PROVE  \E i \in low..Len(files) :
                /\ EdgesOf(entry.edges, pair) = EdgesOf(InIt(i).edges, pair)
                /\ \A j \in low..Len(files) : EdgesOf(InIt(j).edges, pair) # <<>> => i <= j
    <2>1. CASE EdgesOf(extension.edges, pair) # <<>>
        <3>1. low \in low..Len(files) /\ low <= low
            OBVIOUS
        <3> QED
            BY <1>1, <1>3, <2>1, <3>1
    <2>2. CASE EdgesOf(extension.edges, pair) = <<>>
        <3>1. PICK i \in Later : /\ EdgesOf(base.edges, pair) = EdgesOf(InIt(i).edges, pair)
                                 /\ \A j \in Later : EdgesOf(InIt(j).edges, pair) # <<>> => i <= j
            BY <1>2, <1>3, <1>5, <2>2
        <3> QED
            BY <1>1, <1>3, <2>2, <3>1
    <2> QED
        BY <2>1, <2>2
<1>6. ASSUME NEW i \in low..Len(files)
      PROVE  /\ DOMAIN InIt(i).fields \subseteq DOMAIN entry.fields
             /\ \A pair : EdgesOf(InIt(i).edges, pair) # <<>> => EdgesOf(entry.edges, pair) # <<>>
    <2>1. CASE i = low
        BY <1>3, <2>1
    <2>2. CASE i \in Later
        BY <1>2, <1>3, <2>2
    <2> QED
        BY <1>1, <2>1, <2>2
<1> QED
    BY <1>4, <1>5, <1>6 DEF ReadFrom, InIt

\* Every stage of what is merged is read from all the files.
LEMMA MergedIsReadFrom ==
    ASSUME NEW disk, Listed(disk), NEW files \in Seq(StoredFiles(disk))
    PROVE  /\ DOMAIN MergedFiles(disk, files) = UNION {DOMAIN FileOf(disk, files[i]).stages : i \in DOMAIN files}
           /\ \A path : ReadFrom(disk, files, path, 1, StageIn(MergedFiles(disk, files), path))
<1> DEFINE top == Len(files)
<1>1. PICK last \in [0..top -> ReadSchemas(disk)] :
             /\ last[0] = <<>>
             /\ \A n \in 1..top : last[n] = mergeSchemas(disk, last[n - 1], files[top - n + 1])
             /\ MergedFiles(disk, files) = last[top]
    BY FilesAreMerged
<1>2. top \in Nat /\ DOMAIN files = 1..top /\ \A i \in 1..top : files[i] \in StoredFiles(disk)
    OBVIOUS
<1> DEFINE Paths(low) == UNION {DOMAIN FileOf(disk, files[i]).stages : i \in low..top}
           Fine(n) == /\ DOMAIN last[n] = Paths(top - n + 1)
                      /\ \A path : ReadFrom(disk, files, path, top - n + 1, StageIn(last[n], path))
           T == {n \in 0..top : Fine(n)}
<1>3. Fine(0)
    <2>1. DOMAIN last[0] = {} /\ top - 0 + 1 = top + 1 /\ (top + 1)..top = {}
        BY <1>1, <1>2
    <2>2. \A path : StageIn(last[0], path) = NoStage
        BY <2>1 DEF StageIn
    <2>3. DOMAIN NoStage.fields = {} /\ \A pair : EdgesOf(NoStage.edges, pair) = <<>>
        BY NoEdgesOfNone DEF NoStage
    <2>4. \A path : ReadFrom(disk, files, path, top + 1, NoStage)
        BY <2>1, <2>3 DEF ReadFrom
    <2>5. Paths(top + 1) = {}
        BY <2>1
    <2> HIDE DEF Paths, top
    <2> QED
        BY <2>1, <2>2, <2>4, <2>5
<1>4. ASSUME NEW n \in 1..top, n - 1 \in T PROVE n \in T
    <2> DEFINE low == top - n + 1
               at == files[low]
    <2>1. low \in 1..top /\ low + 1 = top - (n - 1) + 1 /\ at \in StoredFiles(disk) /\ n - 1 \in 0..top
        BY <1>2
    <2>2. /\ DOMAIN last[n - 1] = Paths(low + 1)
          /\ \A path : ReadFrom(disk, files, path, low + 1, StageIn(last[n - 1], path))
        BY <1>4, <2>1
    <2>3. last[n] = mergeSchemas(disk, last[n - 1], at) /\ last[n - 1] \in ReadSchemas(disk)
        BY <1>1, <2>1
    <2>4. Paths(low) = Paths(low + 1) \union DOMAIN FileOf(disk, at).stages
        <3>1. low..top = ((low + 1)..top) \union {low}
            BY <1>2, <2>1
        <3> HIDE DEF top, low
        <3> QED
            BY <3>1
    <2> HIDE DEF low, at, Paths
    <2>5. /\ DOMAIN last[n] = Paths(low)
          /\ \A path : Extends(disk, StageIn(last[n - 1], path), StageInFile(disk, at, path), StageIn(last[n], path))
        BY <2>1, <2>2, <2>3, <2>4, MergedSchemaExtends
    <2>6. \A path : ReadFrom(disk, files, path, low, StageIn(last[n], path))
        BY <1>2, <2>1, <2>2, <2>5, ExtendedIsReadFrom DEF at
    <2> QED
        BY <1>2, <2>5, <2>6 DEF low
<1>5. Fine(top)
    <2> HIDE DEF top
    <2>1. 0 \in T
        BY <1>2, <1>3
    <2> HIDE DEF T
    <2>2. \A n \in 0..top : n \in T
        BY <1>2, <1>4, <2>1, Upwards
    <2>3. top \in T
        BY <1>2, <2>2
    <2> QED
        BY <2>3 DEF T
<1>6. top - top + 1 = 1
    BY <1>2
<1> QED
    BY <1>1, <1>2, <1>5, <1>6

\* What EntriesAreOfTheNearest says of some files and what is read from them.
OfTheNearest(disk, files, stages) ==
    LET InIt(i, path) == StageInFile(disk, files[i], path)
    IN  \A path \in UNION {DOMAIN FileOf(disk, files[i]).stages : i \in DOMAIN files} :
          /\ path \in DOMAIN stages
          /\ \A f \in UNION {DOMAIN InIt(i, path).fields : i \in DOMAIN files} :
               stages[path].fields[f] = InIt(Min(WithField(disk, files, path, f)), path).fields[f]
          /\ \A pair \in {Pair(e) : e \in UNION {Range(InIt(i, path).edges) : i \in DOMAIN files}} :
               EdgesOf(stages[path].edges, pair)
                 = EdgesOf(InIt(Min(WithEdge(disk, files, path, pair)), path).edges, pair)

LEMMA MergedIsOfTheNearest ==
    ASSUME NEW disk, Listed(disk), NEW files \in Seq(StoredFiles(disk))
    PROVE  OfTheNearest(disk, files, MergedFiles(disk, files))
<1> DEFINE stages == MergedFiles(disk, files)
           InIt(i, path) == StageInFile(disk, files[i], path)
<1>1. /\ DOMAIN stages = UNION {DOMAIN FileOf(disk, files[i]).stages : i \in DOMAIN files}
      /\ \A path : ReadFrom(disk, files, path, 1, StageIn(stages, path))
    BY MergedIsReadFrom
<1>2. Len(files) \in Nat /\ DOMAIN files = 1..Len(files) /\ \A i \in 1..Len(files) : files[i] \in StoredFiles(disk)
    OBVIOUS
<1> HIDE DEF stages
<1>3. ASSUME NEW path \in DOMAIN stages, NEW i \in DOMAIN files, NEW f \in DOMAIN InIt(i, path).fields
      PROVE  stages[path].fields[f] = InIt(Min(WithField(disk, files, path, f)), path).fields[f]
    <2> DEFINE S == WithField(disk, files, path, f)
    <2>1. ReadFrom(disk, files, path, 1, stages[path])
        BY <1>1 DEF StageIn
    <2>2. f \in DOMAIN stages[path].fields
        BY <1>2, <1>3, <2>1 DEF ReadFrom
    <2>3. PICK k \in 1..Len(files) :
             /\ f \in DOMAIN InIt(k, path).fields
             /\ \A j \in 1..Len(files) : f \in DOMAIN InIt(j, path).fields => k <= j
             /\ stages[path].fields[f] = InIt(k, path).fields[f]
        BY <2>1, <2>2 DEF ReadFrom
    <2>4. S \in SUBSET Nat /\ k \in S /\ \A j \in S : k <= j
        BY <1>2, <2>3 DEF WithField
    <2> HIDE DEF S
    <2>5. Min(S) = k
        BY <2>4, MinIsTheLeast
    <2> QED
        BY <2>3, <2>5 DEF S
<1>4. ASSUME NEW path \in DOMAIN stages, NEW i \in DOMAIN files, NEW e \in Range(InIt(i, path).edges)
      PROVE  EdgesOf(stages[path].edges, Pair(e))
               = EdgesOf(InIt(Min(WithEdge(disk, files, path, Pair(e))), path).edges, Pair(e))
    <2> DEFINE pair == Pair(e)
               S == WithEdge(disk, files, path, pair)
    <2>1. ReadFrom(disk, files, path, 1, stages[path])
        BY <1>1 DEF StageIn
    <2>2. InIt(i, path).edges \in Seq(Range(InIt(i, path).edges))
        <3> DEFINE own == FileOf(disk, files[i]).stages
        <3>1. path \in DOMAIN own => own[path].edges \in Seq(Range(own[path].edges))
            BY <1>2, <1>4 DEF Listed
        <3>2. InIt(i, path) = IF path \in DOMAIN own THEN own[path] ELSE NoStage
            BY DEF StageInFile
        <3> HIDE DEF own, InIt
        <3>3. CASE path \in DOMAIN own
            BY <3>1, <3>2, <3>3
        <3>4. CASE path \notin DOMAIN own
            BY <3>2, <3>4 DEF NoStage
        <3> QED
            BY <3>3, <3>4
    <2>3. EdgesOf(InIt(i, path).edges, pair) # <<>>
        <3> DEFINE edges == InIt(i, path).edges
        <3>1. edges \in Seq(Range(edges)) /\ e \in Range(edges)
            BY <1>4, <2>2
        <3> HIDE DEF edges
        <3>2. EdgesOf(edges, pair) = <<>> <=> \A d \in Range(edges) : Pair(d) # pair
            BY <3>1, EdgesAreOfThePair
        <3> QED
            BY <3>1, <3>2 DEF edges
    <2> HIDE DEF pair
    <2>4. EdgesOf(stages[path].edges, pair) # <<>>
        BY <1>2, <1>4, <2>1, <2>3 DEF ReadFrom
    <2>5. PICK k \in 1..Len(files) :
             /\ EdgesOf(stages[path].edges, pair) = EdgesOf(InIt(k, path).edges, pair)
             /\ \A j \in 1..Len(files) : EdgesOf(InIt(j, path).edges, pair) # <<>> => k <= j
        BY <2>1, <2>4 DEF ReadFrom
    <2>6. S \in SUBSET Nat /\ k \in S /\ \A j \in S : k <= j
        BY <1>2, <2>4, <2>5 DEF WithEdge
    <2> HIDE DEF S
    <2>7. Min(S) = k
        BY <2>6, MinIsTheLeast
    <2> QED
        BY <2>5, <2>7 DEF S, pair
<1> HIDE DEF InIt
<1>5. \A path \in DOMAIN stages :
        /\ \A f \in UNION {DOMAIN InIt(i, path).fields : i \in DOMAIN files} :
             stages[path].fields[f] = InIt(Min(WithField(disk, files, path, f)), path).fields[f]
        /\ \A pair \in {Pair(e) : e \in UNION {Range(InIt(i, path).edges) : i \in DOMAIN files}} :
             EdgesOf(stages[path].edges, pair)
               = EdgesOf(InIt(Min(WithEdge(disk, files, path, pair)), path).edges, pair)
    BY <1>3, <1>4
<1> QED
    BY <1>1, <1>5 DEF OfTheNearest, stages, InIt

-----------------------------------------------------------------------------
(* Files that extend others.                                               *)

\* Where a walk along files stops: none of the chain is extended.
Stops(disk, chain, at) == at[1] \notin Range(chain) \/ at \notin StoredFiles(disk)

\* What is walked after n steps from start.
Walked(disk, chain, start, n, sofar) ==
    /\ sofar \in [ok : BOOLEAN, files : Seq(StoredFiles(disk)),
                  next : {start} \union {FileOf(disk, at).extends : at \in StoredFiles(disk)}]
    /\ sofar.ok =>
         /\ \A i, j \in DOMAIN sofar.files : sofar.files[i] = sofar.files[j] => i = j
         /\ \A i \in DOMAIN sofar.files :
              FileOf(disk, sofar.files[i]).extends =
                IF i = Len(sofar.files) THEN sofar.next ELSE sofar.files[i + 1]
         /\ Stops(disk, chain, sofar.next) \/ Len(sofar.files) = n

LEMMA FileStepWalksOn ==
    ASSUME NEW disk, NEW chain, NEW start, NEW n \in Nat, NEW sofar, Walked(disk, chain, start, n, sofar)
    PROVE  Walked(disk, chain, start, n + 1, FileStep(disk, chain, sofar))
<1> DEFINE at == sofar.next
           files == sofar.files
           nexts == {start} \union {FileOf(disk, a).extends : a \in StoredFiles(disk)}
<1>1. sofar \in [ok : BOOLEAN, files : Seq(StoredFiles(disk)), next : nexts]
    BY DEF Walked
<1> HIDE DEF nexts
<1>2. CASE ~ sofar.ok \/ Stops(disk, chain, at)
    <2>1. FileStep(disk, chain, sofar) = sofar
        <3>1. at \in Range(files) => at \in StoredFiles(disk)
            <4>1. files \in Seq(StoredFiles(disk))
                BY <1>1
            <4>2. \A i \in DOMAIN files : files[i] \in StoredFiles(disk)
                BY <4>1
            <4> QED
                BY <4>2 DEF Range
        <3> QED
            BY <1>2, <3>1 DEF FileStep, Stops
    <2> QED
        BY <1>2, <2>1 DEF Walked
<1>3. CASE sofar.ok /\ ~ Stops(disk, chain, at) /\ at \in Range(files)
    <2>1. FileStep(disk, chain, sofar) = [sofar EXCEPT !.ok = FALSE]
        BY <1>3 DEF FileStep, Stops
    <2>2. FileStep(disk, chain, sofar) \in [ok : BOOLEAN, files : Seq(StoredFiles(disk)), next : nexts]
        BY <1>1, <2>1
    <2>3. ~ FileStep(disk, chain, sofar).ok
        BY <1>1, <2>1
    <2> QED
        BY <2>2, <2>3 DEF Walked, nexts
<1>4. CASE sofar.ok /\ ~ Stops(disk, chain, at) /\ at \notin Range(files)
    <2> DEFINE longer == Append(files, at)
               parent == FileOf(disk, at).extends
               after == [ok |-> TRUE, files |-> longer, next |-> parent]
    <2>1. at \in StoredFiles(disk) /\ files \in Seq(StoredFiles(disk))
        BY <1>1, <1>4 DEF Stops
    <2>2. FileStep(disk, chain, sofar) = after
        <3>1. FileStep(disk, chain, sofar) = [sofar EXCEPT !.files = longer, !.next = parent]
            BY <1>4 DEF FileStep, Stops, FileOf
        <3> QED
            BY <1>1, <1>4, <3>1
    <2>3. /\ Len(files) \in Nat /\ DOMAIN files = 1..Len(files)
          /\ longer \in Seq(StoredFiles(disk)) /\ Len(longer) = Len(files) + 1
          /\ longer[Len(files) + 1] = at /\ \A i \in 1..Len(files) : longer[i] = files[i]
        <3>1. Len(files) \in Nat /\ DOMAIN files = 1..Len(files)
            BY <2>1
        <3> QED
            BY <2>1, <3>1, AppendProperties
    <2>4. /\ \A i, j \in DOMAIN files : files[i] = files[j] => i = j
          /\ \A i \in DOMAIN files :
               FileOf(disk, files[i]).extends = IF i = Len(files) THEN at ELSE files[i + 1]
          /\ Len(files) = n
        BY <1>4 DEF Walked
    <2>5. \A i \in DOMAIN files : files[i] # at
        BY <1>4 DEF Range
    <2>6. parent \in nexts
        BY <2>1 DEF nexts
    <2> HIDE DEF longer, files, parent, at
    <2>7. DOMAIN longer = 1..(Len(files) + 1)
        BY <2>3
    <2>8. ASSUME NEW i \in DOMAIN longer, NEW j \in DOMAIN longer, longer[i] = longer[j] PROVE i = j
        <3>1. (i \in DOMAIN files \/ i = Len(files) + 1) /\ (j \in DOMAIN files \/ j = Len(files) + 1)
            BY <2>3, <2>7
        <3> QED
            BY <2>3, <2>4, <2>5, <2>8, <3>1
    <2>9. ASSUME NEW i \in DOMAIN longer
          PROVE  FileOf(disk, longer[i]).extends = IF i = Len(longer) THEN parent ELSE longer[i + 1]
        <3>1. CASE i = Len(longer)
            BY <2>3, <3>1 DEF parent
        <3>2. CASE i # Len(longer)
            <4>1. i \in DOMAIN files /\ longer[i] = files[i]
                BY <2>3, <2>7, <3>2
            <4>2. CASE i = Len(files)
                BY <2>3, <2>4, <3>2, <4>1, <4>2
            <4>3. CASE i # Len(files)
                <5>1. i + 1 \in 1..Len(files)
                    BY <2>3, <4>1, <4>3
                <5> QED
                    BY <2>3, <2>4, <3>2, <4>1, <4>3, <5>1
            <4> QED
                BY <4>2, <4>3
        <3> QED
            BY <3>1, <3>2
    <2>10. after \in [ok : BOOLEAN, files : Seq(StoredFiles(disk)), next : nexts]
        BY <2>3, <2>6
    <2>11. Len(longer) = n + 1
        BY <2>3, <2>4
    <2>12. after.ok /\ after.files = longer /\ after.next = parent
        OBVIOUS
    <2> HIDE DEF after
    <2>13. Walked(disk, chain, start, n + 1, after)
        BY <2>8, <2>9, <2>10, <2>11, <2>12 DEF Walked, nexts
    <2> QED
        BY <2>2, <2>13
<1> QED
    BY <1>2, <1>3, <1>4

\* The files a schema is read from: it and those it extends, to the last.
ToTheLast(disk, chain, files) ==
    /\ files \in Seq(StoredFiles(disk))
    /\ \A i \in DOMAIN files :
         LET parent == FileOf(disk, files[i]).extends
         IN  IF i = Len(files) THEN Stops(disk, chain, parent) ELSE parent = files[i + 1]

LEMMA FilesAreWalkedToTheLast ==
    ASSUME NEW disk, IsFiniteSet(StoredFiles(disk)), NEW chain, NEW start, SchemaFiles(disk, chain, start).ok
    PROVE  ToTheLast(disk, chain, SchemaFiles(disk, chain, start).files)
<1> DEFINE all == StoredFiles(disk)
           top == Cardinality(all) + 1
           first == [ok |-> TRUE, files |-> <<>>, next |-> start]
           S == {sofar \in [ok : BOOLEAN, files : Seq(all),
                            next : {start} \union {FileOf(disk, at).extends : at \in all}] :
                    \E n \in Nat : Walked(disk, chain, start, n, sofar)}
           next == [p \in (1..top) \X S |-> FileStep(disk, chain, p[2])]
           Right(f) == f = [n \in 0..top |-> IF n = 0 THEN first ELSE FileStep(disk, chain, f[n - 1])]
<1>1. top \in Nat /\ Cardinality(all) \in Nat /\ top = Cardinality(all) + 1
    BY FS_CardinalityType
<1> HIDE DEF top
<1>2. Walked(disk, chain, start, 0, first)
    <2>1. first.ok /\ first.files = <<>> /\ DOMAIN <<>> = {} /\ Len(<<>>) = 0
        OBVIOUS
    <2>2. first \in [ok : BOOLEAN, files : Seq(all), next : {start} \union {FileOf(disk, at).extends : at \in all}]
        OBVIOUS
    <2> HIDE DEF first
    <2> QED
        BY <2>1, <2>2 DEF Walked
<1>3. first \in S
    BY <1>2
<1> HIDE DEF first
<1>4. \A sofar \in S : FileStep(disk, chain, sofar) \in S
    <2> SUFFICES ASSUME NEW sofar \in S PROVE FileStep(disk, chain, sofar) \in S
        OBVIOUS
    <2>1. PICK n \in Nat : Walked(disk, chain, start, n, sofar)
        OBVIOUS
    <2>2. Walked(disk, chain, start, n + 1, FileStep(disk, chain, sofar))
        BY <2>1, FileStepWalksOn
    <2>3. n + 1 \in Nat
        OBVIOUS
    <2> QED
        BY <2>2, <2>3 DEF Walked
<1> HIDE DEF S, all
<1>5. next \in [(1..top) \X S -> S]
    BY <1>4
<1>6. PICK f \in [0..top -> S] : Recurs(f, top, first, next)
    <2> HIDE DEF next
    <2> QED
        BY <1>1, <1>3, <1>5, RecursionIsThere
<1>7. Right(f)
    <2>1. f = [n \in 0..top |-> IF n = 0 THEN first ELSE next[<<n, f[n - 1]>>]]
        BY <1>6 DEF Recurs
    <2>2. ASSUME NEW n \in 0..top
          PROVE  (IF n = 0 THEN first ELSE next[<<n, f[n - 1]>>])
                   = (IF n = 0 THEN first ELSE FileStep(disk, chain, f[n - 1]))
        <3>1. n # 0 => <<n, f[n - 1]>> \in (1..top) \X S
            BY <1>1, <1>6
        <3> QED
            BY <3>1
    <2> HIDE DEF next
    <2> QED
        BY <2>1, <2>2
<1> DEFINE g == CHOOSE g : Right(g)
<1>8. Right(g)
    BY <1>7
<1>9. SchemaFiles(disk, chain, start) = g[top]
    BY DEF SchemaFiles, top, first, all
<1> HIDE DEF g
<1>10. \A n \in 0..top : g[n] = IF n = 0 THEN first ELSE FileStep(disk, chain, g[n - 1])
    BY <1>8
<1>11. g[0] = first /\ \A n \in 1..top : g[n] = FileStep(disk, chain, g[n - 1])
    BY <1>1, <1>10
<1>12. Walked(disk, chain, start, top, g[top])
    <2> DEFINE T == {n \in 0..top : Walked(disk, chain, start, n, g[n])}
    <2>1. 0 \in T
        BY <1>1, <1>2, <1>11
    <2>2. ASSUME NEW n \in 1..top, n - 1 \in T PROVE n \in T
        <3>1. n - 1 \in Nat /\ (n - 1) + 1 = n /\ Walked(disk, chain, start, n - 1, g[n - 1])
            BY <1>1, <2>2
        <3>2. Walked(disk, chain, start, (n - 1) + 1, FileStep(disk, chain, g[n - 1]))
            BY <3>1, FileStepWalksOn
        <3> QED
            BY <1>1, <1>11, <3>1, <3>2
    <2> HIDE DEF T
    <2>3. \A n \in 0..top : n \in T
        BY <1>1, <2>1, <2>2, Upwards
    <2>4. top \in T
        BY <1>1, <2>3
    <2> QED
        BY <2>4 DEF T
<1> DEFINE files == g[top].files
<1>13. /\ files \in Seq(all) /\ g[top].ok
       /\ \A i, j \in DOMAIN files : files[i] = files[j] => i = j
       /\ \A i \in DOMAIN files :
              FileOf(disk, files[i]).extends = IF i = Len(files) THEN g[top].next ELSE files[i + 1]
       /\ Stops(disk, chain, g[top].next) \/ Len(files) = top
    BY <1>9, <1>12 DEF Walked, all
<1> HIDE DEF files
<1>14. Len(files) <= Cardinality(all)
    <2>1. Len(files) \in Nat /\ DOMAIN files = 1..Len(files) /\ files = [i \in DOMAIN files |-> files[i]]
          /\ \A i \in DOMAIN files : files[i] \in all
        BY <1>13
    <2>2. files \in Injection(DOMAIN files, all)
        BY <1>13, <2>1 DEF Injection, IsInjective
    <2>3. Cardinality(DOMAIN files) <= Cardinality(all)
        BY <2>2, FS_Injection DEF all
    <2>4. Cardinality(DOMAIN files) = Len(files)
        BY <2>1, FS_Interval
    <2> QED
        BY <2>3, <2>4
<1>15. Stops(disk, chain, g[top].next)
    BY <1>1, <1>13, <1>14
<1>16. SchemaFiles(disk, chain, start).files = files
    BY <1>9 DEF files
<1> QED
    BY <1>13, <1>15, <1>16 DEF ToTheLast, all

-----------------------------------------------------------------------------
(* What a session gets of its profile.                                     *)

\* A library is finite and lists its edges.
Sound(disk) == IsFiniteSet(DOMAIN disk) /\ IsFiniteSet(StoredFiles(disk)) /\ Listed(disk)

LEMMA LibrariesAreSound ==
    ASSUME NEW disk \in Libraries
    PROVE  Sound(disk)
<1>1. /\ IsFiniteSet(DOMAIN disk)
      /\ \A p \in DOMAIN disk :
           /\ IsFiniteSet(DOMAIN disk[p].files)
           /\ \A n \in DOMAIN disk[p].files : \A path \in DOMAIN disk[p].files[n].stages :
                disk[p].files[n].stages[path].edges \in Seq(Range(disk[p].files[n].stages[path].edges))
    BY LibrariesAssumption
<1> DEFINE Of(p) == {<<p, n>> : n \in DOMAIN disk[p].files}
           each == {Of(p) : p \in DOMAIN disk}
<1>2. IsFiniteSet(StoredFiles(disk))
    <2>1. IsFiniteSet(each)
        <3> DEFINE f == [p \in DOMAIN disk |-> Of(p)]
        <3>1. f \in Surjection(DOMAIN disk, each)
            BY DEF Surjection
        <3> HIDE DEF f, each
        <3> QED
            BY <1>1, <3>1, FS_Surjection
    <2>2. ASSUME NEW p \in DOMAIN disk PROVE IsFiniteSet(Of(p))
        <3> DEFINE g == [n \in DOMAIN disk[p].files |-> <<p, n>>]
        <3>1. g \in Surjection(DOMAIN disk[p].files, Of(p))
            BY DEF Surjection
        <3> HIDE DEF g, Of
        <3> QED
            BY <1>1, <3>1, FS_Surjection
    <2>3. \A T \in each : IsFiniteSet(T)
        <3> HIDE DEF Of
        <3> QED
            BY <2>2
    <2>4. StoredFiles(disk) = UNION each
        BY DEF StoredFiles
    <2> HIDE DEF each
    <2> QED
        BY <2>1, <2>3, <2>4, FS_UNION
<1>3. Listed(disk)
    <2> SUFFICES ASSUME NEW at \in StoredFiles(disk), NEW path \in DOMAIN FileOf(disk, at).stages
                 PROVE  FileOf(disk, at).stages[path].edges \in Seq(Range(FileOf(disk, at).stages[path].edges))
        BY DEF Listed
    <2>1. \E p \in DOMAIN disk : \E n \in DOMAIN disk[p].files : at = <<p, n>>
        BY DEF StoredFiles
    <2>2. PICK p \in DOMAIN disk : \E n \in DOMAIN disk[p].files : at = <<p, n>>
        BY <2>1
    <2>3. PICK n \in DOMAIN disk[p].files : at = <<p, n>>
        BY <2>2
    <2>4. FileOf(disk, at) = disk[p].files[n]
        BY <2>3 DEF FileOf
    <2> QED
        BY <1>1, <2>4
<1> QED
    BY <1>1, <1>2, <1>3 DEF Sound

\* What is resolved of one schema: all it extends, merged.
WholeSchema(disk, chain, got) ==
    /\ got.kind = "schema" /\ got.owners # <<>> /\ ToTheLast(disk, chain, got.owners)
    /\ got.stages = MergedFiles(disk, got.owners)

LEMMA ResolvedSchemasAreWhole ==
    ASSUME NEW disk, Sound(disk), NEW chain, NEW name, ResolveSchema(disk, chain, name) # ProfileError
    PROVE  WholeSchema(disk, chain, ResolveSchema(disk, chain, name))
<1> DEFINE owner == Min({i \in Declaring(disk, chain, "schemas") : name \in disk[chain[i]].schemas})
           start == <<chain[owner], name>>
           walked == SchemaFiles(disk, chain, start)
           got == [kind |-> "schema", owners |-> walked.files, stages |-> MergedFiles(disk, walked.files)]
<1> HIDE DEF owner
<1>1. /\ walked.ok /\ walked.files # <<>>
      /\ ResolveSchema(disk, chain, name) = got
    BY DEF ResolveSchema, owner
<1>2. ToTheLast(disk, chain, walked.files)
    BY <1>1, FilesAreWalkedToTheLast DEF Sound
<1>3. got.kind = "schema" /\ got.owners = walked.files /\ got.stages = MergedFiles(disk, walked.files)
    OBVIOUS
<1> HIDE DEF walked, got
<1> QED
    BY <1>1, <1>2, <1>3 DEF WholeSchema

\* A profile that is resolved has a chain, and its schemas are whole.
LEMMA ResolvedProfilesAreWhole ==
    ASSUME NEW disk, Sound(disk), NEW id, resolve(disk, id) # ProfileError
    PROVE  /\ profileChain(disk, id) # <<>>
           /\ resolve(disk, id).invariants = Nearest(disk, profileChain(disk, id), "invariants")
           /\ \A n \in DOMAIN resolve(disk, id).schemas :
                WholeSchema(disk, profileChain(disk, id), resolve(disk, id).schemas[n])
<1> DEFINE chain == profileChain(disk, id)
           schemas == [n \in Nearest(disk, chain, "schemas") |-> ResolveSchema(disk, chain, n)]
           profile == [kind |-> "profile", schemas |-> schemas, invariants |-> Nearest(disk, chain, "invariants")]
<1> HIDE DEF chain
<1>1. /\ chain # <<>> /\ \A n \in DOMAIN schemas : schemas[n] # ProfileError
      /\ resolve(disk, id) = profile
    BY DEF resolve, chain
<1>2. ASSUME NEW n \in DOMAIN schemas PROVE WholeSchema(disk, chain, schemas[n])
    <2>1. schemas[n] = ResolveSchema(disk, chain, n) /\ schemas[n] # ProfileError
        BY <1>1
    <2> HIDE DEF schemas
    <2> QED
        BY <2>1, ResolvedSchemasAreWhole
<1>3. profile.schemas = schemas /\ profile.invariants = Nearest(disk, chain, "invariants")
    OBVIOUS
<1> HIDE DEF schemas, profile
<1> QED
    BY <1>1, <1>2, <1>3 DEF chain

\* The schema a session runs is one of them.
LEMMA SelectedIsOneOfThem ==
    ASSUME NEW schemas, NEW wanted, selectSchema(schemas, wanted) # ProfileError
    PROVE  \E n \in DOMAIN schemas : selectSchema(schemas, wanted) = schemas[n]
<1> DEFINE chosen == IF wanted # "" THEN DOMAIN schemas \intersect {wanted} ELSE DOMAIN schemas
<1>1. Cardinality(chosen) = 1 /\ selectSchema(schemas, wanted) = schemas[CHOOSE n \in chosen : TRUE]
    BY DEF selectSchema
<1>2. chosen \subseteq DOMAIN schemas
    OBVIOUS
<1> HIDE DEF chosen
<1>3. chosen # {}
    BY <1>1, FS_EmptySet
<1> QED
    BY <1>1, <1>2, <1>3

\* What is read is whole and of the nearest.
LEMMA ReadIsWhole ==
    ASSUME NEW disk, Sound(disk), NEW id, NEW got,
           profileChain(disk, id) # <<>>, WholeSchema(disk, profileChain(disk, id), got)
    PROVE  /\ got.kind = "schema" /\ got.owners # <<>>
           /\ \A i \in DOMAIN got.owners :
                LET parent == FileOf(disk, got.owners[i]).extends
                IN  IF i = Len(got.owners)
                    THEN parent[1] \notin {id} \union Above(disk, id) \/ parent \notin StoredFiles(disk)
                    ELSE parent = got.owners[i + 1]
           /\ OfTheNearest(disk, got.owners, got.stages)
<1>1. {id} \union Above(disk, id) = Range(profileChain(disk, id))
    BY FollowedIsWhole DEF Sound
<1>2. OfTheNearest(disk, got.owners, got.stages)
    BY MergedIsOfTheNearest DEF WholeSchema, ToTheLast, Sound
<1> QED
    BY <1>1, <1>2 DEF WholeSchema, ToTheLast, Stops

\* A profile whose checks can be had is whole, and has a file of them if it declares any.
LEMMA ChecksAreOfAWholeProfile ==
    ASSUME NEW disk, Sound(disk), NEW id, getAllProfileInvariants(disk, id) # Unavailable
    PROVE  /\ Whole(disk, id) /\ \A p \in KnownProfiles(disk) : disk[p].json = "ok"
           /\ \/ \E p \in {id} \union Above(disk, id) : disk[p].checks # NotGiven
              \/ \E p \in {id} \union Above(disk, id) : disk[p].invariants = {}
              \/ \A p \in {id} \union Above(disk, id) : disk[p].invariants = NotGiven
<1> DEFINE chain == profileChain(disk, id)
<1>1. resolve(disk, id) # ProfileError
    BY DEF getAllProfileInvariants, CannotLoad
<1>2. chain # <<>> /\ resolve(disk, id).invariants = Nearest(disk, chain, "invariants")
    BY <1>1, ResolvedProfilesAreWhole
<1>3. /\ IsChain(disk, chain) /\ {id} \union Above(disk, id) = Range(chain)
      /\ Whole(disk, id) /\ \A p \in KnownProfiles(disk) : disk[p].json = "ok"
    BY <1>2, FollowedIsWhole DEF Sound
<1>4. Nearest(disk, chain, "invariants") = {} \/ Declaring(disk, chain, "checks") # {}
    BY <1>1, <1>2 DEF getAllProfileInvariants, CannotLoad
<1> HIDE DEF chain
<1>5. ASSUME Declaring(disk, chain, "checks") # {}
      PROVE  \E p \in Range(chain) : disk[p].checks # NotGiven
    BY <1>5 DEF Declaring, Range
<1>6. ASSUME Nearest(disk, chain, "invariants") = {}
      PROVE  \/ \E p \in Range(chain) : disk[p].invariants = {}
             \/ \A p \in Range(chain) : disk[p].invariants = NotGiven
    <2> DEFINE some == Declaring(disk, chain, "invariants")
    <2>1. CASE some = {}
        BY <2>1 DEF Declaring, Range
    <2>2. CASE some # {}
        <3>1. some \in SUBSET DOMAIN chain /\ DOMAIN chain \in SUBSET Nat
            BY <1>3, ChainsAreLists DEF Declaring
        <3>2. disk[chain[Min(some)]].invariants = {}
            BY <1>6, <2>2 DEF Nearest
        <3> HIDE DEF some
        <3>3. Min(some) \in DOMAIN chain
            BY <2>2, <3>1, MinIsTheLeast
        <3> QED
            BY <3>2, <3>3 DEF Range
    <2> QED
        BY <2>1, <2>2
<1> QED
    BY <1>3, <1>4, <1>5, <1>6

\* Whatever is on disk and whatever is asked: a profile is run only with all it
\* inherits, every entry of its schema is that of the nearest file that has one, and
\* no check passes that could not be had (profile-resolver.ts, schema-loader.ts,
\* invariants.ts).
THEOREM ProfilesAreAlwaysReadWhole == ProfileSpec => []ProfilesAreReadWhole
<1> DEFINE Inv == library \in Libraries /\ ProfilesAreReadWhole
<1>1. ProfileInit => Inv
    <2> SUFFICES ASSUME ProfileInit PROVE Inv
        OBVIOUS
    <2>1. resolution.said.kind # "schema" /\ moveChecks.passed = FALSE /\ resolution = NoResolution
        BY DEF ProfileInit, NoResolution, NotRun
    <2>2. library \in Libraries
        BY DEF ProfileInit
    <2> QED
        BY <2>1, <2>2 DEF ProfilesAreReadWhole, ChainsAreWholeOrRefused, FilesAreFollowed,
                          EntriesAreOfTheNearest, UncheckedIsNotPassed
<1>2. Inv /\ [ProfileNext]_profileVars => Inv'
    <2> SUFFICES ASSUME Inv, [ProfileNext]_profileVars PROVE Inv'
        OBVIOUS
    <2>1. Sound(library)
        BY LibrariesAreSound
    <2>2. CASE UNCHANGED profileVars
        BY <2>2 DEF profileVars, ProfilesAreReadWhole, ChainsAreWholeOrRefused, FilesAreFollowed,
                    EntriesAreOfTheNearest, UncheckedIsNotPassed
    <2>3. ASSUME NEW id, NEW wanted, ResolveEngine(id, wanted)
          PROVE  Inv'
        <3> DEFINE said == resolve(library, id)
                   got == IF said = ProfileError THEN said ELSE selectSchema(said.schemas, wanted)
        <3>1. /\ resolution' = [id |-> id, said |-> got] /\ library' = library /\ moveChecks' = moveChecks
              /\ resolution'.id = id /\ resolution'.said = got
            BY <2>3 DEF ResolveEngine
        <3>2. UncheckedIsNotPassed'
            BY <3>1 DEF ProfilesAreReadWhole, UncheckedIsNotPassed
        <3>3. CASE got = ProfileError
            <4>1. got.kind = "error"
                BY <3>3 DEF ProfileError
            <4> QED
                BY <3>1, <3>2, <4>1 DEF ProfilesAreReadWhole, ChainsAreWholeOrRefused, FilesAreFollowed,
                                        EntriesAreOfTheNearest
        <3>4. CASE got # ProfileError
            <4>1. said # ProfileError
                BY <3>4
            <4>2. \E n \in DOMAIN said.schemas : got = said.schemas[n]
                BY <3>4, <4>1, SelectedIsOneOfThem
            <4> HIDE DEF got
            <4>3. profileChain(library, id) # <<>> /\ WholeSchema(library, profileChain(library, id), got)
                BY <2>1, <4>1, <4>2, ResolvedProfilesAreWhole
            <4>4. Whole(library, id)
                BY <2>1, <4>3, FollowedIsWhole DEF Sound
            <4>5. /\ got.kind = "schema" /\ got.owners # <<>>
                  /\ \A i \in DOMAIN got.owners :
                       LET parent == FileOf(library, got.owners[i]).extends
                       IN  IF i = Len(got.owners)
                           THEN parent[1] \notin {id} \union Above(library, id) \/ parent \notin StoredFiles(library)
                           ELSE parent = got.owners[i + 1]
                  /\ OfTheNearest(library, got.owners, got.stages)
                BY <2>1, <4>3, ReadIsWhole
            <4>6. ChainsAreWholeOrRefused'
                BY <3>1, <4>4 DEF ChainsAreWholeOrRefused
            <4>7. FilesAreFollowed'
                BY <3>1, <4>5 DEF FilesAreFollowed
            <4>8. EntriesAreOfTheNearest'
                BY <3>1, <4>5 DEF EntriesAreOfTheNearest, OfTheNearest
            <4> QED
                BY <3>1, <3>2, <4>6, <4>7, <4>8 DEF ProfilesAreReadWhole
        <3> QED
            BY <3>3, <3>4
    <2>4. ASSUME NEW id, NEW files, ProcessInvariants(id, files)
          PROVE  Inv'
        <3>1. /\ moveChecks' = [id |-> id, files |-> files, passed |-> ChecksPass(library, id, files)]
              /\ library' = library /\ resolution' = resolution
            BY <2>4 DEF ProcessInvariants
        <3>2. ChainsAreWholeOrRefused' /\ FilesAreFollowed' /\ EntriesAreOfTheNearest'
            BY <3>1 DEF ProfilesAreReadWhole, ChainsAreWholeOrRefused, FilesAreFollowed, EntriesAreOfTheNearest
        <3>3. ASSUME ChecksPass(library, id, files), \E f \in files : f.supported
              PROVE  getAllProfileInvariants(library, id) # Unavailable
            BY <3>3 DEF ChecksPass
        <3>4. /\ moveChecks'.id = id /\ moveChecks'.files = files
              /\ moveChecks'.passed = ChecksPass(library, id, files)
            BY <3>1
        <3>5. UncheckedIsNotPassed'
            <4>1. ASSUME ChecksPass(library, id, files), \E f \in files : f.supported
                  PROVE  /\ Whole(library, id) /\ \A p \in KnownProfiles(library) : library[p].json = "ok"
                         /\ \/ \E p \in {id} \union Above(library, id) : library[p].checks # NotGiven
                            \/ \E p \in {id} \union Above(library, id) : library[p].invariants = {}
                            \/ \A p \in {id} \union Above(library, id) : library[p].invariants = NotGiven
                BY <2>1, <3>3, <4>1, ChecksAreOfAWholeProfile
            <4> QED
                BY <3>1, <3>4, <4>1 DEF UncheckedIsNotPassed
        <3> QED
            BY <3>1, <3>2, <3>5 DEF ProfilesAreReadWhole
    <2> QED
        BY <2>2, <2>3, <2>4 DEF ProfileNext
<1> QED
    BY <1>1, <1>2, PTL DEF ProfileSpec
=============================================================================
