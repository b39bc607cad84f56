---------------------------- MODULE MCComponents ----------------------------
(***************************************************************************)
(* The components that share nothing with one another, each on an instance *)
(* of its own: "running" names the one a behaviour is about.               *)
(***************************************************************************)
EXTENDS Consent, GuardLanguage, SchemaCompiler, ToolCalls, ChangeScope, ProfileAgents, Panels, Profiles, V2Host, Dashboard, RuleFiles, TaskCycles, TLC

VARIABLE running

-----------------------------------------------------------------------------
(* Consent: a plan of two documents, and a deployment that is asked about  *)
(* twice.  A request whose files were given as text is never asked for, as *)
(* one without the context of a message is not.                            *)
MCDocument == {"plan.md", "spec.md"}
MCContent == {[text |-> "v1", blanks |-> 0], [text |-> "v1", blanks |-> 1],
              [text |-> "v2", blanks |-> 0]}
MCFirstContent == [text |-> "v1", blanks |-> 0]
MCRequest(type, about) ==
    [asText |-> FALSE, type |-> type, files |-> about,
     grant |-> <<"ok">>, decline |-> <<"ok", "not">>]
MCRequestOf ==
    "plan1" :> MCRequest("plan", <<"spec.md", "plan.md">>) @@
    "deploy1" :> MCRequest("deploy", <<"plan.md">>) @@
    "deploy2" :> MCRequest("deploy", <<"spec.md">>)
MCPlanDocument == {"plan.md"}
MCQuestion == DOMAIN MCRequestOf
MCAnswers == {<< <<"ok">> >>, << <<"ok", "not">> >>, << <<"ok">>, <<"ok">> >>}

-----------------------------------------------------------------------------
(* Guards: what the operators of every level, calls and properties make of *)
(* one another two deep, guards of the profiles, and short rows of tokens. *)
MCNames == {"ok", "bad", "none", "zero", "blank", "t", "items", "session", "approved", "isExhausted",
            "hasPendingTasks", "allTasksCompleted", "ours", "every", "some", "plan", "constructor", "toString"}
str(s) == <<"string", s>>
num(n) == <<"number", n>>
MCLiterals == "'done'" :> str("done") @@ "'plan'" :> str("plan") @@ "''" :> str("") @@ "0" :> num(0)
MCBudget(attempts) == <<"object", [attempts |-> num(attempts), maximum |-> num(2)]>>
MCFact(ok, list, granted, statuses, attempts) ==
    [ok |-> Bool(ok), bad |-> Bool(FALSE), zero |-> num(0), blank |-> str(""), items |-> <<"list", list>>,
     approvals |-> <<"list", granted>>, retryBudgets |-> <<"object", "plan" :> MCBudget(attempts)>>,
     tasks |-> <<"object", "plan" :> <<"list", statuses>> @@ "other" :> <<"list", <<>>>> >>]
MCContext(facts, ours, loop, active) ==
    [facts |-> facts, guards |-> "ours" :> ours, loop |-> loop, active |-> active]
MCContexts ==
    {MCContext(MCFact(TRUE, <<str("done"), str("plan")>>, <<>>, <<str("completed"), str("pending")>>, 1),
               TRUE, {str("plan")}, {}),
     MCContext(MCFact(FALSE, <<str("done")>>, << <<"approval", str("plan"), "granted">> >>, <<str("completed")>>, 2),
               FALSE, {}, {str("plan")}),
     MCContext(MCFact(FALSE, <<>>, <<>>, <<str("completed")>>, 2), TRUE, {}, {str("plan"), str("other")})}

leaves == {Identifier("ok"), Identifier("bad"), Identifier("zero"), Identifier("blank"),
           Identifier("constructor"), Literal(str("plan")), Literal(str("")), Literal(num(0)),
           Member(Identifier("none"), "plan", FALSE), Member(Identifier("session"), "ok", TRUE),
           Member(Identifier("session"), "constructor", FALSE)}
plainLeaves == {Identifier("ok"), Identifier("bad"), Member(Identifier("none"), "plan", FALSE)}
operators == {"??", "||", "&&", "===", "<", "+", "*"}
MCAnyOf(left, right) == {Binary(o, l, r) : o \in operators, l \in left, r \in right}
shallow == leaves \union MCAnyOf(plainLeaves, plainLeaves)
           \union {Unary("!", l) : l \in leaves}
           \union {Ternary(a, b, c) : a, b, c \in plainLeaves}
MCOnItems(method, body) ==
    Call(Member(Identifier("items"), method, FALSE), <<Arrow(<<"t">>, body)>>, FALSE)
MCIsDone == Binary("===", Identifier("t"), Literal(str("done")))
MCOfSession(name) == Member(Identifier("session"), name, FALSE)
calls1 == {Call(f, <<Literal(str("plan"))>>, FALSE) :
             f \in {Identifier("approved"), MCOfSession("approved"), Identifier("isExhausted"),
                    Identifier("allTasksCompleted")}}
         \union {Call(f, <<>>, FALSE) :
                  f \in {Identifier("hasPendingTasks"), Identifier("allTasksCompleted"),
                         MCOfSession("allTasksCompleted"), Identifier("ours"), Identifier("toString"),
                         Identifier("none")}}
         \union {MCOnItems(m, b) : m \in {"every", "some"},
                  b \in {MCIsDone, Binary("||", MCIsDone, Member(Identifier("none"), "plan", FALSE))}}
MCWritten ==
    shallow \union MCAnyOf(shallow, plainLeaves) \union MCAnyOf(plainLeaves, shallow)
    \union {Unary("!", e) : e \in shallow \union calls1} \union calls1
    \union {Ternary(e, a, b) : e \in shallow, a, b \in {Identifier("ok"), Identifier("bad")}}
    \union {Ternary(a, b, e) : e \in shallow, a, b \in {Identifier("ok"), Identifier("bad")}}
    \union {Binary(o, a, b) : o \in {"||", "&&"}, a, b \in calls1}
    \union {Call(e, <<Identifier("ok"), e>>, FALSE) : e \in shallow}
    \union {Member(e, "plan", FALSE) : e \in shallow}
MCTokens ==
    UNION {[1..n -> {"ok", "'plan'", "||", "&&", "!", "(", ")", "?.", ",", "=>"}] : n \in 1..4}

-----------------------------------------------------------------------------
(* Schemas: every three edges of three stages, every three of a loop of    *)
(* two, and one mistake at a time in a schema that is otherwise right.     *)
MCBrokenGuard == "((("
MCWildMasks == {"src/**"}
MCBadPatterns == {"("}
MCUpTo(n, S) == UNION {[1..k -> S] : k \in 0..n}
ends == [outer |-> << <<"a", "b", "c">>, <<"a", "b", "c", "x">> >>,
         inner |-> << <<"p", "q", "x">>, <<"p", "q", "done", "x">> >>]
MCEdges(kind, numbers) ==
    [i \in DOMAIN numbers |-> Transition(ends[kind][1][1 + numbers[i] \div 4],
                                         ends[kind][2][1 + (numbers[i] % 4)])]
MCLoop(nested, edges) ==
    [Stage("b") EXCEPT !.loop = "impl", !.stages = nested, !.transitions = edges]
MCAround(loop, last) == Schema(<<Stage("a"), loop, last>>,
    <<Transition("a", "b"), [Transition("b", "b") EXCEPT !.guard = "g", !.bumpRetry = "cycles"],
      Transition("b", "c")>>, <<>>)
MCRight == MCLoop(<<Stage("p"), Stage("q")>>,
    <<Transition("p", "q"), [Transition("q", "p") EXCEPT !.guard = "g", !.bumpRetry = "task.id"],
      [Transition("q", "done") EXCEPT !.consent = TRUE]>>)
MCNestedP(p) == [MCRight EXCEPT !.stages[1] = p]
MCBash == [ActionEntry("bash") EXCEPT !.commands = <<"git commit">>, !.delivers = TRUE]
MCAssignment(result) == [priority |-> 1, condition |-> "g", result |-> result]
rules == << <<>>, <<MCAssignment("c")>>, <<MCAssignment("x")>>,
            <<[MCAssignment("c") EXCEPT !.condition = "((("]>> >>
oneMistake == <<
    MCAround([MCRight EXCEPT !.transitions[1].guard = "((("], Stage("c")),
    MCAround([MCRight EXCEPT !.transitions[3].guard = "((("], Stage("c")),
    MCAround([MCRight EXCEPT !.transitions[1].bumpRetry = "cycles"], Stage("c")),
    MCAround([MCRight EXCEPT !.transitions[3].bumpRetry = "task.id"], Stage("c")),
    MCAround(MCNestedP([Stage("p") EXCEPT !.exitGuards = {"((("}]), Stage("c")),
    MCAround(MCNestedP([Stage("p") EXCEPT !.exitGuards = {"g"}]), Stage("c")),
    MCAround(MCNestedP([Stage("p") EXCEPT !.transitions = <<Transition("p", "done")>>]), Stage("c")),
    MCAround(MCNestedP([Stage("p") EXCEPT !.unknownKeys = {"allowedAgent"}]), Stage("c")),
    MCAround(MCNestedP([Stage("p") EXCEPT !.dispatch = [strategy |-> "parallel", maxConcurrent |-> 0]]), Stage("c")),
    MCAround(MCNestedP([Stage("p") EXCEPT !.retryBudget = -1]), Stage("c")),
    MCAround(MCNestedP([Stage("p") EXCEPT !.loop = "task-17"]), Stage("c")),
    MCAround(MCRight, MCLoop(<<>>, <<>>)),
    MCAround(MCRight, [Stage("c") EXCEPT !.loop = "impl", !.stages = <<Stage("p")>>]),
    MCAround(MCRight, [Stage("c") EXCEPT !.entryGuards = {"((("}]),
    [MCAround(MCRight, Stage("c")) EXCEPT !.unknownKeys = {"phases"}],
    [MCAround(MCRight, Stage("c")) EXCEPT !.transitions[1].bumpRetry = "task.id"],
    MCAround(MCRight, [Stage("c") EXCEPT !.actions = <<MCBash>>]),
    MCAround(MCRight, [Stage("c") EXCEPT !.actions = <<[MCBash EXCEPT !.guard = "((("]>>]),
    MCAround(MCRight, [Stage("c") EXCEPT !.actions = <<[MCBash EXCEPT !.commands = <<>>]>>]),
    MCAround(MCRight, [Stage("c") EXCEPT !.actions = <<[MCBash EXCEPT !.action = "edit"]>>]),
    MCAround(MCRight, [Stage("c") EXCEPT !.actions = <<[MCBash EXCEPT !.commands = <<"(">>]>>]),
    MCAround(MCRight, [Stage("c") EXCEPT !.actions = <<[ActionEntry("edit") EXCEPT !.paths = <<"src">>]>>]),
    MCAround(MCRight, [Stage("c") EXCEPT !.actions = <<[ActionEntry("edit") EXCEPT !.paths = <<"src/**">>]>>]) >>
MCSchema(kind, edges, n) == [kind |-> kind, edges |-> edges, n |-> n]
MCSchemas == {MCSchema("outer", edges, n) : edges \in MCUpTo(3, 0..11), n \in DOMAIN rules}
             \union {MCSchema("inner", edges, n) : edges \in MCUpTo(3, 0..11), n \in 1..2}
             \union {MCSchema("mistake", <<>>, n) : n \in DOMAIN oneMistake}
MCSchemaOf(name) ==
    CASE name.kind = "outer" ->
           Schema(<<Stage("a"), Stage("b"), Stage("c")>>, MCEdges("outer", name.edges), rules[name.n])
      [] name.kind = "inner" ->
           MCAround(MCLoop(IF name.n = 1 THEN <<>> ELSE <<Stage("p"), Stage("q")>>,
                           MCEdges("inner", name.edges)), Stage("c"))
      [] OTHER -> oneMistake[name.n]

-----------------------------------------------------------------------------
(* Lines for bash: git behind wrappers and options, other programs, two    *)
(* commands with every separator and every quote.                          *)
MCWords(words) == [i \in DOMAIN words |-> <<words[i]>>]
MCGit(prefix, git, options, sub) == prefix \o <<git>> \o options \o <<sub>>
MCGitCommands ==
    {MCGit(prefix, git, options, sub) :
       prefix \in {<<>>, << <<"sudo">> >>, << <<"X=1">>, <<"env">> >>},
       git \in {<<"git">>, <<"/bin/", "git">>},
       options \in {<<>>, MCWords(<<"-C", ".">>), MCWords(<<"--git-dir=x", "-p">>)},
       sub \in {<<"status">>, <<"commit">>, <<"push">>}}
MCPrograms ==
    {MCWords(<<"cat", "x">>), MCWords(<<"rm", "x">>), MCWords(<<"sort", "-o", "x">>),
     MCWords(<<"sudo", "cat">>), MCWords(<<"echo", "x", ">", "y">>),
     MCWords(<<"find", "x", "-delete">>),
     << <<"echo">>, <<"x", ";", "git", " ", "push">> >>, << <<"cat">>, <<"#", "x">> >>}
\* Programs and subcommands that write for an argument, and options of wrappers.
MCArguments ==
    {MCWords(words) : words \in {
       <<"find", "x">>, <<"fd", "-x", "rm">>, <<"rg", "x", "--pre", "y">>, <<"tree", "-o", "y">>,
       <<"file", "-C", "x">>, <<"uniq", "x">>, <<"uniq", "x", "y">>, <<"sort", "x">>, <<"sort", "-uo", "x">>,
       <<"sort", "-ofile">>, <<"git", "branch">>, <<"git", "branch", "-d", "x">>, <<"git", "-C", "y", "branch", "x">>,
       <<"git", "remote">>, <<"git", "remote", "add", "x">>, <<"git", "symbolic-ref", "x">>,
       <<"git", "symbolic-ref", "x", "y">>, <<"git", "diff", "--output=file">>, <<"git", "add", "x">>,
       <<"sudo", "-u", "x", "git", "push">>, <<"env", "-i", "git", "commit">>, <<"nice", "git", "push">>,
       <<"nice", "-n", "x", "git", "status">>, <<"echo", "$", "x">>}}
     \union {<< <<"echo">>, <<"$", "(", "x">> >>, << <<"cat">>, <<"<", "(", "x">> >>}
MCSomeGit == {MCGit(<<>>, <<"git">>, MCWords(<<"-C", ".">>), sub) : sub \in {<<"status">>, <<"push">>}}
MCLine(commands, separator, quote, comment) ==
    [commands |-> commands, separator |-> separator, quote |-> quote, comment |-> comment]
MCQuotes == {"none", "squote", "dquote", "backslash"}
MCLines ==
    {MCLine(<<c>>, ";", quote, TRUE) :
       c \in MCGitCommands \union MCPrograms \union MCArguments, quote \in MCQuotes}
    \union {MCLine(<<c, d>>, separator, quote, FALSE) :
              c \in MCPrograms \union MCSomeGit, d \in MCPrograms \union MCSomeGit,
              separator \in {";", "newline"}, quote \in MCQuotes}

-----------------------------------------------------------------------------
(* Tools: two files and a document, a link from one to another,            *)
(* stages that leave all open, that list what may be done, and that ask    *)
(* for approval inside a loop.                                             *)
MCFile == {<<"src", "a">>, <<"src", "in", "b">>, <<"docs", "c">>}
MCNamedPath(name) ==
    CASE name = <<"src", "link">> -> <<"docs", "c">>
      [] name[1] = ".." -> Outside
      [] OTHER -> name
MCEntry(action, paths, commands, delivers) ==
    [ActionEntry(action) EXCEPT !.paths = paths, !.commands = commands, !.delivers = delivers]
MCCommit == MCGit(<<>>, <<"git">>, <<>>, <<"commit">>)
MCRemove == MCWords(<<"rm", "x">>)
MCPolicyStages == <<
    [Stage("open") EXCEPT !.actions = Unrestricted],
    [Stage("listed") EXCEPT !.actions =
        <<MCEntry("edit", << <<"src", "**">> >>, <<>>, FALSE), MCEntry("bash", <<>>, <<MCCommit>>, TRUE),
          MCEntry("bash", <<>>, <<MCRemove, MCWords(<<"cat", "x">>)>>, FALSE)>>],
    [Stage("loop") EXCEPT !.loop = "impl", !.actions = <<>>, !.stages =
        <<[Stage("p") EXCEPT !.actions = <<[MCEntry("edit", <<>>, <<>>, FALSE) EXCEPT !.guard = "g"]>>],
          [Stage("q") EXCEPT !.actions = Unrestricted]>>] >>
MCScope(writes, reads) == [writes |-> writes, reads |-> reads]
MCScopes == {MCScope(<< <<"src", "**">> >>, <<>>), MCScope(<< <<"docs", "*">>, <<"src", "in", "b">> >>, << <<"docs", "*">> >>)}
MCAsk(tool, names, commands) == [tool |-> tool, names |-> names, commands |-> commands]
MCAsked ==
    {MCAsk("write", {<<"src", "link">>}, <<>>), MCAsk("apply_patch", {<<"docs", "c">>, <<"src", "in", "b">>}, <<>>),
     MCAsk("edit", {<<"..", "d">>}, <<>>), MCAsk("read", {<<"docs", "c">>}, <<>>),
     MCAsk("bash", {}, <<MCCommit>>), MCAsk("bash", {}, <<MCCommit, MCRemove>>),
     MCAsk("bash", {}, <<MCRemove>>), MCAsk("bash", {}, <<MCWords(<<"find", "x", "-delete">>)>>)}

-----------------------------------------------------------------------------
(* Guardrails: two that block and one that counts, on every short text; a  *)
(* pattern whose gap may take in the marker of the guard it belongs to, as *)
(* "DAN ... prompt" does that of PROMPT_INJECTION.                         *)
MCGuard(id, severity, patterns, spam) ==
    [id |-> id, severity |-> severity, patterns |-> patterns, spam |-> spam]
MCGUARDS == <<MCGuard("prompt", "block", << <<"forget">>, <<"DAN", "...", "prompt">>, <<"ignore", "rules">> >>, 0),
              MCGuard("ROLE", "block", << <<"rules", "rules">>, <<"act", "rules">> >>, 0),
              MCGuard("SPAM", "warn", << <<"act">> >>, 2)>>
MCSpamWords == {"ignore", "stop"}
MCTexts == UNION {[1..n -> {"ignore", "rules", "forget", "act", "DAN", "stop"}] : n \in 1..5}

-----------------------------------------------------------------------------
(* Profiles: one that declares whom it ships and one that ships what it    *)
(* has, or one whose id goes on where the other ends; files of the user,   *)
(* one of which quotes the marker, and two that earlier runs left.         *)
MCProfileId == {<<"base">>, <<"base", "x">>, <<"web">>}
MCAgentName == {<<"code">>, <<"x", "code">>}
MCText(said, marker) == [marker |-> marker, text |-> said]
MCProfile(json, declared, names) ==
    [json |-> json, agents |-> declared, files |-> [n \in names |-> MCText("shipped", "none")]]
MCNoProfile == MCProfile("none", Undeclared, {})
MCFirstProfiles ==
    {(<<"base">> :> MCProfile("ok", {<<"code">>}, MCAgentName)) @@ (<<"base", "x">> :> MCNoProfile)
       @@ (<<"web">> :> MCProfile("ok", Undeclared, {<<"code">>})),
     (<<"base">> :> MCProfile("ok", Undeclared, {<<"code">>})) @@ (<<"web">> :> MCNoProfile)
       @@ (<<"base", "x">> :> MCProfile("ok", Undeclared, {<<"code">>}))}
MCFirstTargets ==
    {(<<"base", "code">> :> MCText("mine", "mentioned")) @@ (<<"web", "x", "code">> :> MCText("old", "owning"))
       @@ (<<"base", "x", "code">> :> MCText("old", "owning"))}

-----------------------------------------------------------------------------
(* Rules in the sidebar: two files of one name in two directories, in one, *)
(* and one for the project and one for all.                                *)
MCRule(origin, dir, stem, file, conditional) ==
    [source |-> origin, dir |-> dir, stem |-> stem, file |-> file, conditional |-> conditional]
MCFoundRules ==
    {{MCRule("project", <<"a">>, "x", "x.md", FALSE), MCRule("project", <<"a">>, "x", "x.mdc", TRUE)},
     {MCRule("project", <<"a", "c">>, "x", "x.md", FALSE), MCRule("project", <<"b", "c">>, "x", "x.md", TRUE)},
     {MCRule("project", <<>>, "x", "x.md", FALSE), MCRule("global", <<>>, "x", "x.md", TRUE)}}

-----------------------------------------------------------------------------
(* The panel: a root, its subagent and another root.                       *)
MCParentOf == "root" :> NoSession @@ "sub" :> "root" @@ "other" :> NoSession

-----------------------------------------------------------------------------
(* Profiles: three, each of which may extend another or one not there,     *)
(* with schemas that say something of a stage and of one nested in it; the *)
(* lists of checks and the files that hold them; and one that is torn.     *)
MCEdge(from, to, of) == [from |-> from, to |-> to, of |-> of]
MCSchemaFile(p, parent, n) ==
    [extends |-> IF parent = "" THEN NoParent ELSE <<parent, "s">>, stages |->
        CASE n = 1 -> <<>> :> [fields |-> "loop" :> p, edges |-> <<MCEdge("a", "b", p), MCEdge("b", "c", p)>>]
          [] n = 2 -> <<>> :> [fields |-> "agents" :> p,
                               edges |-> <<MCEdge("b", "c", p), MCEdge("a", "b", p \o "1"), MCEdge("a", "b", p \o "2")>>]
                      @@ <<"a">> :> [fields |-> <<>>, edges |-> <<MCEdge("p", "p", p)>>]
                      @@ <<"a", "p">> :> [fields |-> "gates" :> p, edges |-> <<>>]
          [] n = 3 -> <<>> :> [fields |-> <<>>, edges |-> <<>>]
                      @@ <<"a">> :> [fields |-> "loop" :> p, edges |-> <<>>]
                      @@ <<"a", "p">> :> [fields |-> "gates" :> p @@ "agents" :> p, edges |-> <<MCEdge("q", "q", p)>>]]
MCProfileAt == <<"c", "m", "r">>
MCPlace(p) == CHOOSE i \in 1..3 : MCProfileAt[i] = p
MCOnDisk(json, parent, names, schemaFiles, listed, checks) ==
    [json |-> json, extends |-> parent, schemas |-> names, files |-> schemaFiles, invariants |-> listed, checks |-> checks]
MCTrees ==
    {[p \in {"c", "m", "r"} |->
        LET i == MCPlace(p)
        IN  MCOnDisk("ok", e[i], IF p = "m" THEN NotGiven ELSE {"s"} \union second,
                     "s" :> MCSchemaFile(p, parents[i], contents[i])
                       @@ [n \in second \intersect {IF p = "r" THEN "t" ELSE ""} |-> MCSchemaFile(p, "", 1)],
                     NotGiven, NotGiven)] :
      e \in {e \in [1..3 -> {"", "c", "m", "r"}] : e[3] \in {"", "c"}} \union {<<"m", "x", "">>}, second \in {{}, {"t"}},
      parents \in {<<"m", "r", "">>, <<"m", "", "">>, <<"m", "c", "">>, <<"r", "", "">>},
      contents \in {<<1, 2, 3>>, <<2, 1, 2>>, <<3, 2, 1>>, <<2, 2, 2>>}}
MCLists ==
    {[p \in {"c", "m", "r"} |->
        MCOnDisk(IF p = "r" THEN chain.json ELSE "ok", chain.e[MCPlace(p)], NotGiven, <<>>, own[MCPlace(p)], has[MCPlace(p)])] :
      chain \in {[e |-> e, json |-> "ok"] : e \in {<<"m", "x", "">>, <<"m", "m", "">>}}
               \union {[e |-> <<"m", "r", "">>, json |-> j] : j \in {"ok", "none", "broken"}},
      own \in [1..3 -> {{}, {"LF"}, NotGiven}], has \in [1..3 -> {NotGiven, {"LF"}}]}
MCLibraries == MCTrees \union MCLists
MCChanged(supported, there, readable, breaks) ==
    [supported |-> supported, there |-> there, readable |-> readable, breaks |-> breaks]
MCChangedFile == {MCChanged(TRUE, TRUE, TRUE, {"LF"}), MCChanged(TRUE, TRUE, FALSE, {}),
                  MCChanged(TRUE, FALSE, FALSE, {}), MCChanged(FALSE, TRUE, TRUE, {"LF"})}

-----------------------------------------------------------------------------
(* The V2 host: one that offers all but commands, one that offers them and *)
(* neither tools nor agents, one that offers nothing of the kind; and a    *)
(* request with calls, results and a message that has no id.               *)
MCHostOffers == {{"session", "events", "tools", "agents"}, {"session", "events", "commands"}, {}}
MCMessage(id, role, parts) == [id |-> id, role |-> role, parts |-> parts]
MCHostRequests ==
    {<<MCMessage("", "system", << <<"text", "be">> >>),
       MCMessage("u1", "user", << <<"text", "do">>, <<"file", "x">> >>),
       MCMessage("a1", "assistant", << <<"reasoning", "why">>, <<"tool-call", "edit">> >>),
       MCMessage("t1", "tool", << <<"tool-result", "done">> >>)>>}
MCInjected == {<<MCMessage("rule", "user", << <<"text", "follow">>, <<"file", "y">> >>)>>}

-----------------------------------------------------------------------------
(* The rule cache: a global and a project directory.                       *)
MCRuleDirs == << {"global.md"}, {"project.md"} >>

-----------------------------------------------------------------------------
(* Task cycles: pairs of strategies for the outer and the inner loop, two   *)
(* at once where more than one may be; lists up to three, of tasks that    *)
(* write the same or nothing.                                              *)
MCDispatch(strategy, max) == [strategy |-> strategy, max |-> max]
MCCycles ==
    {[outer |-> MCDispatch("serial", 1), inner |-> MCDispatch("serial", 1)],
     [outer |-> MCDispatch("serial_with_overlap", 2), inner |-> MCDispatch("parallel", 1)]}
MCTaskPlans == {<<>>, <<"a">>, <<"none", "none", "a">>}

-----------------------------------------------------------------------------
(* A behaviour is one of one of the components.                            *)
allVars == <<running, consentVars, guardVars, schemaVars, shellVars, policyVars, changeVars, guardrailVars, agentVars, matchedVars, sidebarVars, panelVars, profileVars, hostVars, dashboardVars, ruleCacheVars, cycleVars>>

Init == /\ running \in {"consent", "guards", "schemas", "shell", "tools", "scopes", "guardrails", "profiles", "matched", "sidebar", "panel", "profileTree", "host", "dashboard", "ruleCache", "cycles"}
        /\ ConsentInit
        /\ GuardInit
        /\ SchemaInit
        /\ ShellInit
        /\ PolicyInit
        /\ ChangeInit
        /\ GuardrailInit
        /\ AgentInit
        /\ running # "profiles" => profiles = CHOOSE p \in MCFirstProfiles : TRUE
        /\ MatchedInit
        /\ running # "matched" => matched = [s \in Session |-> NoState]
        /\ SidebarInit
        /\ running # "sidebar" => found = CHOOSE f \in MCFoundRules : TRUE
        /\ PanelInit
        /\ ProfileInit
        /\ running # "profileTree" => library = CHOOSE l \in MCLists : TRUE
        /\ HostInit
        /\ running # "host" => adapter.left = SetupSteps({})
        /\ DashboardInit
        /\ running # "dashboard" => archiveDir = <<>>
        /\ RuleCacheInit
        /\ CycleInit
        /\ running # "cycles" => cycle = CHOOSE c \in MCCycles : TRUE

Next == /\ UNCHANGED running
        /\ \/ running = "consent" /\ ConsentNext /\ UNCHANGED <<guardVars, schemaVars, shellVars, policyVars, changeVars, guardrailVars, agentVars, matchedVars, sidebarVars, panelVars, profileVars, hostVars, dashboardVars, ruleCacheVars, cycleVars>>
           \/ running = "guards" /\ GuardNext /\ UNCHANGED <<consentVars, schemaVars, shellVars, policyVars, changeVars, guardrailVars, agentVars, matchedVars, sidebarVars, panelVars, profileVars, hostVars, dashboardVars, ruleCacheVars, cycleVars>>
           \/ running = "schemas" /\ SchemaNext /\ UNCHANGED <<consentVars, guardVars, shellVars, policyVars, changeVars, guardrailVars, agentVars, matchedVars, sidebarVars, panelVars, profileVars, hostVars, dashboardVars, ruleCacheVars, cycleVars>>
           \/ running = "shell" /\ ShellNext /\ UNCHANGED <<consentVars, guardVars, schemaVars, policyVars, changeVars, guardrailVars, agentVars, matchedVars, sidebarVars, panelVars, profileVars, hostVars, dashboardVars, ruleCacheVars, cycleVars>>
           \/ running = "tools" /\ PolicyNext /\ UNCHANGED <<consentVars, guardVars, schemaVars, shellVars, changeVars, guardrailVars, agentVars, matchedVars, sidebarVars, panelVars, profileVars, hostVars, dashboardVars, ruleCacheVars, cycleVars>>
           \/ running = "scopes" /\ ChangeNext /\ UNCHANGED <<consentVars, guardVars, schemaVars, shellVars, policyVars, guardrailVars, agentVars, matchedVars, sidebarVars, panelVars, profileVars, hostVars, dashboardVars, ruleCacheVars, cycleVars>>
           \/ running = "guardrails" /\ GuardrailNext /\ UNCHANGED <<consentVars, guardVars, schemaVars, shellVars, policyVars, changeVars, agentVars, matchedVars, sidebarVars, panelVars, profileVars, hostVars, dashboardVars, ruleCacheVars, cycleVars>>
           \/ running = "profiles" /\ AgentNext /\ UNCHANGED <<consentVars, guardVars, schemaVars, shellVars, policyVars, changeVars, guardrailVars, matchedVars, sidebarVars, panelVars, profileVars, hostVars, dashboardVars, ruleCacheVars, cycleVars>>
           \/ running = "matched" /\ MatchedNext /\ UNCHANGED <<consentVars, guardVars, schemaVars, shellVars, policyVars, changeVars, guardrailVars, agentVars, sidebarVars, panelVars, profileVars, hostVars, dashboardVars, ruleCacheVars, cycleVars>>
           \/ running = "sidebar" /\ SidebarNext /\ UNCHANGED <<consentVars, guardVars, schemaVars, shellVars, policyVars, changeVars, guardrailVars, agentVars, matchedVars, panelVars, profileVars, hostVars, dashboardVars, ruleCacheVars, cycleVars>>
           \/ running = "panel" /\ PanelNext /\ UNCHANGED <<consentVars, guardVars, schemaVars, shellVars, policyVars, changeVars, guardrailVars, agentVars, matchedVars, sidebarVars, profileVars, hostVars, dashboardVars, ruleCacheVars, cycleVars>>
           \/ running = "profileTree" /\ ProfileNext /\ UNCHANGED <<consentVars, guardVars, schemaVars, shellVars, policyVars, changeVars, guardrailVars, agentVars, matchedVars, sidebarVars, panelVars, hostVars, dashboardVars, ruleCacheVars, cycleVars>>
           \/ running = "host" /\ HostNext /\ UNCHANGED <<consentVars, guardVars, schemaVars, shellVars, policyVars, changeVars, guardrailVars, agentVars, matchedVars, sidebarVars, panelVars, profileVars, dashboardVars, ruleCacheVars, cycleVars>>
           \/ running = "dashboard" /\ DashboardNext /\ UNCHANGED <<consentVars, guardVars, schemaVars, shellVars, policyVars, changeVars, guardrailVars, agentVars, matchedVars, sidebarVars, panelVars, profileVars, hostVars, ruleCacheVars, cycleVars>>
           \/ running = "ruleCache" /\ RuleCacheNext /\ UNCHANGED <<consentVars, guardVars, schemaVars, shellVars, policyVars, changeVars, guardrailVars, agentVars, matchedVars, sidebarVars, panelVars, profileVars, hostVars, dashboardVars, cycleVars>>
           \/ running = "cycles" /\ CycleNext /\ UNCHANGED <<consentVars, guardVars, schemaVars, shellVars, policyVars, changeVars, guardrailVars, agentVars, matchedVars, sidebarVars, panelVars, profileVars, hostVars, dashboardVars, ruleCacheVars>>

Spec == Init /\ [][Next]_allVars
=============================================================================
