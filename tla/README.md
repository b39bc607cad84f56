# Verification of session-guard

session-guard is a plugin for the OpenCode host. It keeps one workflow session
per root chat session in a JSON file, and admits, records or refuses what the
agents of that conversation do according to the stage its workflow is in. This
directory holds TLA+ models of the parts whose order of events matters, TLC runs
that check them on small instances, and TLAPS proofs of what holds for any
instance.

Paths below are relative to `src/src/` unless they start otherwise.

## 1. The system

| Part | State it keeps | Operations | What makes it correct |
|---|---|---|---|
| `WorkflowStore` (`session/session-store.ts`) | session file, archive, lock file; per instance a promise chain per session | load, save, delete, archive | no update is lost between processes; the answer is the truth; every call is answered |
| `SessionExecutor` (`app/session-executor.ts`) | queue per root, the transaction under way (async-local), parent cache | run (outer and nested), rootOf, clear | a transaction is atomic; its effects follow its save; turns are in order; nested runs do not wait for themselves |
| Engine and stage graph (`domain/engine.ts`, `domain/task-movement.ts`, `schema/guard-evaluator.ts`, a profile's YAML) | stage, gates of the stage, cycles spent, outcome; all in the session | tryApplyTransitions, next stage of a task | the loop is left only when its work is done; cycles are spent on rejections |
| Operations (`domain/operation-lifecycle.ts`, `app/mutation-orchestrator.ts`) | `activeOperations` in the session, `liveMutations` in memory | begin, finish, fail, interrupt, expire, release | no dead operation blocks a live one; no live one is taken for dead |
| Changes and deliveries (`app/change-scope.ts`, `app/change-enforcement.ts`) | baselines, `changedFiles`, the permit of a commit | before and after an edit, before and after a commit | what a call changed is reported, and only that; a receipt is for the right files |
| Gates and verdicts (`app/workflow-gate-service.ts`, `app/workflow-result-settler.ts`) | gates and round of a run, attempts, pending decisions, processed call ids | applyGate, settle | a verdict counts once, and for the round it was given about; an exhausted budget leaves a decision |
| Tasks (`app/task-admission.ts`, `app/task-api.ts`) | task lists and lists of children, statuses, loop runs, contexts of active tasks | dispatch, set tasks, set status, decide | a loop admits what its strategy says; a stopped task stays stopped; no list stands still |
| Hooks and lifecycle (`app/runtime.ts`, `app/workflow-lifecycle.ts`, `app/tool-execution-policy.ts`) | none of their own | before/after hook, failure, error event, outcome, archive | a finished session says how and is archived |
| Consent (`app/consent-orchestrator.ts`, `app/consent.ts`) | approvals with the evidence of the documents shown | prepare, ask, answer | what is granted is what was shown |
| Admission of actions (`domain/action-admission.ts`, `app/scope-match.ts`, `domain/session-queries.ts`, `app/guardrails.ts`) | none | match masks and commands, read a shell line, sanitise output | no change passes for a read; an edit has one owner |
| Schemas and profiles (`schema/`, `app/profile-resolver.ts`, `app/invariants.ts`) | caches of what was loaded | resolve chains, merge, compile, parse and evaluate guards, choose checks | a schema that is accepted does not strand a session; a guard that breaks is shut |
| Rule delivery (`rules/rule-delivery.ts`) | ledger of delivered rules per session, queues of hooks and rules | durable turn, dispatch, admission, rescan | each rule once per context, and again after compaction |
| Rule selection (`rules/runtime.ts`, `rules/rule-filter.ts`, `rules/session-working-context.ts`, `rules/rule-discovery.ts`) | working context of a session, reads of the history, cache of rule files | the hooks of chat, tools, requests, compaction and events | rules are matched on what is there now |
| Matched rules (`rules/matched-rules-state.ts`) | a file per session, a queue of writes | write, merge | no merge is lost |
| Host adapters (`app/v2-plugin-adapter.ts`, ...) | registrations, the loop over events | setup, cleanup | nothing outlives the plugin; the host's messages survive |
| Profile agents (`app/profile-agent-sync.ts`, `app/v2-profile-agent-sync.ts`) | agent files in a directory shared with the user | sync, register | the user's files are kept; a roster is placed or reported |
| TUI and dashboard (`tui/`, `dashboard/`) | what they show | load, refresh, publish | they show the session that is open, and in the end its last state |
| CLI, smoke tests | none | | |

How they interact. The host calls hooks before and after every tool of an agent,
and the agents call the plugin's own tools. Each of these is a transaction of
`SessionExecutor` on the root session of the conversation: it loads the session
through `WorkflowStore`, lets the handler change the object, and saves it if it
changed. The handler's work (operations, gates, tasks, engine) is a function of
that object and of the schema its profile resolves to. What is not in the object is
`liveMutations` in memory, the lock file, the archive and the working tree. Another
plugin process may use the same directory. The same hooks feed the rules runtime,
which keeps its own state in memory, reads the history of the session from the host,
and writes the file of matched rules that the TUI reads. TUI and dashboard watch the
files of others and write none.

What is hard: hooks of one conversation interleave at every await and may come
late, twice or not at all; a process may stop between any two steps while its
operations and lock stay on disk; two processes save the same file; verdicts come
back to a session that has moved on meanwhile; histories are compacted and messages
removed while they are being read; users edit documents, profiles, rules and the
working tree at any time. `PROJECT.json` lists these hazards line by line.

## 2. Modules

| Module | Models | Extends / instantiates |
|---|---|---|
| `SessionStore` | `WorkflowStore` for one session: chains, lock file, revision check, rename, failures, crashes | |
| `SessionStore_proofs` | its theorems | `SessionStore`, TLAPS |
| `AtomicSession` | what `SessionExecutor` promises: all changes of a call at once or none, then its effects, then its answer | |
| `SessionExecutor` | root resolution and its cache, the queue, load, action, conditional save, deferred effects, `clear()`, and the tool that saves beside the queue | instance of `AtomicSession` (refinement) |
| `SessionExecutor_proofs` | its theorems, the refinement among them | `SessionExecutor`, TLAPS |
| `WorkflowGraph` | the base profile's stages and the engine that moves a session along them | |
| `OperationLifecycle` | operations and their attribution to runs | `WorkflowGraph` |
| `GateService` | verdicts, retries and the settling of results | `OperationLifecycle` |
| `Workflow` | one session under every hook and tool, as a state machine over these operators | `GateService` |
| `Workflow_proofs` | what its handlers, being functions of the session, keep and change; its theorems | `Workflow`, TLAPS |
| `TaskCycles` | lists of tasks and of their children, strategies, overlap, decisions, contexts | |
| `Consent` | questions, evidence over documents, answers | |
| `GuardLanguage` | the parser and the evaluator of guards, with their budgets | |
| `SchemaCompiler` | what compiling a schema refuses, and the ways through one that was accepted | |
| `Profiles` | chains of profiles, merged schemas, and the checks that run for a profile | |
| `ShellCommands` | a bash line split into commands and told apart | |
| `ToolPolicy` | the checks before a tool, scopes, actions of the stage, deliveries and mutations | `ShellCommands`, `SchemaCompiler` |
| `ChangeScope` | baselines and scopes of edits, permits and receipts of commits | |
| `Guardrails` | the replacement of what blocks in a tool's output | |
| `ToolCalls` | the hooks of a tool call side by side: its line is read, it is governed, its answer is sanitized | `ToolPolicy`, `Guardrails` |
| `Schemas_proofs` | the theorems about what an author declares and how calls are held to it | `ToolCalls`, `Profiles`, TLAPS |
| `RuleMatching` | what a rule declares, whether it applies, and how long its delivery lasts | |
| `RuleDelivery` | the ledger and the operations on it, as operators | `RuleMatching` |
| `RulesRuntime` | the rules' hooks of one session, as a state machine over these operators | `RuleDelivery` |
| `RulesRuntime_proofs` | its theorems | `RulesRuntime`, TLAPS |
| `RuleCache` | discovery of rule files, and the cache loads share | |
| `MatchedRules` | the file of matched rules and its queue | |
| `RuleFiles` | the two side by side: a rule is dropped neither on its way from its file nor on its way to that one | `RuleCache`, `MatchedRules` |
| `RuleFiles_proofs` | their theorems | `RuleFiles`, TLAPS |
| `ProfileAgents` | the sync of agent files, and the catalogue of the V2 host | |
| `V2Host` | registration, cleanup, events and messages of the V2 adapter | |
| `Components_proofs` | the theorems about five components that run on their own | `Consent`, `ChangeScope`, `ProfileAgents`, `V2Host`, `TaskCycles`, TLAPS |
| `RulesSidebar` | the rules panel and the coordinator of its loads | |
| `SessionPanel` | the panel of the session that is open | |
| `Panels` | the two side by side, as one process shows them | `RulesSidebar`, `SessionPanel` |
| `Dashboard` | loads, publications and pages of the dashboard | |
| `Display_proofs` | the theorems about what is shown | `Dashboard`, `Panels`, TLAPS |
| `MCSessionStore`, `MCSessionExecutor`, `MCWorkflow`, `MCRulesRuntime` | instances for TLC | |
| `MCComponents` | one instance of each component that shares nothing with the others, in one specification: `running` names the one a behaviour is about | the sixteen of them |

The first three layers lean on one another. `SessionStore` shows that a save is a
compare-and-write step; `SessionExecutor` uses it as one step (`Save`,
`SaveRefused`) and shows that a transaction is one step; `Workflow`, `TaskCycles` and
`Consent` use it as one: each of their actions on the session is a whole handler.

### SessionStore

`file`, `archived` and `lock` are the three files; `tail` and `prev` are the
promise chain (`locks` in the code); `pc` is where a call is in `save`,
`withFileLock` or `delete`. A payload is abstracted to the call that wrote it and
its revision. Time is abstracted to the two comparisons the lock loop makes: is
the lock older than `LOCK_STALE_MS` (`LockAges`), is the call past
`LOCK_TIMEOUT_MS` (`DeadlinePasses`). `StatLock` and `BreakLock` are two steps, as
`stat` and `unlink` are two awaits. `SlowHolders` says whether a live holder may
be slower than the stale age; `MaxCrashes` bounds crashes.

### SessionExecutor

`cache` is `parentCache`, `tail`/`prev` the queues. A call walks up the parents
(`Walk`, `AskHost`, `HostAnswers`, `HostFails`), joins the queue of its root
(`Join`), loads, makes its changes one await at a time (`Act`), returns or throws,
saves or is refused, runs its deferred effects. Cached hops are a step each, which
is finer than the code. A walk ends at a node it has passed: a root, or, were there a circle of parents, the
first node that comes again. A session's content is the sequence of the changes saved
in it, so a lost, halved or repeated change is visible. `Outside` calls are
`workflow-consent`, which loads and saves without the queue; `Swallows` is the V1
host adapter, which answers a failed lookup with null. Which node has a session is
a constant: creation and archive happen in other components. `joins`, `era` and
`place` are history variables for the property on order.

A nested `run()` on the root that is held is part of the outer action. What
justifies it is `NestedRunsAreInline`: the nested walk finds every hop in the
cache and arrives at the root held, so it never joins a queue.

### Workflow

The `session` variable is the record in the file; `live` is `liveMutations`;
`calls` is what the host is running; `archive` is the deferred effect. `judged`
in the session is history: the gates decided since the stage was entered. A call
id is a slot that a later call may reuse once nothing remembers it.

`Feature` names what the environment does in a run (see the module's comment), so
that each run varies one kind of trouble. What is abstracted:

- documents, agents' texts, diffs and commands: what the code decides from them
  (a valid marker, checks that pass or fail, offending files) is a free choice;
- rosters, which base leaves empty, so every agent may verify; write scopes, child
  lists and `activeTaskContexts`, which are in `TaskCycles`; `verifications`, which no
  guard of base reads;
- the cap of 500 processed call ids;
- the two transactions of the error event, merged into one;
- consent: `AskPlan` and `AnswerPlan` keep what transitions read; the rest is in `Consent`;
- the after hooks of tools that change nothing themselves: `OtherTool`.

### TaskCycles

The schema has a loop over one list and in it a loop over `$currentTask.id`, so that
every task may have a list of children, to any depth. `taskLists`, `taskRuns`,
`taskContexts` and `retryQuestions` are `tasks`, `loopRuns`, `activeTaskContexts` and
`pendingDecisions` of the session; `written` is history, the tasks whose status the
controller wrote. A dispatch opens a run or goes on with the open one; a call moves its
run on, ends or is sent back; a budget may be spent at any time, which `SendBack`
chooses. "failed" and "cancelled", which the code treats alike here, are one status.
Both loops have two stages passed through in order; gates, late answers and edits as
such are in `Workflow`.

### Consent

`documents` are files on disk, a digest is the text without what canonicalisation
drops. Documents are read before the question's transaction (`Ask`), which is
another step (`Record`); `Answer` reads them again. Several calls may ask, for one type
or several, and be shown again. `decisions` is history: what the operator said and what
his documents held then. A tag whose files were given as text is read by no parser.

### GuardLanguage, SchemaCompiler and Profiles

Pure algorithms, each as operators with a state machine of one or two steps around them:
something is written, and something is asked of it. `GuardLanguage` has the parser as
mutually recursive operators over tokens, and the evaluator with what it counts;
`Meaning` is the reference definition it is compared with, and `Show` writes a tree with
no more brackets than the precedences ask for. A name is looked for as the code does, with
`in`: in parameters, built-ins, the profile's own guards and the session, and with what every
object inherits (`InheritedNames`); the built-ins `approved`, `isExhausted`,
`hasPendingTasks` and `allTasksCompleted` are those of `guard-evaluator.ts`, and 0 and '' are
not true. Bracket access, array literals and arithmetic on other things than numbers are left
out. `SchemaCompiler` compiles a
schema and then walks a session and a task through it, with every guard open.
`Profiles` has chains of `extends` over profiles and over schemas, stages as paths, and
every value tagged with the file it is from; then the move of a session with its checks.

### ShellCommands, ToolPolicy, ChangeScope, Guardrails

`ShellCommands` scans a line symbol by symbol; what is scanned is written from commands
with separators, quotes and a comment, so that the answer can be compared with what was
meant. A comment before a newline is left out (see section 5). The two lists of what reads,
`READ_ONLY_COMMANDS` and `READ_ONLY_GIT_SUBCOMMANDS`, are those of the code, whole. What a
command does is said apart from them: `ChangesByItself` is what changes something whatever it
is given, `ChangesByArgument` what reads as a rule and changes something for one of its
arguments (`find -delete`, `uniq in out`, `git branch name`; not every such option of every
program, see `WritingOptions`); and a program is what is behind wrappers and their options
(`IsProgram`). `ToolPolicy` puts the
checks of a call in their order over a stage that moves, tasks that come and go, and
calls in flight; paths are sequences of segments, masks have `*` and `**`. `ChangeScope`
has a working tree, HEAD, two calls in flight and the user, who edits and commits;
contents are numbers, so that an undone change is an equal one. `Guardrails` has a
text as a sequence of fragments.

### RuleMatching, RuleDelivery, RulesRuntime

A rule is [identity, path, conditions, match, hooks], a condition the set of the values
it accepts. `RuleDelivery` is the ledger of `DefaultRuleDelivery` as operators. In
`RulesRuntime` a handler is a call of a hook by the host; it awaits reads of the history,
the list of tools, the answer of an admission and its turn in the queue, and everything
else happens in between. The history, removals and compactions are external. `overtaken`
is history: the ledger is built on a read from before the last invalidation; so is `counted.rescans`,
the turns that read in vain and asked for a rescan of a ledger filled meanwhile.

### RuleCache and MatchedRules

`RuleCache`: `onDisk` has a time and a text per file, `ruleCache` is the map all loads of
the process share, `reading` is where each load is: `stat`, look-up, `readFile` and the
writing of the entry are steps, since each follows an await. `had` is history: what a
file was since the load began. `MatchedRules`: the promise chain per session, with reading
and writing as two steps, and writes that fail unseen.

### ProfileAgents and V2Host

`ProfileAgents`: every operation on the disk is a step and may fail, the user edits in
between and the process may die. A write is two steps, since `writeFile` empties a file before
it fills it. The error paths are the code's: what it reports goes to `outcome`, and what it
takes for something that is not there (a roster, a `profile.json` read again, the listing of the
targets, a stale file, the listing for the ignore file) has that effect and no report; `swallowed`
is history, the names such a failure is about. An id and a name are sequences of parts that `_`
joins, because ids and names may hold one. `calm` and `seen` are history as well. `V2Host`: the
registrations in their order, each of which the host may refuse, disposal one by one,
two callers of the cleanup, the loop over events, and the rewriting of a request.

### RulesSidebar, SessionPanel and Dashboard

Each follows the awaits of its loads. `RulesSidebar` has the coordinator's `requestId`,
retries, pending refresh and target, and which entries a load makes of rules that share a name.
`SessionPanel` has `generation`, the timer and one load at a time. `Dashboard` has the load of
the archive and then of the runtime directory, file by file, while sessions are
saved and archived, the publisher that stands down, and pages that connect.

## 3. Runs

| Run | Instance | What it shows |
|---|---|---|
| `store_saves` | 2 hosts, 2 saves each, no crash, holders in time | one call under the lock; nothing between check and rename; no update lost; the object's revision agrees with the answer |
| `store_settles` | a creation and an archive on one host, either on the other, one crash, slow holders, fairness | every submitted call is answered; a lock left by a dead process is broken |
| `store_dead_lock` (violation) | as `store_saves`, with one crash | two waiters break the same dead lock and the second unlinks the first one's: an update is lost |
| `executor_runs` | 3 nodes in a chain, two handlers in the deepest with 2 and 1 changes, one writer outside, one `clear()`, failures anywhere, fairness | a run is atomic (refinement of `AtomicSession`); turns in order; only roots are memoised as roots; nested runs are inline; every call is answered |
| `workflow_serial` | 2 tasks, 1 call slot, edits without dispatch, replanning at any stage | one open run; the loop is left only without one; its list is not replaced under it |
| `workflow_failures` | 1 task, 2 calls, edits, errors, restarts, expiry | no dead edit blocks; no running call loses its operation |
| `workflow_controller` | 1 task, 2 calls, controller, errors, late and double answers | a run moves only by the first answer of a call of its own round; a stopped task is not revived |
| `workflow_finishes` | 1 task, 2 calls, 2 declared gates and one that is not, 2 attempts, fairness | outcome, archive and decisions are there when they must be; stage verdicts come from verifiers; operations end |
| `workflow_late_verdict` (violation) | 1 task, 2 calls, edits, expiry | a task's verdict is recorded for the whole stage once its operation has expired |
| `workflow_cycle_burned` (violation) | 1 task, 1 call, 2 cycles | a rejection answered by rework rejects the rework, unjudged |
| `rules_runs` | 3 rules, the handler of the loop beside that of a tool, 2 messages, one call, one request, one compaction or removal, one lost answer or eviction | the queue moves; what counts as delivered is in the history; turns do not use overtaken reads; nothing is stored twice; no hook is lost |
| `components_runs` | sixteen instances, listed below | the properties of those components |

Four more configurations are of `MCComponents` and no runs of `PROJECT.json`. Each asks for one
sentence of the repository that the code does not keep, and ends with a counterexample
(section 5): `guards_undeclared` (`UndeclaredNamesDoNotOpen`), `shell_reads_write`
(`ReadsChangeNothing`), `shell_wrapper_options` (`PushesAreSeen`) and `agents_swallowed`
(`FailuresAreReported`).

The instances of `components_runs`:

| Component | Instance | What it shows |
|---|---|---|
| Consent | 2 documents, 3 questions (two for one type), 3 shown, 1 edit, 1 refused save | `OneApprovalPerType`, `GrantIsTheOperators` |
| GuardLanguage | trees of every operator and call, two deep, with inherited names; all rows of up to 4 of 10 tokens; 3 contexts; depth 8, 12 steps, 2 callbacks | an expression means what its author wrote (`ParsesAsWritten`, `NothingWrittenIsLost`), and opens only when it holds (`OpensWhenItHolds`, but for guards with an inherited name) |
| SchemaCompiler | every 3 edges between 3 stages, every 3 in a loop of 2, and 23 schemas with one thing changed | `AnEndCanBeReached`, `DeclaredIsReachable`, `TaskStaysInItsLoop`, `NoAskedGuardIsBroken` |
| ShellCommands | 1 and 2 commands: git behind wrappers, their options and its own; programs of the lists, plain and with arguments that write; writers; every quote and separator | `SegmentsAreCommands`, `ChangingIsSeen` |
| ToolPolicy | 3 files, a link, 3 stages, 2 tasks, 2 calls of 8 | `WritesHaveOneOwner`, `UngovernedCallsAreDeclared`, `OperationsEndWithTheirCall` |
| ChangeScope | 2 files, 2 calls in flight of 3, 2 commits, 1 step of the user | `ChangesAreReported`, `RightCommitsAreReceipted` |
| Guardrails | 3 guards, every text of up to 5 of 6 fragments | `NothingBlockedIsLeft` |
| ProfileAgents | 3 profiles, 2 names, files of the user and of earlier runs, 2 syncs, 2 troubles: any read, write or removal fails, the user edits, the process dies | `UsersFilesAreKept`, `RosterIsPlacedOrReported`, `IgnoreListsTheManaged`, `RegisteredWasPlaced` |
| MatchedRules | 1 session, 2 rules, 3 writes or merges | `MergesSurvive` |
| RulesSidebar | 2 sessions, 2 retries, 3 events | `ShownIsOfTheTarget`, `NoRefreshIsLost`, `OneLoadAtATime`, `NamesTellRulesApart` |
| SessionPanel | a root, its subagent, another root, 4 events | `OnlyTheOpenIsPutUp`, `AtRestItIsCurrent` |
| Profiles | every chain of 3 profiles whose last ends or turns back to the first, one with a missing parent, schemas that extend along 4 patterns; lists and files of checks | `ChainsAreWholeOrRefused`, `FilesAreFollowed`, `EntriesAreOfTheNearest`, `UncheckedIsNotPassed` |
| V2Host | 3 kinds of host, 2 callers of the cleanup, 2 events, 2 troubles | `NothingOutlivesThePlugin`, `CleanedUpOnce`, `EventsAreHandledInOrder`, `HostMessagesSurvive` |
| Dashboard | 1 session beside its archived namesake, 1 page, 4 steps of the store | `ToldChangesTookPlace`, `PagesCatchUp` |
| RuleCache | 2 files in 2 directories, 2 loads, 3 steps of the user | `SnapshotsAreOfTheLoad`, `NoRuleIsSkipped` |
| TaskCycles | 3 tasks, lists of up to 3, 2 runs, serial in serial and parallel in overlapping | `OpenRunsAreApart`, `RunsKeepTheirPlace`, `SomethingIsAdmissible`, `OverlapKeepsOrder`, `SavesAreAccepted`, `DecisionsFindTheirRun` |

The run checks these joined: `ConsentIsOfWhatWasShown`, `GuardsMeanWhatIsWritten`,
`AcceptedSchemasLeadOn`, `ProfilesAreReadWhole`, `ScopesAndReceiptsAreTrue`,
`SyncsKeepAndReport`, `HostIsLeftIntact`, `PagesAreToldTheTruth` and `ListsAndRunsAgree`
each join those of one module, at its end; `ToolCallsAreGuarded` joins `LinesAreReadAsWritten`
(`ShellCommands`), `CallsAreGoverned` (`ToolPolicy`) and `NothingBlockedIsLeft` in `ToolCalls`, `NoRuleIsDropped` (`RuleCache`'s
`NoRuleIsSkipped`, `MatchedRules`) in `RuleFiles` and `PanelsShowTheOpen` (`RulesSidebar`,
`SessionPanel`) in `Panels`. In the same way `RulesReachTheModelOnce` and `TurnsForgetNothing` join
what `rules_runs` shows, and `EndsAreRecorded` joins `OutcomeRecorded` and
`DecisionIsResolvable`. To find the part that fails, put the parts into the cfg.

Bounds. Two processes and two calls in each are what the lock and the chain can
tell apart: a race needs two holders, a chain two links, and with `store_saves` a
third call waits while two race. Three nodes are the shortest conversation in which a
hop between the call's node and the root can be cached by one walk and missing for
another. In `Workflow`, budgets of 1 and 2 reach both sides of exhaustion, two runs
a second cycle or a second task, two calls any race of two answers; the orders
between three or more answers are what the runs do not cover. In `RulesRuntime`, two
handlers are the fewest of which one reads while the other delivers; one invalidation
and one mishap can fall into any await of either, but two of a kind never fall into one.
In `components_runs`, two loads, callers or calls are a race, and the events, edits and
troubles are as many as one race needs and one more, except in the dashboard and the task
cycles: with two sessions or three runs these grow beyond what a run of some minutes
covers, so that orders among three open runs, and two sessions that move into the archive
during one load, are left out. Every bound is a constant named `Max...`, with its meaning
in the module. Deadlock checking is off everywhere: calls are used up, workflows end
and bounded counters run out.

Fairness. In `SessionStore` and `SessionExecutor`, each call's next step is weakly
fair: the event loop runs a promise that is ready, file operations return, the
host answers a lookup or fails, and no action hangs. `LockAges` and `DeadlinePasses`
are fair because clocks advance. In `Workflow`, the host ends every call it began
(`HostEnds`) and the deferred archive runs. Nothing is assumed of agents: that a
verdict comes, that it is positive, or that a user answers, is never assumed. The
other modules are checked for safety; what must happen in the end there is stated of the states at
rest (`MergesSurvive`, `AtRestItIsCurrent`, `PagesCatchUp`, `SomethingIsAdmissible`, `QueueMoves`).

Each property, and each part of a property that joins several, has a mutant: a
definition of the code changed by a plausible error, defined next to the original and
marked `Mutant:`, under which it fails. `PROJECT.json` lists one for every property of a
passing run; the mutants of the other parts were each found to break the part they are
meant for.

## 4. Proofs

All are for any number of calls, hosts, nodes, loads and files; of tasks, lists, gates and budgets; of
questions, documents and edits; of sessions, pages and writes; of rules, messages and handlers; of
stages, edges, profiles and masks; of commands, words and guards.
Nothing but the assumptions of the modules on their constants, and what the table names, is assumed.

| Theorem | Assumes | Argument |
|---|---|---|
| `TypeCorrect`, `ExecutorTypeCorrect` | | `TypeOK` is inductive |
| `RevisionCorrect` | | `RevisionInv`: what the object's revision is at every place of a save, not only at its end; any crashes |
| `LockMutualExclusion` | `Healthy`: no crash, no holder slower than the stale age | `LockInv`: a call under the lock is the one named in the lock file, and no lock is stale. Without `Healthy` it is false (`store_dead_lock`) |
| `CheckAndWriteAtomic` | `Healthy` | the file changes only under the lock (`FileChangesUnderLock`) |
| `UpdatesNotLost` | `Healthy`, only saves | `ContentInv` relates the revision a call passed the check with to the content it was loaded from: equal revisions are equal contents, because revisions never restart while sessions are only saved |
| `MemoisedRootsAreRoots`, `NestedRunsStayInline` | `~ Swallows`; `Forest`: the parents form no circle | `WalkInv`: a memoised hop leads to a node above (`Above`, least set closed under parents), every node passed over has a hop as well (`KnownUpTo`), so does a walk under way; a nested walk never leaves the cache and, as parents form no circle, comes to the root (`HopsLeadTo`) |
| `TurnsAreTakenInOrder` | | `QueueInv`: the tail is the last of its era in the queue; a call's predecessor is the one before it by place; the first of an era waits for none. Order follows by the predecessor's being settled |
| `RunImplementsAtomicSession` | | `ContentInv`: what was loaded is what the file holds if their revisions agree; the changes made are a prefix of those of the action, and all of them from `saving` on; who has changed a file is past its save. Each step then maps to `Commit`, `RunEffects`, `Answer` or a stutter |
| `CacheInvInit`, `CacheInvStep`, `SnapshotsAreOfTheLoadAlways` | each write gives the file a new mtime | a text is numbered by its write, and so is its time: an entry's text is never older than its time (`CacheFits`), because the time is taken before the text is read. A load that finds an entry of the time it has looked at gets a text at least as late as that time, and every such text was on disk during the load (`LateTextsBelong`), also one that another load is only about to cache |
| `NoRuleIsEverDropped` | `DirectoriesAreApart`: no file is in two of the directories that are read (section 5) | `RowsInv`: what a load has taken and what it has still to look at are one row of names, in the order the directories list them (`NameIn`); an answer moves one name from the one part to the other, or leaves it out when the file was gone, so that at the end only files that were gone are missing (`LoadedRowsAreWhole`). `MatchedInv`: what a file of matched rules will hold once its queue is worked off (`Final`: the last write and the merges after it) is what was asked for, and working off the head of the queue does not change it |
| `TypeCorrect` (of `Workflow`), `OneRunIsOpen`, `OpenRunsStayListed`, `NoLockIsLeft` | | Every handler is a function from a session to a session. The first part of the proofs shows of each what it keeps (`Sound`) and what it may change; `Inv` adds what every operation on record knows of the host's call (`Matched`: a mutation is live exactly while its call runs, a task was dispatched for its run in its round). `StepEffects` says what one step does to both, and the rest follows from that alone |
| `VerdictsBelong`, `StoppedTasksStay`, `RunningCallsKeepTheirs` | | action properties, from `Inv` and `StepEffects`: a run moves only by the call its operation names, and that call is taken off the record in the same step |
| `StageVerdictsBelong` | no "expiry", "controller" or "late" in `Feature` | every call that runs owns an operation (`AllOwned`), so that no answer is taken for the stage's by default. With expiry it is false (`workflow_late_verdict`) |
| `LoopLeftDone`, `DecisionsAreResolvable` | no "controller" | `OpenInTheLoop`: a run is open only in the loop's stage; `Decided` and `RoundsCame`: a decision waits exactly for the run whose attempts are spent. Where the controller sets statuses, neither holds (section 5) |
| `OutcomesAreRecorded`, `EndsRecorded` | no "edits"; for the second no "controller" either | `NoEdits`: no mutation is on record, so that the after hook which drops the outcome (section 5) never moves the session |
| `ConsentIsAlwaysOfWhatWasShown` | | `ConsentInv`: an approval repeats what its call asked, there is one per type, and one that is granted was granted by that call's last answer, on the texts it was put on (`GrantedBy`) |
| `ScopesAndReceiptsAreAlwaysTrue` | | `ChangeInv`: `changedFiles` lies between what calls certainly changed (`still`) and what they may have (`ever`), and a permit keeps both bounds until its commit is judged (`ListIsBetween`, `PermitIsBetween`) |
| `SyncsAlwaysKeepAndReport` | as the properties say, names that only a failure the code does not report is about are excepted; no id and no name is empty (`AgentNamesAssumption`); no text of the user is under the marker, which is what makes a file the plugin's (`FirstProfilesAssumption`, `FirstTargetsAssumption`) | `AgentInv`: while nobody else touches the disk, what is still to do for the profile in hand is just what the directory lacks, but for names that are reported or `swallowed` (`OneInHand`); what a failed read leaves to be swept or written is of the profile's own names (`Own`); a profile that is done stays as it was left, because a name begins with no two ids unless one of them begins with the other (`DoneStaysDone`, `TwoFrontsOfOneName`); between two profiles the ignore list is of what is there (`ListIsUpToDate`) |
| `HostIsAlwaysLeftIntact` | nothing is pushed under an id of the request (`InjectedAssumption`; `deliverTransientDispatch` asks first) | `HostInv`: what is held is what is in force until the undoing begins, from then on what is left to undo and what was refused, each once (`KnowsWhatIsHeld`, `UndoesTheRest`); of the callers of the cleanup exactly one waits (`OneIsToldOfIt`); the loop has handled all it took, or all but the event it is at (`LoopKeepsUp`). That a request keeps its messages is an induction over their number (`FilterKeepsTheUnknown`, by the least number at which it fails) |
| `ListsAndRunsAlwaysAgree` | a loop admits at least one run (`CyclesAssumption`; `DispatchDefSchema`) | `CycleInv`, in two parts. Of the lists: an id is in one place, and a list of children is younger than the task above it (`ListsFit`), so that the way up ends in the outer list (`TheRootIsOuter`) and does not change where the tasks above stay where they are (`SameAbove`). Of the runs, their contexts and questions: one run per task is open, and a task with an open run is pending only by the controller's writing (`OneRunPerTask`), which is what makes an overlapping loop keep its order; a question the controller has not written over is of the run that waits (`QuestionsFit`). A list at rest admits the first of its pending tasks (`SomeTaskGoesOn`) |
| `AcceptedSchemasLeadOnAlways` | what is written is a tree of finite lists, no deeper than `MaxNesting`, and declares a stage (`SchemasAssumption`: a YAML document is one) | `SchemaInv`: what is compiled is what was written and was refused unless every validation passed; a session stands in a stage it declares and its task in one of its loop. The walks of the compiler go a round per stage: each round adds a stage or the walk has ended (by cardinality), so that what was reached is closed under edges and holds an end |
| `ProfilesAreAlwaysReadWhole` | there are finitely many profiles and files, and edges are lists (`LibrariesAssumption`) | a chain of `extends` ends, is refused or repeats itself within as many steps as there are profiles; schema files are followed along it; of what is merged, every field and edge is that of the nearest file, by induction over the files merged so far (`OfTheNearest`) |
| `LinesAreAlwaysReadAsWritten` | as the property says, what changes something only for an argument, and what is behind an option of a wrapper, is excepted; commands have words, words are of other pieces than quotes and the escape sign, and a separator separates (`LinesAssumption`) | by induction over what is written: between two words and between two commands the scan stands at a state that holds the words and commands so far (`Fresh`, `Between`), and what is written of a word, quoted or not, adds that word. What `gitSubcommandOf` finds, a pass per option, is what `IsSubcommand` says of the line as a set of options and values |
| `CallsAreAlwaysGoverned` | paths and masks are lists, a name leads to a file of the project or out of it (`PathsAssumption`); a line for bash is made of commands (`AskedAssumption`) | `PolicyInv`: a call in flight that is under scopes names nothing outside of them, every command of a line without an operation was declared or does not change anything by itself, and an operation is of a call that is still out, unless the session has moved (`CallsInv`); running tasks were admitted apart from one another (`WorkersInv`). Two masks that match one file intersect, by induction over both |
| `NothingBlockedIsEverLeft` | a pattern begins with something to look for (`GuardsAssumption`) | what is left of a text is stretches of it between markers: a match without a marker lies in one stretch and was a match before (`ComesFrom`). So a pattern that was replaced everywhere is not made again by the ones after it |
| `ToolCallsAreAlwaysGuarded` | the three above | no step of one of the three changes what the others are about |
| `PagesAreAlwaysToldTheTruth` | | views of the store are ordered by the revisions in them (`Below`). What was told last is below what a page shows, and that is below the store; a load that is under way will end above the floor it started from, whatever moves between the directories meanwhile (`Covers`) |
| `PanelsAlwaysShowTheOpen` | `NoStemIsAFileName`: no rule file is called like another one and a suffix more (section 5) | `SidebarInv`: a load of the coordinator's generation is the one it waits for and is of its target (`LoadFits`), and while it waits no retry is due; a path ends with the name of the file, a shorter name with the stem. `PanelInv`: a load that was not given up is of the session that is open and one that was is followed by another (`FetchIsOfTheOpen`); it has found the root (`RootIsFound`) and read its last revision, unless something is waiting (`RevisionIsRead`) |
| `RulesInvariant`, `RulesAlwaysReachTheModelOnce` | a rule's identity is no other rule's; a history that is resumed names a rule once; identifiers of admissions are no user's (`SnapshotsAssumption`, `HistoriesAssumption`, `MessagesAssumption`) | `RInv`: a read knows how many invalidations it has seen, and one that has seen all holds only what is still there; reads that are shared or kept have seen all; only the head of the queue delivers. So a ledger built on such a read, or enlarged by what its step sends, is backed. `UInv`, while nothing is removed or lost: every read and every ledger under way agree until the ledger is first filled, because nothing is sent before (`Faithful`); from then on the ledger knows all that was sent (`Knows`), so that nothing is sent again (`EachOnce`) |
| `TurnsNeverForget` | as above | `StepKeeps`: what each step does to the queued hooks and to a ledger that a turn replaces |

`SessionExecutor_proofs` uses no fairness, so the refinement is of the safety part,
which is all `AtomicSession` states.

Only model-checked, and why:

- what needs fairness (`EveryCallSettles`, `DeadLockIsBroken`, `EveryCallIsTold`, `OperationsEnd`,
  `FinishedIsArchived`), which is out of the prover's reach, as is ENABLED;
- `GuardsMeanWhatIsWritten`: the parser and the evaluator of `GuardLanguage` are recursive over trees,
  and no prover works in a module with RECURSIVE operators. An induction over numbers works, by the
  least number at which a claim fails (`LeastNumber`), which is why the other algorithms, walks, chains,
  merges, scans and replacements, are functions on numbers: rounds, files, words and symbols done so far;
- the violated properties, which have counterexamples.

## 5. Where the code and its words disagree

Shown by a run, quoted in `PROJECT.json` under findings: the dead lock broken twice
(`session/session-store.ts:218`), the late verdict (`app/workflow-gate-service.ts:264`),
and the burned cycle (`domain/engine.ts:485`).

Met while modelling; they are hazards with a note:

- A workflow that is ended by the after hook of an edit gets no outcome:
  `app/mutation-orchestrator.ts:523` drops the result of the transition, while
  `session/session-schema.ts:143` says it is written on entering a terminal stage.
  `OutcomeRecorded` is therefore checked without edits.
- The decision on an exhausted task outlives the run when the controller cancels the
  task; it can never be resolved then. `DecisionIsResolvable` is checked without a
  controller.
- A save of a session that was archived meanwhile makes it again
  (`session/session-store.ts:256`).
- The V1 adapter hides failures of lookups (`app/runtime.ts:122`), so that a subagent
  may be memoised as its own root, against the comment at
  `app/session-executor.ts:239`. `MemoisedRootIsRoot` and its theorem are about the
  adapter that does not.
- `workflow-consent` saves outside the executor (`app/workflow-tool-surface.ts:333`)
  where `src/README.md:376` asks for the executor. A hook under way is refused its
  save, and its verdict is lost, though not silently.
- `workflow-gate-set` never saves what it reports as recorded
  (`app/workflow-tool-surface.ts:558`).
- `workflow-create` uses its caller's id, not the root's
  (`app/workflow-tool-surface.ts:232`).
- `src/README.md:399` describes a `SessionQueue` in `session-queue.ts`; there is no such
  file, and the executor owns the queue.

More of the kind, met in the components of the second half. Four of them have a configuration that
shows them, named there; the others have none:

- Rules. `admitDurableMatches` (`rules/rule-delivery.ts:131`) and `deliverTransientDispatch`
  (`:252`) apply what they read of the history without comparing `ledgerRevision`, against
  `rules/session-working-context.ts:75`; `LedgerIsBacked` is held while no such read was
  overtaken. An admission whose answer is lost is made again with the next rule that waits;
  `NothingTwice` is held while answers arrive. An eviction forgets the rules that wait. A turn whose
  read fails asks for a rescan without comparing the revision (`:179`), although a request may have filled
  the ledger while it read. The next admission then rescans, and may do so with a read that an
  overlapping turn had left behind (`rules/session-working-context.ts:203`) before the last admission was stored: that
  rule is stored again, against "deduplicates rules already injected on earlier messages"
  (`src/test/rules/chat-message-persistence.test.ts:169`). It takes three handlers, two messages and two tool calls
  and was met in the proof of `NothingTwice`, which excepts it (`counted.rescans`); with the two handlers of
  `rules_runs` TLC does not meet it.
- V2 adapter. The lines of the workflow never reach the system prompt: the handler assigns
  `output.system` (`app/runtime.ts:584`) where the adapter reads the array it passed
  (`app/v2-plugin-adapter.ts:148`). The sanitised output of a tool is written to a literal the
  host never sees (`app/v2-plugin-adapter.ts:123`, `app/runtime.ts:400`). A handler that throws ends the
  loop over events for good and without a word (`:46`). A second cleanup returns before
  the first has ended.
- Dashboard. The archive is read before the runtime directory (`dashboard/dashboard-app.ts:294`):
  a session archived in between is in neither and vanishes for one publication, against the comment
  above it. A page's first snapshot may be sent after a newer one (`:627`). The comment at
  `:475` expects overlapping publications to tell events twice; what they would do is tell
  an older state after a newer. The page reads `stage` where snapshots carry `currentStage`.
- Tasks. `serial` answers before the overlap of write scopes over the whole session is
  looked at (`app/task-admission.ts:414` against its comment), so `OpenRunsAreApart` excepts runs of a
  serial loop. A task the controller cancels and sets back keeps its old decision, and its new
  run cannot be decided: `DecisionsFindTheirRun` excepts what the controller wrote. A status
  `running` he writes shuts a serial loop. With two nested loops over `$currentTask.id` no
  child is ever eligible.
- Consent. A list of files given as text is accepted and read, but no parser takes the tag
  (`app/workflow-tool-surface.ts:297`, `app/consent.ts:117`): nothing is asked for then.
- Shell lines. A command counts as reading by its name or git subcommand alone; only the options
  of `sort` are looked at (`domain/session-queries.ts:297`). `find` with `-delete` or `-exec`, `fd`
  with `-x`, `rg` with `--pre`, `tree` with `-o`, `uniq` with a second operand, `git branch` or `git
  remote` with more words and `git diff --output=file` change something and count as reads, so
  that a stage lets them through with no operation and no baseline. Comments say that the list is
  of "Commands that cannot change the working tree, by name" (`:21`), that the answer is "True when every
  command in the line is known not to change the working tree" (`:247`) and that it "fails closed at
  every turn" (`:257`). This is `ReadsChangeNothing`, which TLC finds violated (`shell_reads_write.cfg`);
  `ChangingIsSeen` and `UngovernedCallsAreDeclared` are about what changes something whatever it is given.
- A wrapper is looked through, and not its options (`domain/session-queries.ts:213`): `sudo -u x git push` and
  `env -i git push` are no pushes, while wrappers "come before the program that actually runs" (`:209`)
  and `sudo git push` and `env git push` are said to be `git push` (`:108`). This is `PushesAreSeen`, which TLC
  finds violated (`shell_wrapper_options.cfg`); `ChangingIsSeen` excepts such lines.
- A comment swallows the newline that ends it, so that the next line is not
  a command (`domain/session-queries.ts:174`), against "each returned array is one command".
- Commits. `commitBefore` changes a session outside its transaction
  (`app/change-enforcement.ts:290`); a second permit overwrites the first; whether a call is
  a delivery is asked again after it, when the stage may be another:
  `OperationsEndWithTheirCall` excepts that. A staged rename reports its new path only.
- Invariants. The first readable `invariants.ts` of the chain wins, so that an inherited id
  implemented only further up does not run (`app/invariants.ts:101`); `UncheckedIsNotPassed` is
  about profiles without any.
- Profiles. One `profile.json` that cannot be parsed makes every profile fail; a schema that
  extends one outside the chain inherits nothing, silently.
- Profile agents. Comments say that "every filesystem step is caught and reported"
  (`app/profile-agent-sync.ts:72`) and "recorded in the returned outcome" (`:149`). Five reads are caught
  and not reported: a roster that cannot be listed is an empty one (`:141`), so that every file placed
  before is stale and removed; a `profile.json` that cannot be read the second time ships no agents
  (`:126`); a target directory that cannot be listed holds nothing stale (`:249`); a stale file
  that cannot be read is left (`:258`); and the ignore file keeps its old list when the directory cannot be
  listed (`:404`). This is `FailuresAreReported`, which TLC finds violated
  (`agents_swallowed.cfg`). The properties that are held, and their theorem, except the names such a
  failure is about, and no others. A target or a `.gitignore` of the user's that cannot be read counts as absent
  and is written over (`:50`): `UsersFilesAreKept` is about what could be read. Two ids of
  which one begins the other sweep each other's files; the properties are about ids that are apart.
- Guards. A name is looked for with `in` (`schema/guard-ast.ts:683`), which finds what every object
  inherits: a guard that names `constructor`, `toString` or `valueOf` reads a function, which is true,
  and opens. `schema/guard-ast.ts:52` calls the first of these never read, however it is written, and
  `src/test/schema/guard-allowlist.test.ts:6` says that "a name that is not on the allowlist is not reachable,
  however it is written". This is `UndeclaredNamesDoNotOpen`, which TLC finds violated
  (`guards_undeclared.cfg`); `OpensWhenItHolds` excepts guards with such a name.
- Compiler. What it accepts may still trap a task in its loop, since guards are open there; a
  stage assignment may name a stage that is not declared.
- Guardrails. A pattern with a gap may take in a marker that was put there; replacing
  twice is not replacing once. A fragment is a whole word here: that a pattern with `\b` may
  match only after the text before it was replaced is left out.
- TUI. A load that fails at `session.get` shows "no session" until the next event or poll. The last pass
  over names (`tui/data/rules.ts:214`) may give a rule the name another one has from the first: of `x.md`,
  `x.mdc` and `x.md.mdc` in one directory, the first and the last are both shown as `x.md`. The theorem on
  `NamesTellRulesApart` excepts such files.
- Rule files. With `OPENCODE_CONFIG_DIR` set to the project's own `.opencode` the same rules are found twice,
  as global and as the project's (`rules/rule-discovery.ts:83`), and each of the two is loaded and matched. The
  theorem on `NoRuleIsSkipped` is about directories that are apart.

## 6. Not modelled, and why

- `cli.ts`, the scripts and the smoke tests: they start things and check them; no session's
  state is decided there. They are a third of the lines that no definition is about.
- Reading of YAML and JSON, the shapes of their values, formatting of messages and reports,
  logging, tracing and paths.
- Drawing: the slots of the TUI, `dashboard.html`, the routes of the dashboard that only read, and
  the bridge to beads with its cache.
- The texts of invariants, the patterns of guardrails, the globs of rules, git's own
  output formats: data, for which members of small sets stand.
- Profiles other than base are run by no instance of `Workflow`; what they use beyond base
  is in `TaskCycles`, `SchemaCompiler` and `GuardLanguage`, each on its own. Rosters are left out.
- `workflow-create` and the resets (which session a node has is a constant of `SessionExecutor`),
  `workflow-gate-set` (it changes nothing that is kept), `list()` and `listArchived()`.
- The V1 adapter but for what it makes of failures; translation of types between host and plugin.

## 7. Plan

Order: what loses a user's work first (store, executor, workflow), then what wrongly
authorises (consent, tools, scopes, guards), then what wrongly informs (rules, panels). All of
these have a model now. What is left, in order:

1. The parser of `GuardLanguage` as a function on the number of tokens read, with the trees on a
   stack, so that what is an induction over trees becomes one over numbers.
2. Creation and archive inside `SessionExecutor`; refused saves composed with
   `liveMutations`.

## 8. Running it

```
tlc -workers 2 -config store_saves.cfg MCSessionStore.tla
tlc -workers 2 -config executor_runs.cfg MCSessionExecutor.tla
tlc -workers 2 -config workflow_serial.cfg MCWorkflow.tla
tlc -workers 2 -config rules_runs.cfg MCRulesRuntime.tla
tlc -workers 2 -config components_runs.cfg MCComponents.tla
tlapm SessionStore_proofs.tla
tlapm SessionExecutor_proofs.tla
tlapm RuleFiles_proofs.tla
tlapm Workflow_proofs.tla
tlapm Components_proofs.tla
tlapm RulesRuntime_proofs.tla
tlapm Display_proofs.tla
tlapm Schemas_proofs.tla
```

The runs take from a few seconds to about a minute each, `rules_runs` two minutes and
`components_runs` three to four (1.4 million states); the proofs from half a minute to some minutes each.
To look at one component of `components_runs`, restrict `running` in `Init` of `MCComponents`.
