---------------------------- MODULE RuleMatching ----------------------------
(***************************************************************************)
(* Rule selection (src/rules/rule-metadata.ts, rule-filter.ts,             *)
(* rule-hooks.ts, runtime-context.ts): what a rule file declares, whether  *)
(* it applies in a context, and whether its delivery may be stored in the  *)
(* history of the session ("durable") or lasts one request ("ephemeral").  *)
(*                                                                         *)
(* A rule is [identity, path, conditions, match, hooks].  "conditions" is  *)
(* a function from the kinds the file declares to sets of values; a glob   *)
(* or a branch pattern is the set of the paths or branches it matches, a   *)
(* keyword list is the set of its words.  A context is a function from     *)
(* each kind but the two of files to the set of values true of the request *)
(* (one model, the words of the prompt, ...), with "files" the set of file *)
(* observations [path, content].  A prompt is a sequence of words          *)
(* [text, slash], "slash" when it starts with one.                         *)
(***************************************************************************)
EXTENDS FiniteSets, Sequences, SequencesExt

FileKinds == {"globs", "fileContains"}

DurableKinds ==
    FileKinds \union {"keywords", "command", "project", "os", "ci"}
EphemeralKinds == {"tools", "model", "agent", "branch"}
ConditionKinds == DurableKinds \union EphemeralKinds

lifetimeForKind(kind) ==
    IF kind \in DurableKinds THEN "durable" ELSE "ephemeral"

-----------------------------------------------------------------------------
(* What a frontmatter gives: entries that are not usable are dropped, a    *)
(* list left empty is no condition at all, except for fileContains, which  *)
(* then never matches.                                                     *)
parseConditions(declared, Usable) ==
    LET kept(kind) == declared[kind] \intersect Usable
    IN  [kind \in {k \in DOMAIN declared :
                     k = "fileContains" \/ kept(k) # {}} |-> kept(kind)]

hasConditions(rule) == DOMAIN rule.conditions # {}

hasFileObservationFamily(rule) ==
    DOMAIN rule.conditions \intersect FileKinds # {}

(* One observation has to satisfy both conditions of the family.           *)
fileObservationMatches(conditions, context) ==
    \E observation \in context.files :
       /\ "globs" \in DOMAIN conditions
             => observation.path \in conditions["globs"]
       /\ "fileContains" \in DOMAIN conditions
             => observation.content \intersect conditions["fileContains"] # {}

evaluateFileObservationFamily(conditions, context) ==
    LET family == DOMAIN conditions \intersect FileKinds
        kind   == IF "fileContains" \in family THEN "fileContains"
                                               ELSE "globs"
    IN  IF family = {} THEN {}
        ELSE {[kind     |-> kind,
               matched  |-> fileObservationMatches(conditions, context),
               lifetime |-> lifetimeForKind(kind)]}

evaluateConditionChecks(conditions, context) ==
    evaluateFileObservationFamily(conditions, context) \union
    {[kind     |-> kind,
      matched  |-> conditions[kind] \intersect context[kind] # {},
      lifetime |-> lifetimeForKind(kind)] :
        kind \in DOMAIN conditions \ FileKinds}

classifyRuleLifetime(mode, checks) ==
    IF \/ checks = {}
       \/ mode = "all" /\ \A c \in checks : c.lifetime = "durable"
       \/ mode = "any" /\ \E c \in checks : c.matched /\ c.lifetime = "durable"
    THEN "durable" ELSE "ephemeral"

ruleApplies(rule, context) ==
    LET checks == evaluateConditionChecks(rule.conditions, context)
    IN  \/ ~ hasConditions(rule)
        \/ rule.match = "all" /\ \A c \in checks : c.matched
        \/ rule.match = "any" /\ \E c \in checks : c.matched

lifetimeOf(rule, context) ==
    classifyRuleLifetime(rule.match,
                         evaluateConditionChecks(rule.conditions, context))

(* What applies is a set: the code keeps the order of discovery, which      *)
(* decides only the order of the texts in a message.                       *)
matchRuleSnapshots(snapshots, context) ==
    {[rule |-> r, lifetime |-> lifetimeOf(r, context)] :
       r \in {s \in snapshots : ruleApplies(s, context)}}

matchesWithLifetime(snapshots, context, lifetime) ==
    {e.rule : e \in {m \in matchRuleSnapshots(snapshots, context) :
                       m.lifetime = lifetime}}

-----------------------------------------------------------------------------
(* Hooks: a hook is [type, tool, args, block]; "args" is the set of calls' *)
(* arguments its pattern matches, and a pattern that does not compile      *)
(* matches none.                                                           *)
evaluateHooks(hooks, type, tool, args) ==
    {h \in hooks : /\ h.type = type
                   /\ h.tool \in {"*", tool}
                   /\ args \in h.args}

(* A hook's content is durable only when its rule is matched as a durable  *)
(* one at that moment: a rule that does not apply gives ephemeral content. *)
hookLifetime(rule, context) ==
    IF ruleApplies(rule, context) THEN lifetimeOf(rule, context)
                                  ELSE "ephemeral"

-----------------------------------------------------------------------------
(* The context of one request: a source that fails or has nothing to say   *)
(* leaves its kind empty, and no condition on it matches.                  *)
extractSlashCommand(prompt) ==
    IF prompt # <<>> /\ Head(prompt).slash THEN {Head(prompt).text} ELSE {}

detectCiEnvironment(CI, others) ==
    IF CI # "unset" THEN CI = "true" ELSE "true" \in others

buildRuleMatchContext(files, prompt, tools, model, agent, project, branch, ci) ==
    [files    |-> files,
     keywords |-> {word.text : word \in ToSet(prompt)},
     command  |-> extractSlashCommand(prompt),
     tools    |-> tools,
     model    |-> model,
     agent    |-> agent,
     project  |-> project,
     branch   |-> branch,
     os       |-> {"linux"},
     ci       |-> {ci}]
=============================================================================
