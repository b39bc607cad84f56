---------------------------- MODULE RuleDelivery ----------------------------
(***************************************************************************)
(* The delivery ledger of one session (src/rules/rule-delivery.ts,         *)
(* rule-delivery-codec.ts) as operators: what the history of a session     *)
(* says was delivered, and how each operation of the class changes the     *)
(* state it keeps.  RulesRuntime interleaves them.                         *)
(*                                                                         *)
(* A part of the history is [kind, owner, rules, hooks]: the keys its      *)
(* metadata names and the message it belongs to.  An admission is owned by *)
(* the keys it carries, because its identifiers are a digest of them; a    *)
(* part written before there were metadata names the path of its rule.     *)
(* The rules that wait are sets: nothing here depends on their order.      *)
(***************************************************************************)
EXTENDS Naturals, FiniteSets

NoTurn == [id |-> {}, rules |-> {}, hooks |-> {}]

FreshDelivery ==
    [ruleKeys |-> {}, hookKeys |-> {},       \* what the history holds
     revision |-> 0,                         \* of that knowledge
     seeded |-> FALSE, needsRescan |-> FALSE,
     pendingHooks |-> {}, pendingRules |-> {},
     durableHooks |-> {}, transientHooks |-> {},
     turn |-> NoTurn]                        \* shown during this user turn

-----------------------------------------------------------------------------
(* The codec.                                                              *)
buildDurableDeliveryPart(rules, hooks, message) ==
    [kind |-> "durable", owner |-> message, rules |-> rules, hooks |-> hooks]

buildRuleAdmissionPart(rules) ==
    [kind |-> "admission", owner |-> rules, rules |-> rules, hooks |-> {}]

buildTransientDeliveryMessage(rules, hooks) ==
    [kind |-> "transient", owner |-> rules, rules |-> rules, hooks |-> hooks]

(* The ledger does not count what was shown to one request only.           *)
decodeRawHistory(parts) ==
    LET kept == {p \in parts : p.kind # "transient"}
    IN  [ruleKeys |-> UNION {p.rules : p \in kept},
         hookKeys |-> UNION {p.hooks : p \in kept}]

(* What a request already shows counts it, and reads no legacy form.       *)
decodeTransientPresence(parts) ==
    LET shown == {p \in parts : p.kind # "legacy"}
    IN  [ruleKeys |-> UNION {p.rules : p \in shown},
         hookKeys |-> UNION {p.hooks : p \in shown}]

-----------------------------------------------------------------------------
\* Mutant: a rule is known by its short name.
NamedDeliveryKey(rule) == rule.name

deliveryKey(rule) == rule.identity

\* Mutant: the keys of older histories are not recognised.
IdentityOnly(keys, rule) == rule.identity \in keys

hasDeliveryKey(keys, rule) == rule.identity \in keys \/ rule.path \in keys

keysOf(rules) == {deliveryKey(r) : r \in rules}

replaceLedger(d, parts) ==
    LET facts == decodeRawHistory(parts)
    IN  [d EXCEPT !.ruleKeys = facts.ruleKeys,
                  !.hookKeys = facts.hookKeys,
                  !.revision = @ + 1,
                  !.seeded   = TRUE]

markCompacted(d) ==
    [d EXCEPT !.revision = @ + 1, !.needsRescan = TRUE, !.turn = NoTurn]

\* Mutant: the ledger is kept when a message is removed.
KeepsLedger(d) == [d EXCEPT !.revision = @ + 1, !.turn = NoTurn]

markHistoryChanged(d) ==
    [d EXCEPT !.revision = @ + 1, !.seeded = FALSE, !.needsRescan = FALSE,
              !.turn = NoTurn]

(* Hooks: an entry is [rule, lifetime].                                    *)
routePendingHooks(d) ==
    LET durable == {h \in d.pendingHooks : \/ hasDeliveryKey(d.ruleKeys, h.rule)
                                           \/ h.lifetime = "durable"}
    IN  [d EXCEPT !.durableHooks   = @ \union durable,
                  !.transientHooks = @ \union (d.pendingHooks \ durable),
                  !.pendingHooks   = {}]

queueMatchedHooks(d, hooks) ==
    LET queued == {h.rule : h \in d.pendingHooks \union d.durableHooks
                                    \union d.transientHooks}
        next   == [d EXCEPT !.pendingHooks =
                      @ \union {h \in hooks : h.rule \notin queued}]
    IN  IF d.seeded /\ ~ d.needsRescan THEN routePendingHooks(next) ELSE next

-----------------------------------------------------------------------------
(* A durable turn, on a ledger that needs no reading.                      *)
newTurnRules(d, matched) == {r \in matched : ~ hasDeliveryKey(d.ruleKeys, r)}
newTurnHooks(d) ==
    {h.rule : h \in {q \in d.durableHooks : ~ hasDeliveryKey(d.hookKeys, q.rule)}}

turnPart(d, matched, message) ==
    LET rules == keysOf(newTurnRules(d, matched))
        hooks == keysOf(newTurnHooks(d))
    IN  IF rules \union hooks = {} THEN {}
        ELSE {buildDurableDeliveryPart(rules, hooks, message)}

\* Mutant: a turn empties both queues of hooks.
EmptiesHooks(d, matched) ==
    [d EXCEPT !.ruleKeys = @ \union keysOf(newTurnRules(d, matched)),
              !.hookKeys = @ \union keysOf(newTurnHooks(d)),
              !.durableHooks = {}, !.transientHooks = {}]

afterTurn(d, matched) ==
    [d EXCEPT !.ruleKeys = @ \union keysOf(newTurnRules(d, matched)),
              !.hookKeys = @ \union keysOf(newTurnHooks(d)),
              !.durableHooks = {}]

(* Admissions: the rules wait in the state until the host has stored them. *)
queuePendingRules(d, rules) ==
    [d EXCEPT !.pendingRules = @ \union
        {r \in rules : /\ ~ hasDeliveryKey(d.ruleKeys, r)
                       /\ deliveryKey(r) \notin keysOf(@)}]

toPersist(d) == {r \in d.pendingRules : ~ hasDeliveryKey(d.ruleKeys, r)}

afterPersist(d, rules) ==
    [d EXCEPT !.ruleKeys     = @ \union keysOf(rules),
              !.pendingRules = {r \in @ : deliveryKey(r) \notin keysOf(rules)}]

-----------------------------------------------------------------------------
(* One dispatch: the state is brought up to date from the messages of the  *)
(* request when it has to be, the turn is that of the latest message of a  *)
(* user, and what the turn was shown is not shown again.                   *)
beforeDispatch(d, parts, turnId) ==
    LET current == IF d.seeded /\ ~ d.needsRescan THEN d
                   ELSE [replaceLedger(d, parts) EXCEPT !.needsRescan = FALSE]
        routed  == routePendingHooks(current)
        present == decodeTransientPresence(parts)
        turn    == IF routed.turn.id = turnId THEN routed.turn
                   ELSE [NoTurn EXCEPT !.id = turnId]
    IN  [routed EXCEPT !.turn =
            [turn EXCEPT !.rules = @ \union present.ruleKeys,
                         !.hooks = @ \union present.hookKeys]]

(* "d" is what beforeDispatch gives: the turn includes what is present.    *)
dispatchRules(d, matched) ==
    {r \in matched \union d.pendingRules :
       /\ ~ hasDeliveryKey(d.ruleKeys, r)
       /\ ~ hasDeliveryKey(d.turn.rules, r)}
dispatchHooks(d) ==
    {h.rule : h \in {q \in d.durableHooks \union d.transientHooks :
                       ~ hasDeliveryKey(d.turn.hooks, q.rule)}}

afterDispatch(d, matched) ==
    [d EXCEPT !.turn.rules = @ \union keysOf(dispatchRules(d, matched)),
              !.turn.hooks = @ \union keysOf(dispatchHooks(d)),
              !.transientHooks = {}]
=============================================================================
