------------------------ MODULE RulesRuntime_proofs ------------------------
(***************************************************************************)
(* Theorems about RulesRuntime: for any rules, messages, tool calls,       *)
(* histories and handlers, what the ledger counts as delivered has been    *)
(* delivered, no rule is stored twice, the queue moves, and no turn        *)
(* forgets.                                                                *)
(*                                                                         *)
(* The argument.  Every read of the history knows how many invalidations   *)
(* it has seen, and one that has seen all of them holds nothing but        *)
(* messages that are still there (ReadOK); the reads that are shared or    *)
(* kept have seen all (ReadsOK).  Only the head of the queue delivers      *)
(* (QueueOK).  So a ledger replaced from a read that is up to date, or     *)
(* enlarged by what the same step sends, is backed (Backed).  As long as   *)
(* nothing is removed or lost (Undisturbed), every read that is kept and   *)
(* every ledger under way agree until the ledger is first filled, because  *)
(* nothing is sent before (Faithful); from then on the ledger knows        *)
(* everything that was sent (Knows), so that nothing is sent again         *)
(* (EachOnce, Sound).                                                      *)
(***************************************************************************)
EXTENDS RulesRuntime, FiniteSetTheorems, SequenceTheorems, TLAPS

-----------------------------------------------------------------------------
(* The invariant.                                                          *)
DeliveryFields ==
    {"ruleKeys", "hookKeys", "revision", "seeded", "needsRescan", "pendingHooks",
     "pendingRules", "durableHooks", "transientHooks", "turn"}
HandlerFields ==
    {"kind", "pc", "message", "prompt", "files", "call", "read", "ledger", "rules",
     "output"}

QueuesOf(d) == {q.rule : q \in d.pendingHooks \union d.durableHooks \union d.transientHooks}

DeliveryOK(d) ==
    /\ DOMAIN d = DeliveryFields
    /\ DOMAIN d.turn = {"id", "rules", "hooks"}
    /\ d.revision \in Nat
    /\ d.seeded \in BOOLEAN
    /\ d.needsRescan \in BOOLEAN
    /\ d.ruleKeys \union d.hookKeys \subseteq KnownKeys
    /\ d.pendingRules \union QueuesOf(d) \subseteq Snapshots

\* The messages name known keys, and an admission is known by its identifier.
PartsAreKnown(parts) == \A p \in parts : p.rules \union p.hooks \subseteq KnownKeys

HistoryOK ==
    /\ history \in Seq(ToSet(history))
    /\ \A m \in ToSet(history) :
          /\ PartsAreKnown(m.parts)
          /\ m.id \in AdmissionIds => buildRuleAdmissionPart(m.id) \in m.parts

\* A read, where "now" invalidations have come and the history holds "held"; there
\* may be "gone" a message whose removal has not been announced.
ReadOK(r, now, gone, held) ==
    /\ r.revision = r.asOf
    /\ r.asOf \in Nat
    /\ r.asOf <= now
    /\ \A m \in ToSet(r.messages) : PartsAreKnown(m.parts)
    /\ ~ gone /\ r.asOf = now => ToSet(r.messages) \subseteq held

AtMostOne(S) == \A a, b \in S : a = b

ReadsOK ==
    /\ invalidations \in Nat
    /\ DOMAIN historyReads = {"revision", "prefetch", "inFlight"}
    /\ historyReads.revision = invalidations
    /\ AtMostOne(historyReads.prefetch)
    /\ AtMostOne(historyReads.inFlight)
    /\ \A r \in historyReads.prefetch \union historyReads.inFlight :
          ReadOK(r, invalidations, removing, ToSet(history)) /\ r.asOf = invalidations

Running == {"turnReading", "admitReading", "persisting"}

HandlerOK(x, now, gone, held, revision) ==
    /\ DOMAIN x = HandlerFields
    /\ ReadOK(x.read, now, gone, held)
    /\ x.rules \subseteq Snapshots
    /\ x.message \notin AdmissionIds
    /\ PartsAreKnown(x.output)
    /\ x.pc = "persisting" => x.rules # {}
    /\ x.kind = "chat" /\ x.pc # "answered" => x.output = {}
    /\ x.pc = "turnReading" =>
          /\ x.kind = "chat"
          /\ x.ledger \in Nat
          /\ x.ledger <= revision
          /\ x.ledger = revision => x.read.asOf = now

HandlersOK ==
    /\ handler = [h \in Handler |-> handler[h]]
    /\ \A h \in Handler :
          HandlerOK(handler[h], invalidations, removing, ToSet(history), delivery.revision)

QueueOK ==
    /\ queue \in Seq(Handler)
    /\ \A i, j \in 1 .. Len(queue) : queue[i] = queue[j] => i = j
    /\ \A h \in Handler :
          (\E i \in 1 .. Len(queue) : queue[i] = h) <=> handler[h].pc \in Running \union {"queued"}
    /\ \A h \in Handler : handler[h].pc \in Running => queue # <<>> /\ queue[1] = h

CountedOK ==
    /\ DOMAIN counted = {"messages", "calls", "dispatches", "evictions", "lost", "rescans"}
    /\ \A f \in DOMAIN counted : counted[f] \in Nat
    /\ removing \in BOOLEAN
    /\ overtaken \in BOOLEAN

\* What is in the history or on its way there.
Given == AllParts(history) \union InFlight

Backed ==
    LedgerInUse /\ ~ removing /\ ~ overtaken =>
       /\ delivery.ruleKeys \subseteq decodeRawHistory(Given).ruleKeys
       /\ delivery.hookKeys \subseteq decodeRawHistory(Given).hookKeys

RInv == /\ DeliveryOK(delivery) /\ HistoryOK /\ ReadsOK
        /\ HandlersOK /\ QueueOK /\ CountedOK /\ Backed

-----------------------------------------------------------------------------
(* What holds in addition as long as nothing is removed, lost or evicted.  *)
Undisturbed ==
    /\ invalidations = 0 /\ ~ removing
    /\ counted.lost = 0 /\ counted.evictions = 0 /\ counted.rescans = 0

\* A read that came back names what the history names.
Says(r, parts) == r.ok => AllParts(r.messages) = parts

(* A handler, when the history holds "parts" and "sent" is on its way: as  *)
(* long as the ledger has not been filled all reads agree with the         *)
(* history, and so does that of the operation that may be about to fill    *)
(* it; an operation that offers rules has a filled ledger without them.    *)
Faithful(x, parts, sent, seeded, rescan, keys) ==
    /\ ~ seeded => Says(x.read, parts)
    /\ x.pc = "preparing" => x.kind = "chat"
    /\ x.pc = "matching" /\ x.kind = "dispatch" => x.read.ok
    /\ x.pc \in {"turnReading", "admitReading"} => sent = {} /\ Says(x.read, parts)
    /\ x.pc = "turnReading" => ~ rescan
    /\ x.pc = "queued" /\ x.kind = "dispatch" => seeded
    /\ x.pc = "persisting" => seeded /\ \A r \in x.rules : ~ hasDeliveryKey(keys, r)

\* The ledger knows every rule that was sent.
Knows(keys, given) ==
    \A r \in Snapshots : \A p \in given : Names(p, r) => hasDeliveryKey(keys, r)

EachOnce(given) ==
    \A p \in given :
       /\ p.kind # "transient"
       /\ \A r \in Snapshots, q \in given : Names(p, r) /\ Names(q, r) => p = q

KeptReads == historyReads.prefetch \union historyReads.inFlight

Sound ==
    /\ delivery.needsRescan => ~ delivery.seeded
    /\ ~ delivery.seeded =>
          /\ InFlight = {}
          /\ \A r \in KeptReads : Says(r, AllParts(history))
    /\ \A h \in Handler :
          Faithful(handler[h], AllParts(history), InFlight, delivery.seeded,
                   delivery.needsRescan, delivery.ruleKeys)
    /\ delivery.seeded => Knows(delivery.ruleKeys, Given)
    /\ EachOnce(Given)

UInv == Undisturbed => Sound

-----------------------------------------------------------------------------
(* Sequences.                                                              *)
LEMMA SequenceOfItsOwn ==
    ASSUME NEW S, NEW s \in Seq(S)
    PROVE  s \in Seq(ToSet(s)) /\ ToSet(s) \subseteq S
<1>1. PICK n \in Nat : s \in [1 .. n -> S]
    BY SeqDef
<1>2. s \in [1 .. n -> ToSet(s)] /\ ToSet(s) \subseteq S
    BY <1>1 DEF ToSet
<1>. QED
    BY <1>2, SeqDef

\* A sequence with one more element holds that one more, ...
LEMMA AppendAddsOne ==
    ASSUME NEW s, s \in Seq(ToSet(s)), NEW x
    PROVE  /\ Append(s, x) \in Seq(ToSet(Append(s, x)))
           /\ ToSet(Append(s, x)) = ToSet(s) \union {x}
<1>1. s \in Seq(ToSet(s) \union {x})
    BY SMT
<1>2. Append(s, x) \in Seq(ToSet(s) \union {x})
    BY <1>1, SMT
<1>3. ToSet(Append(s, x)) = ToSet(s) \union {x}
    BY <1>1, SMT DEF ToSet
<1>. QED
    BY <1>2, <1>3

\* ... its suffixes hold nothing else ...
LEMMA SuffixIsWithin ==
    ASSUME NEW s, s \in Seq(ToSet(s)), NEW n \in 0 .. Len(s)
    PROVE  /\ SubSeq(s, n + 1, Len(s)) \in Seq(ToSet(SubSeq(s, n + 1, Len(s))))
           /\ ToSet(SubSeq(s, n + 1, Len(s))) \subseteq ToSet(s)
<1>1. SubSeq(s, n + 1, Len(s)) \in Seq(ToSet(s))
    BY SMT
<1>. QED
    BY <1>1, SequenceOfItsOwn

\* ... and neither does what is left when one element is removed.
LEMMA RemovalIsWithin ==
    ASSUME NEW s, s \in Seq(ToSet(s)), NEW i \in DOMAIN s
    PROVE  /\ RemoveAt(s, i) \in Seq(ToSet(RemoveAt(s, i)))
           /\ ToSet(RemoveAt(s, i)) \subseteq ToSet(s)
<1>1. i \in 1 .. Len(s) /\ Len(s) \in Nat
    BY SMT
<1>2. SubSeq(s, 1, i - 1) \in Seq(ToSet(s)) /\ SubSeq(s, i + 1, Len(s)) \in Seq(ToSet(s))
    BY <1>1, SMT
<1>3. RemoveAt(s, i) \in Seq(ToSet(s))
    BY <1>2, SMT DEF RemoveAt
<1>. QED
    BY <1>3, SequenceOfItsOwn

-----------------------------------------------------------------------------
(* The operations on the ledger.  HooksKept: the content of a hook leaves  *)
(* the queues only when the ledger or the turn knows it.                   *)
HooksKept(d, e) ==
    \A rule \in QueuesOf(d) \ QueuesOf(e) :
       hasDeliveryKey(e.hookKeys, rule) \/ hasDeliveryKey(e.turn.hooks, rule)

\* What two states of the ledger have in common when only its queues differ.
SameLedger(d, e) ==
    /\ e.ruleKeys = d.ruleKeys /\ e.hookKeys = d.hookKeys
    /\ e.seeded = d.seeded /\ e.needsRescan = d.needsRescan

\* Rules have known identities ...
LEMMA IdentitiesAreKnown ==
    ASSUME NEW rules, rules \subseteq Snapshots PROVE keysOf(rules) \subseteq KnownKeys
BY DEF keysOf, deliveryKey, KnownKeys

\* ... and so has what decodeRawHistory finds in parts that the plugin wrote.
LEMMA DecodedIsKnown ==
    ASSUME NEW parts, PartsAreKnown(parts)
    PROVE  /\ decodeRawHistory(parts).ruleKeys \subseteq KnownKeys
           /\ decodeRawHistory(parts).hookKeys \subseteq KnownKeys
BY DEF PartsAreKnown, decodeRawHistory

\* What createSession makes is in order.
LEMMA FreshIsOK == DeliveryOK(FreshDelivery)
BY DEF DeliveryOK, FreshDelivery, NoTurn, DeliveryFields, QueuesOf

\* routePendingHooks empties the mailbox and changes no queue of a hook.
LEMMA Routing ==
    ASSUME NEW d, DeliveryOK(d), NEW e, e = routePendingHooks(d)
    PROVE  /\ DeliveryOK(e) /\ SameLedger(d, e) /\ HooksKept(d, e)
           /\ e.revision = d.revision /\ e.pendingRules = d.pendingRules
           /\ e.turn = d.turn
           /\ e.pendingHooks = {}
           /\ QueuesOf(e) = QueuesOf(d)
<1> DEFINE durable == {h \in d.pendingHooks : hasDeliveryKey(d.ruleKeys, h.rule)
                                                 \/ h.lifetime = "durable"}
<1>1. e = [d EXCEPT !.durableHooks = @ \union durable,
                    !.transientHooks = @ \union (d.pendingHooks \ durable),
                    !.pendingHooks = {}]
    BY DEF routePendingHooks
<1>2. durable \subseteq d.pendingHooks
    OBVIOUS
<1> HIDE DEF durable
<1>3. /\ DOMAIN e = DeliveryFields
      /\ e.durableHooks = d.durableHooks \union durable
      /\ e.transientHooks = d.transientHooks \union (d.pendingHooks \ durable)
      /\ e.pendingHooks = {}
      /\ e.revision = d.revision /\ e.pendingRules = d.pendingRules /\ e.turn = d.turn
      /\ SameLedger(d, e)
    BY <1>1 DEF DeliveryOK, DeliveryFields, SameLedger
<1>4. QueuesOf(e) = QueuesOf(d)
    BY <1>2, <1>3 DEF QueuesOf
<1>. QED
    BY <1>3, <1>4 DEF DeliveryOK, HooksKept, SameLedger

\* replaceLedger takes its keys from the history, keeps hooks and counts a revision.
LEMMA Replacing ==
    ASSUME NEW d, DeliveryOK(d), NEW parts, PartsAreKnown(parts),
           NEW e, e = replaceLedger(d, parts)
    PROVE  /\ DeliveryOK(e) /\ HooksKept(d, e)
           /\ e.ruleKeys = decodeRawHistory(parts).ruleKeys
           /\ e.hookKeys = decodeRawHistory(parts).hookKeys
           /\ e.seeded /\ e.needsRescan = d.needsRescan
           /\ e.revision = d.revision + 1
           /\ e.pendingRules = d.pendingRules
           /\ e.turn = d.turn
           /\ QueuesOf(e) = QueuesOf(d)
<1> DEFINE facts == decodeRawHistory(parts)
<1>1. e = [d EXCEPT !.ruleKeys = facts.ruleKeys, !.hookKeys = facts.hookKeys,
                    !.revision = @ + 1, !.seeded = TRUE]
    BY DEF replaceLedger
<1>2. facts.ruleKeys \subseteq KnownKeys /\ facts.hookKeys \subseteq KnownKeys
    BY DecodedIsKnown
<1> HIDE DEF facts
<1>3. /\ DOMAIN e = DeliveryFields
      /\ e.ruleKeys = facts.ruleKeys /\ e.hookKeys = facts.hookKeys
      /\ e.seeded = TRUE /\ e.needsRescan = d.needsRescan
      /\ e.revision = d.revision + 1
      /\ e.pendingRules = d.pendingRules /\ e.turn = d.turn
      /\ e.pendingHooks = d.pendingHooks /\ e.durableHooks = d.durableHooks
      /\ e.transientHooks = d.transientHooks
    BY <1>1 DEF DeliveryOK, DeliveryFields
<1>4. QueuesOf(e) = QueuesOf(d)
    BY <1>3 DEF QueuesOf
<1>5. e.ruleKeys \union e.hookKeys \subseteq KnownKeys
    BY <1>2, <1>3
<1>6. e.revision \in Nat
    BY <1>3 DEF DeliveryOK
<1>7. e.pendingRules \union QueuesOf(e) \subseteq Snapshots
    BY <1>3, <1>4 DEF DeliveryOK
<1>8. e.seeded \in BOOLEAN /\ e.needsRescan \in BOOLEAN /\ DOMAIN e.turn = {"id", "rules", "hooks"}
    BY <1>3 DEF DeliveryOK
<1>9. DeliveryOK(e)
    BY <1>3, <1>5, <1>6, <1>7, <1>8 DEF DeliveryOK
<1>. QED
    BY <1>3, <1>4, <1>9 DEF HooksKept, facts

\* Setting needsRescan changes nothing else.
LEMMA Rescanned ==
    ASSUME NEW d, DeliveryOK(d), NEW b \in BOOLEAN, NEW e, e = [d EXCEPT !.needsRescan = b]
    PROVE  /\ DeliveryOK(e) /\ HooksKept(d, e)
           /\ e.ruleKeys = d.ruleKeys /\ e.hookKeys = d.hookKeys
           /\ e.seeded = d.seeded /\ e.needsRescan = b
           /\ e.revision = d.revision
           /\ e.pendingRules = d.pendingRules
           /\ QueuesOf(e) = QueuesOf(d)
<1>1. /\ DOMAIN e = DeliveryFields
      /\ e.ruleKeys = d.ruleKeys /\ e.hookKeys = d.hookKeys
      /\ e.seeded = d.seeded /\ e.needsRescan = b
      /\ e.revision = d.revision
      /\ e.pendingRules = d.pendingRules /\ e.turn = d.turn
      /\ e.pendingHooks = d.pendingHooks /\ e.durableHooks = d.durableHooks
      /\ e.transientHooks = d.transientHooks
    BY DEF DeliveryOK, DeliveryFields
<1>2. QueuesOf(e) = QueuesOf(d)
    BY <1>1 DEF QueuesOf
<1>. QED
    BY <1>1, <1>2 DEF DeliveryOK, HooksKept

\* A turn adds what it delivers to the ledger and keeps every other hook.
LEMMA TurnTaken ==
    ASSUME NEW d, DeliveryOK(d), NEW matched, matched \subseteq Snapshots,
           NEW e, e = afterTurn(d, matched)
    PROVE  /\ DeliveryOK(e) /\ HooksKept(d, e)
           /\ e.ruleKeys = d.ruleKeys \union keysOf(newTurnRules(d, matched))
           /\ e.hookKeys = d.hookKeys \union keysOf(newTurnHooks(d))
           /\ e.seeded = d.seeded /\ e.needsRescan = d.needsRescan
           /\ e.revision = d.revision
           /\ e.pendingRules = d.pendingRules
<1> DEFINE rules == keysOf(newTurnRules(d, matched))
           hooks == keysOf(newTurnHooks(d))
<1>1. e = [d EXCEPT !.ruleKeys = @ \union rules, !.hookKeys = @ \union hooks,
                    !.durableHooks = {}]
    BY DEF afterTurn
<1>2. newTurnRules(d, matched) \subseteq Snapshots
    BY DEF newTurnRules
<1>3. newTurnHooks(d) \subseteq Snapshots
    BY DEF newTurnHooks, DeliveryOK, QueuesOf
<1>4. rules \subseteq KnownKeys /\ hooks \subseteq KnownKeys
    BY <1>2, <1>3, IdentitiesAreKnown
<1>5. \A q \in d.durableHooks : hasDeliveryKey(d.hookKeys, q.rule) \/ q.rule.identity \in hooks
    BY DEF newTurnHooks, keysOf, deliveryKey
<1> HIDE DEF rules, hooks
<1>6. /\ DOMAIN e = DeliveryFields
      /\ e.ruleKeys = d.ruleKeys \union rules /\ e.hookKeys = d.hookKeys \union hooks
      /\ e.seeded = d.seeded /\ e.needsRescan = d.needsRescan
      /\ e.revision = d.revision
      /\ e.pendingRules = d.pendingRules /\ e.turn = d.turn
      /\ e.pendingHooks = d.pendingHooks /\ e.durableHooks = {}
      /\ e.transientHooks = d.transientHooks
    BY <1>1 DEF DeliveryOK, DeliveryFields
<1>7. QueuesOf(e) \subseteq QueuesOf(d)
    BY <1>6 DEF QueuesOf
<1>8. DeliveryOK(e)
  <2>1. e.ruleKeys \union e.hookKeys \subseteq KnownKeys
      BY <1>4, <1>6 DEF DeliveryOK
  <2>2. e.pendingRules \union QueuesOf(e) \subseteq Snapshots
      BY <1>6, <1>7 DEF DeliveryOK
  <2>3. /\ e.seeded \in BOOLEAN /\ e.needsRescan \in BOOLEAN /\ e.revision \in Nat
        /\ DOMAIN e.turn = {"id", "rules", "hooks"}
      BY <1>6 DEF DeliveryOK
  <2>. QED
      BY <1>6, <2>1, <2>2, <2>3 DEF DeliveryOK
<1>9. HooksKept(d, e)
  <2>1. SUFFICES ASSUME NEW rule \in QueuesOf(d) \ QueuesOf(e)
                 PROVE  hasDeliveryKey(e.hookKeys, rule)
      BY DEF HooksKept
  <2>2. PICK q \in d.durableHooks : q.rule = rule
      BY <1>6 DEF QueuesOf
  <2>. QED
      BY <1>5, <1>6, <2>2 DEF hasDeliveryKey
<1>. QED
    BY <1>6, <1>8, <1>9 DEF rules, hooks

\* What a turn sends names the rules and hooks the ledger now counts.
LEMMA TurnSent ==
    ASSUME NEW d, DeliveryOK(d), NEW matched, matched \subseteq Snapshots,
           NEW message, NEW out, out = turnPart(d, matched, message)
    PROVE  /\ PartsAreKnown(out)
           /\ \A p \in out : /\ p.kind = "durable"
                             /\ p.rules = keysOf(newTurnRules(d, matched))
           /\ AtMostOne(out)
           /\ keysOf(newTurnRules(d, matched)) \subseteq decodeRawHistory(out).ruleKeys
           /\ keysOf(newTurnHooks(d)) \subseteq decodeRawHistory(out).hookKeys
<1> DEFINE rules == keysOf(newTurnRules(d, matched))
           hooks == keysOf(newTurnHooks(d))
           part == buildDurableDeliveryPart(rules, hooks, message)
<1>1. newTurnRules(d, matched) \subseteq Snapshots
    BY DEF newTurnRules
<1>2. newTurnHooks(d) \subseteq Snapshots
    BY DEF newTurnHooks, DeliveryOK, QueuesOf
<1>3. rules \subseteq KnownKeys /\ hooks \subseteq KnownKeys
    BY <1>1, <1>2, IdentitiesAreKnown
<1>4. out = IF rules \union hooks = {} THEN {} ELSE {part}
    BY DEF turnPart
<1>5. part.rules = rules /\ part.hooks = hooks /\ part.kind = "durable"
    BY DEF buildDurableDeliveryPart
<1> HIDE DEF part, rules, hooks
<1>6. CASE rules \union hooks = {}
    BY <1>4, <1>6 DEF PartsAreKnown, AtMostOne, rules, hooks
<1>7. CASE rules \union hooks # {}
  <2>1. out = {part}
      BY <1>4, <1>7
  <2>2. rules \subseteq decodeRawHistory(out).ruleKeys /\ hooks \subseteq decodeRawHistory(out).hookKeys
      BY <1>5, <2>1 DEF decodeRawHistory
  <2>. QED
      BY <1>3, <1>5, <2>1, <2>2 DEF PartsAreKnown, AtMostOne, rules, hooks
<1>. QED
    BY <1>6, <1>7

\* Rules that wait for a turn leave the ledger and the hooks alone, ...
LEMMA RulesQueued ==
    ASSUME NEW d, DeliveryOK(d), NEW rules, rules \subseteq Snapshots,
           NEW e, e = queuePendingRules(d, rules)
    PROVE  /\ DeliveryOK(e) /\ SameLedger(d, e) /\ HooksKept(d, e)
           /\ e.revision = d.revision /\ QueuesOf(e) = QueuesOf(d)
<1>1. PICK more \in SUBSET rules : e = [d EXCEPT !.pendingRules = @ \union more]
    BY DEF queuePendingRules
<1>2. /\ DOMAIN e = DeliveryFields
      /\ e.ruleKeys = d.ruleKeys /\ e.hookKeys = d.hookKeys
      /\ e.seeded = d.seeded /\ e.needsRescan = d.needsRescan
      /\ e.revision = d.revision /\ e.turn = d.turn
      /\ e.pendingRules = d.pendingRules \union more
      /\ e.pendingHooks = d.pendingHooks /\ e.durableHooks = d.durableHooks
      /\ e.transientHooks = d.transientHooks
    BY <1>1 DEF DeliveryOK, DeliveryFields
<1>3. QueuesOf(e) = QueuesOf(d)
    BY <1>2 DEF QueuesOf
<1>. QED
    BY <1>2, <1>3 DEF DeliveryOK, HooksKept, SameLedger

\* ... and so does dropping some of them.
LEMMA RulesDropped ==
    ASSUME NEW d, DeliveryOK(d), NEW kept, kept \subseteq d.pendingRules,
           NEW e, e = [d EXCEPT !.pendingRules = kept]
    PROVE  /\ DeliveryOK(e) /\ SameLedger(d, e) /\ HooksKept(d, e)
           /\ e.revision = d.revision /\ QueuesOf(e) = QueuesOf(d)
<1>2. /\ DOMAIN e = DeliveryFields
      /\ e.ruleKeys = d.ruleKeys /\ e.hookKeys = d.hookKeys
      /\ e.seeded = d.seeded /\ e.needsRescan = d.needsRescan
      /\ e.revision = d.revision /\ e.turn = d.turn
      /\ e.pendingRules = kept
      /\ e.pendingHooks = d.pendingHooks /\ e.durableHooks = d.durableHooks
      /\ e.transientHooks = d.transientHooks
    BY DEF DeliveryOK, DeliveryFields
<1>3. QueuesOf(e) = QueuesOf(d)
    BY <1>2 DEF QueuesOf
<1>. QED
    BY <1>2, <1>3 DEF DeliveryOK, HooksKept, SameLedger

\* What was persisted is added to the ledger.
LEMMA RulesPersisted ==
    ASSUME NEW d, DeliveryOK(d), NEW rules, rules \subseteq Snapshots,
           NEW e, e = afterPersist(d, rules)
    PROVE  /\ DeliveryOK(e) /\ HooksKept(d, e)
           /\ e.ruleKeys = d.ruleKeys \union keysOf(rules)
           /\ e.hookKeys = d.hookKeys
           /\ e.seeded = d.seeded /\ e.needsRescan = d.needsRescan
           /\ e.revision = d.revision
<1> DEFINE keys == keysOf(rules)
           kept == {r \in d.pendingRules : deliveryKey(r) \notin keys}
<1>1. e = [d EXCEPT !.ruleKeys = @ \union keys, !.pendingRules = kept]
    BY DEF afterPersist
<1>2. keys \subseteq KnownKeys
    BY IdentitiesAreKnown
<1>6. kept \subseteq d.pendingRules
    OBVIOUS
<1> HIDE DEF keys, kept
<1>3. /\ DOMAIN e = DeliveryFields
      /\ e.ruleKeys = d.ruleKeys \union keys /\ e.hookKeys = d.hookKeys
      /\ e.seeded = d.seeded /\ e.needsRescan = d.needsRescan
      /\ e.revision = d.revision /\ e.turn = d.turn
      /\ e.pendingRules = kept
      /\ e.pendingHooks = d.pendingHooks /\ e.durableHooks = d.durableHooks
      /\ e.transientHooks = d.transientHooks
    BY <1>1 DEF DeliveryOK, DeliveryFields
<1>4. QueuesOf(e) = QueuesOf(d)
    BY <1>3 DEF QueuesOf
<1>5. e.ruleKeys \union e.hookKeys \subseteq KnownKeys
    BY <1>2, <1>3 DEF DeliveryOK
<1>. QED
    BY <1>3, <1>4, <1>5, <1>6 DEF DeliveryOK, HooksKept, keys

\* A compaction and a removal both make every earlier revision an old one.
LEMMA Marking ==
    ASSUME NEW d, DeliveryOK(d), NEW e, e \in {markCompacted(d), markHistoryChanged(d)}
    PROVE  /\ DeliveryOK(e) /\ HooksKept(d, e)
           /\ e.revision = d.revision + 1
           /\ ~ (e.seeded /\ ~ e.needsRescan)
<1>1. /\ DOMAIN e = DeliveryFields
      /\ e.ruleKeys = d.ruleKeys /\ e.hookKeys = d.hookKeys
      /\ e.seeded = d.seeded \/ e.seeded = FALSE
      /\ e.needsRescan \in BOOLEAN
      /\ e.revision = d.revision + 1 /\ e.turn = NoTurn
      /\ e.pendingRules = d.pendingRules
      /\ e.pendingHooks = d.pendingHooks /\ e.durableHooks = d.durableHooks
      /\ e.transientHooks = d.transientHooks
      /\ e.seeded => e.needsRescan
  <2>1. CASE e = markCompacted(d)
      BY <2>1 DEF markCompacted, DeliveryOK, DeliveryFields
  <2>2. CASE e = markHistoryChanged(d)
      BY <2>2 DEF markHistoryChanged, DeliveryOK, DeliveryFields
  <2>. QED
      BY <2>1, <2>2
<1>2. QueuesOf(e) = QueuesOf(d)
    BY <1>1 DEF QueuesOf
<1>3. DOMAIN e.turn = {"id", "rules", "hooks"}
    BY <1>1 DEF NoTurn
<1>4. e.seeded \in BOOLEAN
    BY <1>1, Zenon DEF DeliveryOK
<1>6. e.revision \in Nat
    BY <1>1 DEF DeliveryOK
<1>5. DeliveryOK(e)
    BY <1>1, <1>2, <1>3, <1>4, <1>6 DEF DeliveryOK
<1>. QED
    BY <1>1, <1>2, <1>5 DEF HooksKept, DeliveryOK

\* What hooks add to the queues: nothing is counted as delivered for it.
LEMMA HooksQueued ==
    ASSUME NEW d, DeliveryOK(d), NEW hooks, \A q \in hooks : q.rule \in Snapshots,
           NEW e, e = queueMatchedHooks(d, hooks)
    PROVE  /\ DeliveryOK(e) /\ SameLedger(d, e) /\ HooksKept(d, e)
           /\ e.revision = d.revision
<1>1. PICK more \in SUBSET hooks :
        LET next == [d EXCEPT !.pendingHooks = @ \union more]
        IN  e = IF d.seeded /\ ~ d.needsRescan THEN routePendingHooks(next) ELSE next
  <2> DEFINE queued == {h.rule : h \in d.pendingHooks \union d.durableHooks
                                          \union d.transientHooks}
             more == {h \in hooks : h.rule \notin queued}
             next == [d EXCEPT !.pendingHooks = @ \union more]
  <2>1. e = IF d.seeded /\ ~ d.needsRescan THEN routePendingHooks(next) ELSE next
      BY DEF queueMatchedHooks
  <2>2. more \in SUBSET hooks
      OBVIOUS
  <2> HIDE DEF queued, more
  <2>. QED
      BY <2>1, <2>2
<1> DEFINE next == [d EXCEPT !.pendingHooks = @ \union more]
<1>2. e = IF d.seeded /\ ~ d.needsRescan THEN routePendingHooks(next) ELSE next
    BY <1>1
<1>3. /\ DOMAIN next = DeliveryFields
      /\ next.ruleKeys = d.ruleKeys /\ next.hookKeys = d.hookKeys
      /\ next.seeded = d.seeded /\ next.needsRescan = d.needsRescan
      /\ next.revision = d.revision /\ next.turn = d.turn
      /\ next.pendingRules = d.pendingRules
      /\ next.pendingHooks = d.pendingHooks \union more
      /\ next.durableHooks = d.durableHooks
      /\ next.transientHooks = d.transientHooks
    BY DEF DeliveryOK, DeliveryFields
<1> HIDE DEF next
<1>4. QueuesOf(d) \subseteq QueuesOf(next) /\ QueuesOf(next) \subseteq Snapshots
  <2>1. QueuesOf(d) \subseteq Snapshots
      BY DEF DeliveryOK
  <2>2. QueuesOf(next) = QueuesOf(d) \union {q.rule : q \in more}
      BY <1>3 DEF QueuesOf
  <2>. QED
      BY <2>1, <2>2
<1>5. DeliveryOK(next)
  <2>1. next.pendingRules \union QueuesOf(next) \subseteq Snapshots
      BY <1>3, <1>4 DEF DeliveryOK
  <2>. QED
      BY <1>3, <2>1 DEF DeliveryOK
<1>6. CASE e = next
    BY <1>3, <1>4, <1>5, <1>6 DEF HooksKept, SameLedger
<1>7. CASE e = routePendingHooks(next)
  <2>1. /\ DeliveryOK(e) /\ SameLedger(next, e) /\ e.revision = next.revision
        /\ QueuesOf(e) = QueuesOf(next)
      BY <1>5, <1>7, Routing
  <2>. QED
      BY <1>3, <1>4, <2>1 DEF HooksKept, SameLedger
<1>. QED
    BY <1>2, <1>6, <1>7

\* The ledger "e" a dispatch works on: its own, "d", or what its messages say.
Begun(d, parts, e) ==
    /\ DeliveryOK(e)
    /\ QueuesOf(e) = QueuesOf(d)
    /\ e.seeded = TRUE /\ e.needsRescan = FALSE
    /\ e.pendingRules = d.pendingRules
    /\ \/ /\ d.seeded /\ ~ d.needsRescan
          /\ e.ruleKeys = d.ruleKeys /\ e.hookKeys = d.hookKeys
          /\ e.revision = d.revision
       \/ /\ ~ (d.seeded /\ ~ d.needsRescan)
          /\ e.ruleKeys = decodeRawHistory(parts).ruleKeys
          /\ e.hookKeys = decodeRawHistory(parts).hookKeys
          /\ e.revision = d.revision + 1

\* beforeDispatch: the ledger of the history where there was none, then the hooks.
LEMMA DispatchBegun ==
    ASSUME NEW d, DeliveryOK(d), NEW parts, PartsAreKnown(parts), NEW turnId,
           NEW e, e = beforeDispatch(d, parts, turnId)
    PROVE  Begun(d, parts, e)
<1> DEFINE replaced == replaceLedger(d, parts)
           current == IF d.seeded /\ ~ d.needsRescan THEN d
                      ELSE [replaced EXCEPT !.needsRescan = FALSE]
           routed  == routePendingHooks(current)
           present == decodeTransientPresence(parts)
           turn    == IF routed.turn.id = turnId THEN routed.turn
                      ELSE [NoTurn EXCEPT !.id = turnId]
           new     == [turn EXCEPT !.rules = @ \union present.ruleKeys,
                                   !.hooks = @ \union present.hookKeys]
<1>1. e = [routed EXCEPT !.turn = new]
    BY DEF beforeDispatch
<1>2. /\ DeliveryOK(current) /\ QueuesOf(current) = QueuesOf(d)
      /\ current.seeded = TRUE /\ current.needsRescan = FALSE
      /\ current.pendingRules = d.pendingRules
      /\ \/ /\ d.seeded /\ ~ d.needsRescan
            /\ current.ruleKeys = d.ruleKeys /\ current.hookKeys = d.hookKeys
            /\ current.revision = d.revision
         \/ /\ ~ (d.seeded /\ ~ d.needsRescan)
            /\ current.ruleKeys = decodeRawHistory(parts).ruleKeys
            /\ current.hookKeys = decodeRawHistory(parts).hookKeys
            /\ current.revision = d.revision + 1
  <2>1. CASE d.seeded /\ ~ d.needsRescan
      BY <2>1 DEF DeliveryOK
  <2>2. CASE ~ (d.seeded /\ ~ d.needsRescan)
    <3>1. /\ DeliveryOK(replaced)
          /\ replaced.ruleKeys = decodeRawHistory(parts).ruleKeys
          /\ replaced.hookKeys = decodeRawHistory(parts).hookKeys
          /\ replaced.seeded
          /\ replaced.revision = d.revision + 1
          /\ replaced.pendingRules = d.pendingRules
          /\ QueuesOf(replaced) = QueuesOf(d)
        BY Replacing
    <3>2. current = [replaced EXCEPT !.needsRescan = FALSE]
        BY <2>2
    <3> HIDE DEF replaced, current
    <3>3. /\ DeliveryOK(current) /\ current.ruleKeys = replaced.ruleKeys
          /\ current.hookKeys = replaced.hookKeys /\ current.seeded = replaced.seeded
          /\ current.needsRescan = FALSE /\ current.revision = replaced.revision
          /\ current.pendingRules = replaced.pendingRules
          /\ QueuesOf(current) = QueuesOf(replaced)
        <4>1. FALSE \in BOOLEAN
            OBVIOUS
        <4> QED
            BY <3>1, <3>2, <4>1, Rescanned, ZenonT(60)
    <3>4. replaced.seeded = TRUE
        BY <3>1 DEF DeliveryOK
    <3>. QED
        BY <2>2, <3>1, <3>3, <3>4
  <2>. QED
      BY <2>1, <2>2
<1> HIDE DEF current
<1>3. /\ DeliveryOK(routed) /\ SameLedger(current, routed)
      /\ routed.revision = current.revision
      /\ routed.pendingRules = current.pendingRules
      /\ QueuesOf(routed) = QueuesOf(current)
    BY <1>2, Routing
<1> HIDE DEF routed
<1>4. DOMAIN turn = {"id", "rules", "hooks"}
    BY <1>3 DEF DeliveryOK, NoTurn
<1> HIDE DEF turn, present
<1>5. DOMAIN new = {"id", "rules", "hooks"}
    BY <1>4
<1> HIDE DEF new
<1>6. /\ DOMAIN e = DeliveryFields
      /\ e.ruleKeys = routed.ruleKeys /\ e.hookKeys = routed.hookKeys
      /\ e.seeded = routed.seeded /\ e.needsRescan = routed.needsRescan
      /\ e.revision = routed.revision /\ e.turn = new
      /\ e.pendingRules = routed.pendingRules
      /\ e.pendingHooks = routed.pendingHooks
      /\ e.durableHooks = routed.durableHooks
      /\ e.transientHooks = routed.transientHooks
    BY <1>1, <1>3 DEF DeliveryOK, DeliveryFields
<1>7. QueuesOf(e) = QueuesOf(routed)
    BY <1>6 DEF QueuesOf
<1>8. DeliveryOK(e)
    BY <1>3, <1>5, <1>6, <1>7 DEF DeliveryOK
<1>. QED
    BY <1>2, <1>3, <1>6, <1>7, <1>8 DEF SameLedger, Begun

\* What a request has shown is of the turn, and its hooks leave the queue.
LEMMA DispatchMade ==
    ASSUME NEW d, DeliveryOK(d), NEW matched, NEW e, e = afterDispatch(d, matched)
    PROVE  /\ DeliveryOK(e) /\ SameLedger(d, e) /\ HooksKept(d, e)
           /\ e.revision = d.revision
<1> DEFINE rules == keysOf(dispatchRules(d, matched))
           hooks == keysOf(dispatchHooks(d))
           new == [d.turn EXCEPT !.rules = @ \union rules, !.hooks = @ \union hooks]
<1>0. \A q \in d.transientHooks :
        hasDeliveryKey(d.turn.hooks, q.rule) \/ q.rule.identity \in hooks
    BY DEF dispatchHooks, keysOf, deliveryKey
<1>1. e = [d EXCEPT !.turn.rules = @ \union rules, !.turn.hooks = @ \union hooks,
                    !.transientHooks = {}]
    BY DEF afterDispatch
<1> HIDE DEF rules, hooks
<1>2. e = [d EXCEPT !.turn = new, !.transientHooks = {}]
    BY <1>1 DEF DeliveryOK, DeliveryFields
<1>3. DOMAIN new = {"id", "rules", "hooks"} /\ new.hooks = d.turn.hooks \union hooks
    BY DEF DeliveryOK
<1> HIDE DEF new
<1>4. /\ DOMAIN e = DeliveryFields
      /\ e.ruleKeys = d.ruleKeys /\ e.hookKeys = d.hookKeys
      /\ e.seeded = d.seeded /\ e.needsRescan = d.needsRescan
      /\ e.revision = d.revision /\ e.turn = new
      /\ e.pendingRules = d.pendingRules
      /\ e.pendingHooks = d.pendingHooks /\ e.durableHooks = d.durableHooks
      /\ e.transientHooks = {}
    BY <1>2 DEF DeliveryOK, DeliveryFields
<1>5. QueuesOf(e) \subseteq QueuesOf(d)
    BY <1>4 DEF QueuesOf
<1>6. DeliveryOK(e)
    BY <1>3, <1>4, <1>5 DEF DeliveryOK
<1>7. HooksKept(d, e)
  <2>1. SUFFICES ASSUME NEW rule \in QueuesOf(d) \ QueuesOf(e)
                 PROVE  hasDeliveryKey(e.turn.hooks, rule)
      BY DEF HooksKept
  <2>2. PICK q \in d.transientHooks : q.rule = rule
      BY <1>4 DEF QueuesOf
  <2>. QED
      BY <1>0, <1>3, <1>4, <2>2 DEF hasDeliveryKey
<1>. QED
    BY <1>4, <1>6, <1>7 DEF SameLedger

-----------------------------------------------------------------------------
(* What a step leaves as it was.                                           *)
Later(now, gone, held, now2, gone2, held2) ==
    \/ now2 = now /\ (~ gone2 => ~ gone /\ held \subseteq held2)
    \/ now2 = now + 1

\* A read that was sound stays so when later removals and messages come.
LEMMA ReadStays ==
    ASSUME NEW r, NEW now \in Nat, NEW gone, NEW held, NEW now2, NEW gone2, NEW held2,
           ReadOK(r, now, gone, held), Later(now, gone, held, now2, gone2, held2)
    PROVE  ReadOK(r, now2, gone2, held2)
BY DEF ReadOK, Later

\* So does what a handler has in hand.
LEMMA HandlerStays ==
    ASSUME NEW x, NEW now \in Nat, NEW gone, NEW held, NEW rev \in Nat,
           NEW now2, NEW gone2, NEW held2, NEW rev2 \in Nat,
           HandlerOK(x, now, gone, held, rev), Later(now, gone, held, now2, gone2, held2),
           x.pc = "turnReading" => rev <= rev2 /\ (now2 = now \/ rev < rev2)
    PROVE  HandlerOK(x, now2, gone2, held2, rev2)
<1>1. ReadOK(x.read, now2, gone2, held2)
    BY ReadStays DEF HandlerOK
<1>2. CASE x.pc # "turnReading"
    BY <1>1, <1>2 DEF HandlerOK
<1>3. CASE x.pc = "turnReading"
  <2>1. x.ledger \in Nat /\ x.ledger <= rev2
      BY <1>3 DEF HandlerOK
  <2>2. x.ledger = rev2 => x.read.asOf = now2
      BY <1>3 DEF HandlerOK
  <2>. QED
      BY <1>1, <1>3, <2>1, <2>2 DEF HandlerOK
<1>. QED
    BY <1>2, <1>3

\* Reads that nobody touches stay sound while the history grows.
LEMMA ReadsStay ==
    ASSUME RInv, UNCHANGED <<historyReads, invalidations, removing>>,
           ToSet(history) \subseteq ToSet(history')
    PROVE  ReadsOK'
BY DEF RInv, ReadsOK, ReadOK

\* More parts give no fewer keys.
LEMMA DecodeGrows ==
    ASSUME NEW P, NEW Q, P \subseteq Q
    PROVE  /\ decodeRawHistory(P).ruleKeys \subseteq decodeRawHistory(Q).ruleKeys
           /\ decodeRawHistory(P).hookKeys \subseteq decodeRawHistory(Q).hookKeys
BY DEF decodeRawHistory

\* A ledger that nobody touches stays backed while the messages given grow.
LEMMA BackedStays ==
    ASSUME RInv, SameLedger(delivery, delivery'), UNCHANGED <<removing, overtaken>>,
           Given \subseteq Given'
    PROVE  Backed'
BY DecodeGrows DEF RInv, Backed, SameLedger, LedgerInUse

\* A longer history has no fewer parts.
LEMMA PartsGrow ==
    ASSUME ToSet(history) \subseteq ToSet(history') PROVE AllParts(history) \subseteq AllParts(history')
BY DEF AllParts

\* What is on its way, when one handler goes on.
LEMMA InFlightSame ==
    ASSUME HandlersOK, NEW h \in Handler, NEW next, Goes(h, next),
           handler[h].pc # "answered", next.pc # "answered"
    PROVE  InFlight' = InFlight
<1>1. \A g \in Handler : handler'[g] = IF g = h THEN next ELSE handler[g]
    BY DEF HandlersOK, Goes
<1>2. \A g \in Handler : handler'[g].pc = "answered" <=> handler[g].pc = "answered"
    BY <1>1
<1>3. \A g \in Handler : handler[g].pc = "answered" => handler'[g].output = handler[g].output
    BY <1>1
<1>. QED
    BY <1>2, <1>3 DEF InFlight, At

\* An answer adds its parts to those in flight ...
LEMMA InFlightGrows ==
    ASSUME HandlersOK, NEW h \in Handler, NEW next, Goes(h, next),
           handler[h].pc # "answered", next.pc = "answered"
    PROVE  InFlight' = InFlight \union next.output
<1>1. \A g \in Handler : handler'[g] = IF g = h THEN next ELSE handler[g]
    BY DEF HandlersOK, Goes
<1>. QED
    BY <1>1 DEF InFlight, At

\* ... and storing it takes them out.
LEMMA InFlightStored ==
    ASSUME HandlersOK, NEW h \in Handler, NEW next, Goes(h, next),
           handler[h].pc = "answered", next.pc # "answered"
    PROVE  /\ InFlight \subseteq InFlight' \union handler[h].output
           /\ InFlight' \subseteq InFlight
           /\ handler[h].output \subseteq InFlight
<1>1. \A g \in Handler : handler'[g] = IF g = h THEN next ELSE handler[g]
    BY DEF HandlersOK, Goes
<1>. QED
    BY <1>1 DEF InFlight, At

-----------------------------------------------------------------------------
(* The queue.                                                              *)
Queued(x) == x.pc \in Running \union {"queued"}

\* The queue is untouched by a handler that is not in it, ...
LEMMA QueueStays ==
    ASSUME HandlersOK, QueueOK, NEW h \in Handler, NEW next, Goes(h, next), UNCHANGED queue,
           ~ Queued(handler[h]), ~ Queued(next)
    PROVE  QueueOK'
<1>1. \A g \in Handler : handler'[g] = IF g = h THEN next ELSE handler[g]
    BY DEF HandlersOK, Goes
<1>. QED
    BY <1>1 DEF QueueOK, Queued, Running

\* ... by the first one as long as it is under way, ...
LEMMA QueueGoesOn ==
    ASSUME HandlersOK, QueueOK, NEW h \in Handler, NEW next, Goes(h, next), UNCHANGED queue,
           queue # <<>>, queue[1] = h, next.pc \in Running
    PROVE  QueueOK'
<1>1. \A g \in Handler : handler'[g] = IF g = h THEN next ELSE handler[g]
    BY DEF HandlersOK, Goes
<1>2. 1 \in 1 .. Len(queue)
    BY DEF QueueOK
<1>. QED
    BY <1>1, <1>2 DEF QueueOK, Running

\* ... it is joined at its end ...
LEMMA QueueJoined ==
    ASSUME HandlersOK, QueueOK, NEW h \in Handler, NEW next, Goes(h, next),
           queue' = Append(queue, h), ~ Queued(handler[h]), next.pc = "queued"
    PROVE  QueueOK'
<1>1. \A g \in Handler : handler'[g] = IF g = h THEN next ELSE handler[g]
    BY DEF HandlersOK, Goes
<1>2. /\ queue' \in Seq(Handler) /\ Len(queue') = Len(queue) + 1 /\ Len(queue) \in Nat
      /\ \A i \in 1 .. Len(queue) : queue'[i] = queue[i] /\ queue[i] \in Handler
      /\ queue'[Len(queue) + 1] = h
    BY DEF QueueOK
<1>3. \A i \in 1 .. Len(queue) : queue[i] # h
    BY DEF QueueOK, Queued
<1>4. \A i, j \in 1 .. Len(queue') : queue'[i] = queue'[j] => i = j
    BY <1>2, <1>3 DEF QueueOK
<1>5. \A g \in Handler :
        (\E i \in 1 .. Len(queue') : queue'[i] = g) <=> handler'[g].pc \in Running \union {"queued"}
  <2>1. SUFFICES ASSUME NEW g \in Handler
                 PROVE  (\E i \in 1 .. Len(queue') : queue'[i] = g)
                           <=> handler'[g].pc \in Running \union {"queued"}
      OBVIOUS
  <2>2. CASE g = h
      BY <1>1, <1>2, <2>2
  <2>3. CASE g # h
    <3>1. (\E i \in 1 .. Len(queue') : queue'[i] = g) <=> \E i \in 1 .. Len(queue) : queue[i] = g
        BY <1>2, <2>3
    <3>. QED
        BY <1>1, <2>3, <3>1 DEF QueueOK
  <2>. QED
      BY <2>2, <2>3
<1>6. \A g \in Handler : handler'[g].pc \in Running => queue' # <<>> /\ queue'[1] = g
  <2>1. SUFFICES ASSUME NEW g \in Handler, handler'[g].pc \in Running
                 PROVE  queue' # <<>> /\ queue'[1] = g
      OBVIOUS
  <2>2. g # h
      BY <1>1, <2>1 DEF Running
  <2>3. queue # <<>> /\ queue[1] = g
      BY <1>1, <2>1, <2>2 DEF QueueOK
  <2>4. 1 \in 1 .. Len(queue)
      BY <2>3 DEF QueueOK
  <2>. QED
      BY <1>2, <2>3, <2>4
<1>. QED
    BY <1>2, <1>4, <1>5, <1>6 DEF QueueOK

\* ... and left at its head.
LEMMA QueueLeft ==
    ASSUME HandlersOK, QueueOK, NEW h \in Handler, NEW next, Goes(h, next), Ends,
           queue # <<>>, queue[1] = h, ~ Queued(next)
    PROVE  QueueOK'
<1>1. \A g \in Handler : handler'[g] = IF g = h THEN next ELSE handler[g]
    BY DEF HandlersOK, Goes
<1>2. /\ queue' \in Seq(Handler) /\ Len(queue') = Len(queue) - 1 /\ Len(queue) \in Nat
      /\ Len(queue) >= 1
      /\ \A i \in 1 .. Len(queue') : queue'[i] = queue[i + 1] /\ i + 1 \in 1 .. Len(queue)
      /\ 1 \in 1 .. Len(queue)
    BY DEF QueueOK, Ends
<1>3. \A i, j \in 1 .. Len(queue') : queue'[i] = queue'[j] => i = j
  <2>1. SUFFICES ASSUME NEW i \in 1 .. Len(queue'), NEW j \in 1 .. Len(queue'),
                        queue'[i] = queue'[j]
                 PROVE  i = j
      OBVIOUS
  <2>2. queue[i + 1] = queue[j + 1] /\ i + 1 \in 1 .. Len(queue) /\ j + 1 \in 1 .. Len(queue)
      BY <1>2, <2>1
  <2>3. i + 1 = j + 1
      BY <2>2 DEF QueueOK
  <2>. QED
      BY <1>2, <2>3
<1>4. \A i \in 1 .. Len(queue') : queue'[i] # h
  <2>1. SUFFICES ASSUME NEW i \in 1 .. Len(queue'), queue'[i] = h PROVE FALSE
      OBVIOUS
  <2>2. queue[i + 1] = queue[1] /\ i + 1 \in 1 .. Len(queue)
      BY <1>2, <2>1
  <2>3. i + 1 = 1
      BY <1>2, <2>2 DEF QueueOK
  <2>. QED
      BY <1>2, <2>3
<1>5. \A g \in Handler : g # h =>
        ((\E i \in 1 .. Len(queue') : queue'[i] = g) <=> \E i \in 1 .. Len(queue) : queue[i] = g)
  <2>1. SUFFICES ASSUME NEW g \in Handler, g # h
                 PROVE  (\E i \in 1 .. Len(queue') : queue'[i] = g)
                           <=> \E i \in 1 .. Len(queue) : queue[i] = g
      OBVIOUS
  <2>2. ASSUME NEW i \in 1 .. Len(queue), queue[i] = g
        PROVE  \E j \in 1 .. Len(queue') : queue'[j] = g
    <3>1. i # 1
        BY <2>1, <2>2
    <3>2. i - 1 \in 1 .. Len(queue') /\ (i - 1) + 1 = i
        BY <1>2, <3>1
    <3>. QED
        BY <1>2, <2>2, <3>2
  <2>. QED
      BY <1>2, <2>2
<1>6. \A g \in Handler :
        (\E i \in 1 .. Len(queue') : queue'[i] = g) <=> handler'[g].pc \in Running \union {"queued"}
    BY <1>1, <1>4, <1>5 DEF QueueOK, Queued
<1>7. \A g \in Handler : handler'[g].pc \in Running => queue' # <<>> /\ queue'[1] = g
    BY <1>1 DEF QueueOK, Queued
<1>. QED
    BY <1>2, <1>3, <1>6, <1>7 DEF QueueOK

-----------------------------------------------------------------------------
(* What a step keeps for TurnsForgetNothing.                               *)
StepKeeps ==
    /\ delivery' # FreshDelivery => HooksKept(delivery, delivery')
    /\ \A g \in Handler :
          /\ At(g, "turnReading") /\ handler'[g].pc # "turnReading"
          /\ delivery'.revision # delivery.revision
          => ~ overtaken'

\* What each step of a handler owes the invariant, on top of what it does to its own parts.
LEMMA HandlerStep ==
    ASSUME RInv, NEW h \in Handler, NEW next, Goes(h, next),
           DeliveryOK(delivery'), HooksKept(delivery, delivery'),
           delivery.revision <= delivery'.revision,
           HistoryOK', ToSet(history) \subseteq ToSet(history'),
           UNCHANGED <<removing, invalidations>>,
           ReadsOK', QueueOK', CountedOK', Backed',
           HandlerOK(next, invalidations, removing, ToSet(history'), delivery'.revision),
           At(h, "turnReading") /\ next.pc # "turnReading"
             /\ delivery'.revision # delivery.revision => ~ overtaken'
    PROVE  RInv' /\ StepKeeps
<1>1. /\ handler' = [g \in Handler |-> handler'[g]]
      /\ \A g \in Handler : handler'[g] = IF g = h THEN next ELSE handler[g]
    BY DEF RInv, HandlersOK, Goes
<1>2. ASSUME NEW g \in Handler, g # h
      PROVE  HandlerOK(handler[g], invalidations, removing, ToSet(history'), delivery'.revision)
  <2>1. HandlerOK(handler[g], invalidations, removing, ToSet(history), delivery.revision)
      BY DEF RInv, HandlersOK
  <2>2. Later(invalidations, removing, ToSet(history), invalidations, removing, ToSet(history'))
      BY DEF Later
  <2>3. invalidations \in Nat /\ delivery.revision \in Nat /\ delivery'.revision \in Nat
      BY DEF RInv, ReadsOK, DeliveryOK
  <2>. QED
      BY <2>1, <2>2, <2>3, HandlerStays
<1>3. HandlersOK'
    BY <1>1, <1>2 DEF HandlersOK
<1>4. StepKeeps
    BY <1>1 DEF StepKeeps, At
<1>. QED
    BY <1>3, <1>4 DEF RInv

\* A step of a handler that leaves the history and the ledger alone.
LEMMA QuietStep ==
    ASSUME RInv, NEW h \in Handler, NEW next, Goes(h, next),
           UNCHANGED <<history, removing, invalidations, overtaken>>,
           DeliveryOK(delivery'), HooksKept(delivery, delivery'),
           SameLedger(delivery, delivery'), delivery'.revision = delivery.revision,
           ReadsOK', QueueOK', CountedOK',
           handler[h].pc # "answered", InFlight \subseteq InFlight',
           HandlerOK(next, invalidations, removing, ToSet(history), delivery.revision)
    PROVE  RInv' /\ StepKeeps
<1>1. HistoryOK' /\ ToSet(history') = ToSet(history)
    BY DEF RInv, HistoryOK, ToSet
<1>2. Given \subseteq Given'
    BY DEF Given, AllParts
<1>3. Backed'
    BY <1>2, BackedStays
<1>4. delivery.revision <= delivery'.revision
    BY DEF RInv, DeliveryOK
<1>. QED
    BY <1>1, <1>3, <1>4, HandlerStep

\* A step that leaves the delivery alone keeps everything of it.
LEMMA DeliveryUntouched ==
    ASSUME RInv, UNCHANGED delivery
    PROVE  /\ DeliveryOK(delivery') /\ HooksKept(delivery, delivery')
           /\ SameLedger(delivery, delivery') /\ delivery'.revision = delivery.revision
BY DEF RInv, HooksKept, SameLedger

\* An admission is of something.
LEMMA NoAdmissionIsEmpty == {} \notin AdmissionIds
BY DEF AdmissionIds, keysOf

\* An idle handler has nothing in hand.
LEMMA IdleIsOK ==
    ASSUME NEW now \in Nat, NEW gone, NEW held, NEW rev
    PROVE  HandlerOK(Idle, now, gone, held, rev)
<1>1. /\ DOMAIN Idle = HandlerFields /\ Idle.kind = "none" /\ Idle.pc = "idle"
      /\ Idle.message = {} /\ Idle.rules = {} /\ Idle.output = {} /\ Idle.read = NoRead
    BY DEF Idle, HandlerFields
<1>2. ReadOK(NoRead, now, gone, held)
    BY DEF ReadOK, NoRead, ToSet
<1>. QED
    BY <1>1, <1>2, NoAdmissionIsEmpty DEF HandlerOK, PartsAreKnown

\* A handler that only moves on has in hand what it had.
LEMMA MovedIsOK ==
    ASSUME NEW x, NEW now, NEW gone, NEW held, NEW rev, HandlerOK(x, now, gone, held, rev),
           x.pc # "answered", NEW pc, pc \notin {"turnReading", "persisting"},
           NEW next, next = [x EXCEPT !.pc = pc]
    PROVE  HandlerOK(next, now, gone, held, rev) /\ next.pc = pc
<1>1. /\ DOMAIN next = HandlerFields /\ next.kind = x.kind /\ next.pc = pc
      /\ next.message = x.message /\ next.rules = x.rules /\ next.output = x.output
      /\ next.read = x.read
    BY DEF HandlerOK, HandlerFields
<1>. QED
    BY <1>1 DEF HandlerOK

\* What a call of session.messages answers is up to date.
LEMMA ReadingIsOK ==
    ASSUME RInv, NEW ok
    PROVE  /\ ReadOK(readHistory(ok), invalidations, removing, ToSet(history))
           /\ readHistory(ok).asOf = invalidations
<1>1. /\ readHistory(ok).asOf = invalidations /\ readHistory(ok).revision = invalidations
      /\ readHistory(ok).messages = IF ok THEN history ELSE <<>>
    BY DEF readHistory, RInv, ReadsOK
<1>2. ToSet(readHistory(ok).messages) \subseteq ToSet(history)
    BY <1>1 DEF ToSet
<1>3. \A m \in ToSet(history) : PartsAreKnown(m.parts)
    BY DEF RInv, HistoryOK
<1>. QED
    BY <1>1, <1>2, <1>3 DEF ReadOK, RInv, ReadsOK

\* The part of the invariant that is about one handler.
LEMMA HandlerNow ==
    ASSUME RInv, NEW h \in Handler
    PROVE  /\ HandlerOK(handler[h], invalidations, removing, ToSet(history), delivery.revision)
           /\ DOMAIN handler[h] = HandlerFields
           /\ invalidations \in Nat
BY DEF RInv, HandlersOK, HandlerOK, ReadsOK

-----------------------------------------------------------------------------
(* The steps of a turn.                                                    *)
LEMMA ChatMessageStep ==
    ASSUME RInv, NEW h \in Handler, NEW prompt, NEW files, NEW ok,
           ChatMessage(h, prompt, files, ok)
    PROVE  RInv' /\ StepKeeps
<1> DEFINE message == UserMessages[counted.messages + 1]
           reading == ~ store.seeded
           read    == IF historyReads.inFlight # {}
                      THEN CHOOSE r \in historyReads.inFlight : TRUE
                      ELSE readHistory(ok)
           next    == [Idle EXCEPT !.kind = "chat", !.message = message,
                         !.prompt = prompt, !.files = files,
                         !.pc   = IF reading THEN "preparing" ELSE "matching",
                         !.read = IF reading THEN read ELSE NoRead]
<1>1. /\ handler[h].pc = "idle" /\ counted.messages < Len(UserMessages)
      /\ Goes(h, next)
      /\ historyReads' = IF reading THEN [historyReads EXCEPT !.inFlight = {read}] ELSE historyReads
      /\ counted' = [counted EXCEPT !.messages = @ + 1]
      /\ UNCHANGED <<history, removing, observations, delivery, queue, invalidations, overtaken>>
    BY DEF ChatMessage, Free, At
<1>2. message \notin AdmissionIds
  <2>1. counted.messages \in Nat
      BY DEF RInv, CountedOK
  <2>2. counted.messages + 1 \in DOMAIN UserMessages
      BY <1>1, <2>1, MessagesAssumption
  <2>3. message \in ToSet(UserMessages)
      BY <2>2 DEF ToSet
  <2>. QED
      BY <2>3, MessagesAssumption
<1>3. ReadOK(read, invalidations, removing, ToSet(history)) /\ read.asOf = invalidations
    BY ReadingIsOK DEF RInv, ReadsOK
<1> HIDE DEF message, read
<1>4. ReadsOK'
  <2>1. /\ DOMAIN historyReads' = {"revision", "prefetch", "inFlight"}
        /\ historyReads'.revision = historyReads.revision
        /\ historyReads'.prefetch = historyReads.prefetch
        /\ historyReads'.inFlight \in {historyReads.inFlight, {read}}
      BY <1>1 DEF RInv, ReadsOK
  <2>2. AtMostOne(historyReads'.inFlight)
      BY <2>1 DEF RInv, ReadsOK, AtMostOne
  <2>3. \A r \in historyReads'.prefetch \union historyReads'.inFlight :
           ReadOK(r, invalidations, removing, ToSet(history)) /\ r.asOf = invalidations
      BY <1>3, <2>1 DEF RInv, ReadsOK
  <2>4. ToSet(history') = ToSet(history)
      BY <1>1 DEF ToSet
  <2>. QED
      BY <1>1, <2>1, <2>2, <2>3, <2>4 DEF RInv, ReadsOK
<1>5. /\ DOMAIN next = HandlerFields /\ next.kind = "chat" /\ next.message = message
      /\ next.pc \in {"preparing", "matching"} /\ next.read \in {read, NoRead}
      /\ next.rules = {} /\ next.output = {}
    BY DEF Idle, HandlerFields
<1>6. HandlerOK(next, invalidations, removing, ToSet(history), delivery.revision)
  <2>1. HandlerOK(Idle, invalidations, removing, ToSet(history), delivery.revision)
      BY IdleIsOK, HandlerNow
  <2>2. ReadOK(NoRead, invalidations, removing, ToSet(history))
      BY <2>1 DEF HandlerOK, Idle
  <2>. QED
      BY <1>2, <1>3, <1>5, <2>2 DEF HandlerOK, PartsAreKnown
<1> HIDE DEF next
<1>7. QueueOK'
    BY <1>1, <1>5, QueueStays DEF RInv, Queued, Running
<1>8. CountedOK'
    BY <1>1 DEF RInv, CountedOK
<1>9. InFlight' = InFlight
    BY <1>1, <1>5, InFlightSame DEF RInv
<1>. QED
    BY <1>1, <1>4, <1>6, <1>7, <1>8, <1>9, QuietStep, DeliveryUntouched

\* prepareDurableTurn keeps the invariant.
LEMMA PrepareStep ==
    ASSUME RInv, NEW h \in Handler, prepareDurableTurn(h)
    PROVE  RInv' /\ StepKeeps
<1> DEFINE read == handler[h].read
           used == read.revision = historyReads.revision /\ ~ store.seeded
           next == [handler[h] EXCEPT !.pc = "matching"]
<1>1. /\ handler[h].pc = "preparing"
      /\ historyReads' = [historyReads EXCEPT !.inFlight = @ \ {read},
                             !.prefetch = IF used THEN {read} ELSE @]
      /\ Goes(h, next)
      /\ UNCHANGED <<history, removing, observations, delivery, queue, counted,
                     invalidations, overtaken>>
    BY DEF prepareDurableTurn, At, Moves
<1>2. /\ HandlerOK(next, invalidations, removing, ToSet(history), delivery.revision)
      /\ next.pc = "matching"
    BY <1>1, HandlerNow, MovedIsOK
<1>3. /\ ReadOK(read, invalidations, removing, ToSet(history))
      /\ used => read.asOf = invalidations
    BY HandlerNow DEF HandlerOK, ReadOK, RInv, ReadsOK
<1> HIDE DEF next, used
<1>4. ReadsOK'
  <2>1. /\ DOMAIN historyReads' = {"revision", "prefetch", "inFlight"}
        /\ historyReads'.revision = historyReads.revision
        /\ historyReads'.prefetch = IF used THEN {read} ELSE historyReads.prefetch
        /\ historyReads'.inFlight = historyReads.inFlight \ {read}
      BY <1>1 DEF RInv, ReadsOK
  <2>2. AtMostOne(historyReads'.inFlight) /\ AtMostOne(historyReads'.prefetch)
      BY <2>1 DEF RInv, ReadsOK, AtMostOne
  <2>3. \A r \in historyReads'.prefetch \union historyReads'.inFlight :
           ReadOK(r, invalidations, removing, ToSet(history)) /\ r.asOf = invalidations
      BY <1>3, <2>1 DEF RInv, ReadsOK
  <2>4. ToSet(history') = ToSet(history)
      BY <1>1 DEF ToSet
  <2>. QED
      BY <1>1, <2>1, <2>2, <2>3, <2>4 DEF RInv, ReadsOK
<1>5. QueueOK'
    BY <1>1, <1>2, QueueStays DEF RInv, Queued, Running
<1>6. CountedOK'
    BY <1>1 DEF RInv, CountedOK
<1>7. InFlight' = InFlight
    BY <1>1, <1>2, InFlightSame DEF RInv
<1>. QED
    BY <1>1, <1>2, <1>4, <1>5, <1>6, <1>7, QuietStep, DeliveryUntouched

\* A handler that joins the queue.
LEMMA EnqueueStep ==
    ASSUME RInv, NEW h \in Handler, NEW next, Enqueues(h, next),
           handler[h].pc = "matching",
           HandlerOK([next EXCEPT !.pc = "queued"], invalidations, removing, ToSet(history),
                     delivery.revision),
           UNCHANGED <<history, removing, historyReads, delivery, counted, invalidations,
                       overtaken>>
    PROVE  RInv' /\ StepKeeps
<1> DEFINE x == [next EXCEPT !.pc = "queued"]
<1>1. Goes(h, x) /\ queue' = Append(queue, h)
    BY DEF Enqueues
<1>2. x.pc = "queued"
  <2>1. DOMAIN x = HandlerFields
      BY DEF HandlerOK
  <2>. QED
      BY <2>1 DEF HandlerFields
<1>3. HandlerOK(x, invalidations, removing, ToSet(history), delivery.revision)
    OBVIOUS
<1> HIDE DEF x
<1>4. ReadsOK'
  <2>1. ToSet(history) \subseteq ToSet(history')
      BY DEF ToSet
  <2>. QED
      BY <2>1, ReadsStay
<1>5. QueueOK'
    BY <1>1, <1>2, QueueJoined DEF RInv, Queued, Running
<1>6. CountedOK'
    BY DEF RInv, CountedOK
<1>7. InFlight' = InFlight
    BY <1>1, <1>2, InFlightSame DEF RInv
<1>. QED
    BY <1>1, <1>3, <1>4, <1>5, <1>6, <1>7, QuietStep, DeliveryUntouched

\* What is matched are rules of the session.
LEMMA MatchesAreRules ==
    ASSUME NEW rules, rules \subseteq Snapshots, NEW context, NEW lifetime
    PROVE  matchesWithLifetime(rules, context, lifetime) \subseteq Snapshots
BY DEF matchesWithLifetime, matchRuleSnapshots

\* Rules that matched may be taken in hand.
LEMMA MatchedIsOK ==
    ASSUME NEW x, NEW now, NEW gone, NEW held, NEW rev, HandlerOK(x, now, gone, held, rev),
           x.pc # "answered", NEW rules, rules \subseteq Snapshots,
           NEW next, next = [[x EXCEPT !.rules = rules] EXCEPT !.pc = "queued"]
    PROVE  HandlerOK(next, now, gone, held, rev)
<1>1. /\ DOMAIN next = HandlerFields /\ next.kind = x.kind /\ next.pc = "queued"
      /\ next.message = x.message /\ next.rules = rules /\ next.output = x.output
      /\ next.read = x.read
    BY DEF HandlerOK, HandlerFields
<1>. QED
    BY <1>1 DEF HandlerOK

\* Matching the rules of a turn keeps it.
LEMMA MatchTurnStep ==
    ASSUME RInv, NEW h \in Handler, NEW tools, MatchTurn(h, tools)
    PROVE  RInv' /\ StepKeeps
<1> DEFINE prompt  == handler[h].prompt
           matched == IF prompt = <<>> THEN {}
                      ELSE matchesWithLifetime(Snapshots, Context(prompt, tools), "durable")
           next    == [handler[h] EXCEPT !.rules = matched]
<1>1. /\ handler[h].pc = "matching" /\ Enqueues(h, next)
      /\ UNCHANGED <<history, removing, store, observations, historyReads,
                     delivery, counted, invalidations, overtaken>>
    BY DEF MatchTurn, At
<1>2. matched \subseteq Snapshots
    BY MatchesAreRules
<1> HIDE DEF matched
<1>3. HandlerOK([next EXCEPT !.pc = "queued"], invalidations, removing, ToSet(history),
                delivery.revision)
  <2>1. HandlerOK(handler[h], invalidations, removing, ToSet(history), delivery.revision)
      BY HandlerNow
  <2> DEFINE x == [next EXCEPT !.pc = "queued"]
  <2>2. x = [[handler[h] EXCEPT !.rules = matched] EXCEPT !.pc = "queued"]
      OBVIOUS
  <2> HIDE DEF x
  <2>3. HandlerOK(x, invalidations, removing, ToSet(history), delivery.revision)
      BY <1>1, <1>2, <2>1, <2>2, MatchedIsOK
  <2>. QED
      BY <2>3 DEF x
<1> HIDE DEF next
<1>. QED
    BY <1>1, <1>3, EnqueueStep

\* The end of a turn on the ledger "d": what it sends is what the ledger learns.
Answers(h, d, next, rules) ==
    /\ Goes(h, next) /\ next.pc = "answered"
    /\ HandlerOK(next, invalidations, removing, ToSet(history), d.revision)
    /\ InFlight' = InFlight \union next.output
    /\ rules \subseteq Snapshots
    /\ \A r \in rules : ~ hasDeliveryKey(d.ruleKeys, r)
    /\ delivery'.ruleKeys = d.ruleKeys \union keysOf(rules)
    /\ AtMostOne(next.output)
    /\ \A p \in next.output : p.kind = "durable" /\ p.rules = keysOf(rules)
    /\ delivery'.ruleKeys \subseteq d.ruleKeys \union decodeRawHistory(next.output).ruleKeys
    /\ delivery'.hookKeys \subseteq d.hookKeys \union decodeRawHistory(next.output).hookKeys

\* What accepting a turn makes of the delivery, the queue and the handler.
LEMMA Accepting ==
    ASSUME RInv, NEW h \in Handler, handler[h].kind = "chat",
           handler[h].pc \in {"queued", "turnReading"}, queue # <<>>, queue[1] = h,
           NEW d, DeliveryOK(d), Accepts(h, d)
    PROVE  /\ DeliveryOK(delivery') /\ HooksKept(d, delivery')
           /\ delivery'.revision = d.revision
           /\ delivery'.seeded = d.seeded /\ delivery'.needsRescan = d.needsRescan
           /\ QueueOK'
           /\ \E next, rules : Answers(h, d, next, rules)
<1> DEFINE routed == routePendingHooks(d)
           matched == handler[h].rules
           out == turnPart(routed, matched, handler[h].message)
           next == [handler[h] EXCEPT !.pc = "answered", !.output = out]
           rules == newTurnRules(routed, matched)
<1>1. delivery' = afterTurn(routed, matched) /\ Goes(h, next) /\ Ends
    BY DEF Accepts
<1>2. /\ DeliveryOK(routed) /\ SameLedger(d, routed) /\ routed.revision = d.revision
      /\ QueuesOf(routed) = QueuesOf(d)
    BY Routing
<1>3. matched \subseteq Snapshots
    BY HandlerNow DEF HandlerOK
<1>4. rules \subseteq Snapshots /\ \A r \in rules : ~ hasDeliveryKey(d.ruleKeys, r)
    BY <1>2, <1>3 DEF newTurnRules, SameLedger
<1> HIDE DEF routed
<1>5. /\ DeliveryOK(delivery') /\ HooksKept(routed, delivery')
      /\ delivery'.ruleKeys = routed.ruleKeys \union keysOf(rules)
      /\ delivery'.hookKeys = routed.hookKeys \union keysOf(newTurnHooks(routed))
      /\ delivery'.seeded = routed.seeded /\ delivery'.needsRescan = routed.needsRescan
      /\ delivery'.revision = routed.revision
    BY <1>1, <1>2, <1>3, TurnTaken
<1>6. /\ PartsAreKnown(out)
      /\ \A p \in out : p.kind = "durable" /\ p.rules = keysOf(rules)
      /\ AtMostOne(out)
      /\ keysOf(rules) \subseteq decodeRawHistory(out).ruleKeys
      /\ keysOf(newTurnHooks(routed)) \subseteq decodeRawHistory(out).hookKeys
    BY <1>2, <1>3, TurnSent
<1> HIDE DEF out, rules
<1>7. /\ DOMAIN next = HandlerFields /\ next.kind = "chat" /\ next.pc = "answered"
      /\ next.message = handler[h].message /\ next.rules = matched /\ next.output = out
      /\ next.read = handler[h].read
    BY HandlerNow DEF HandlerFields
<1>8. HandlerOK(next, invalidations, removing, ToSet(history), d.revision)
    BY <1>3, <1>6, <1>7, HandlerNow DEF HandlerOK
<1> HIDE DEF next
<1>9. QueueOK'
    BY <1>1, <1>7, QueueLeft DEF RInv, Queued, Running
<1>10. InFlight' = InFlight \union next.output
    BY <1>1, <1>7, InFlightGrows DEF RInv
<1>11. HooksKept(d, delivery')
    BY <1>2, <1>5 DEF HooksKept
<1>12. /\ delivery'.ruleKeys \subseteq d.ruleKeys \union decodeRawHistory(next.output).ruleKeys
       /\ delivery'.hookKeys \subseteq d.hookKeys \union decodeRawHistory(next.output).hookKeys
       /\ delivery'.ruleKeys = d.ruleKeys \union keysOf(rules)
    BY <1>2, <1>5, <1>6, <1>7 DEF SameLedger
<1>13. /\ delivery'.revision = d.revision
       /\ delivery'.seeded = d.seeded /\ delivery'.needsRescan = d.needsRescan
    BY <1>2, <1>5 DEF SameLedger
<1>14. Answers(h, d, next, rules)
    BY <1>1, <1>4, <1>6, <1>7, <1>8, <1>10, <1>12 DEF Answers
<1>. QED
    BY <1>5, <1>9, <1>11, <1>13, <1>14

\* A turn that is answered without anything.
LEMMA DeferStep ==
    ASSUME RInv, NEW h \in Handler, handler[h].kind = "chat",
           handler[h].pc \in {"queued", "turnReading"}, queue # <<>>, queue[1] = h,
           NEW d, Defers(h, d), DeliveryOK(d), HooksKept(delivery, d),
           d.revision = delivery.revision,
           Backed', CountedOK',
           UNCHANGED <<history, removing, historyReads, invalidations>>
    PROVE  RInv' /\ StepKeeps
<1> DEFINE next == [handler[h] EXCEPT !.pc = "answered"]
<1>1. delivery' = d /\ Goes(h, next) /\ Ends
    BY DEF Defers, Moves
<1>2. /\ HandlerOK(next, invalidations, removing, ToSet(history), delivery.revision)
      /\ next.pc = "answered"
    BY HandlerNow, MovedIsOK
<1> HIDE DEF next
<1>3. QueueOK'
    BY <1>1, <1>2, QueueLeft DEF RInv, Queued, Running
<1>4. ToSet(history') = ToSet(history) /\ HistoryOK'
    BY DEF ToSet, RInv, HistoryOK
<1>5. ReadsOK'
    BY <1>4, ReadsStay
<1>6. delivery.revision <= delivery'.revision
    BY <1>1 DEF RInv, DeliveryOK
<1>. QED
    BY <1>1, <1>2, <1>3, <1>4, <1>5, <1>6, HandlerStep

\* An effect that runs is the first of the queue, ...
LEMMA TakenFromTheQueue ==
    ASSUME RInv, NEW h \in Handler, NEW kind, Runs(h, kind)
    PROVE  /\ queue # <<>> /\ queue[1] = h /\ handler[h].pc = "queued"
           /\ handler[h].kind = kind
BY DEF Runs, At, RInv, QueueOK

\* ... and stays it while it is under way.
LEMMA UnderWayIsFirst ==
    ASSUME RInv, NEW h \in Handler, handler[h].pc \in Running
    PROVE  queue # <<>> /\ queue[1] = h
BY DEF RInv, QueueOK

\* An operation that begins with a read takes the one that was kept, or reads.
TakenRead(ok) == IF historyReads.prefetch # {} THEN CHOOSE r \in historyReads.prefetch : TRUE
                 ELSE readHistory(ok)

\* A read that is taken is sound, ...
LEMMA TakenReadIsOK ==
    ASSUME RInv, NEW ok
    PROVE  /\ ReadOK(TakenRead(ok), invalidations, removing, ToSet(history))
           /\ TakenRead(ok).asOf = invalidations
BY ReadingIsOK DEF TakenRead, RInv, ReadsOK

\* ... and the others stay so.
LEMMA ReadsTaken ==
    ASSUME RInv, historyReads' = [historyReads EXCEPT !.prefetch = {}],
           UNCHANGED <<history, removing, invalidations>>
    PROVE  ReadsOK'
<1>1. /\ DOMAIN historyReads' = {"revision", "prefetch", "inFlight"}
      /\ historyReads'.revision = historyReads.revision
      /\ historyReads'.prefetch = {} /\ historyReads'.inFlight = historyReads.inFlight
    BY DEF RInv, ReadsOK
<1>2. ToSet(history') = ToSet(history)
    BY DEF ToSet
<1>. QED
    BY <1>1, <1>2 DEF RInv, ReadsOK, AtMostOne

\* The start of the effect of a turn keeps the invariant.
LEMMA TurnStartStep ==
    ASSUME RInv, NEW h \in Handler, NEW ok, TurnStart(h, ok)
    PROVE  RInv' /\ StepKeeps
<1>1. /\ queue # <<>> /\ queue[1] = h /\ handler[h].pc = "queued" /\ handler[h].kind = "chat"
      /\ UNCHANGED <<history, removing, store, observations, counted, invalidations, overtaken>>
    BY TakenFromTheQueue DEF TurnStart
<1>2. CountedOK'
    BY <1>1 DEF RInv, CountedOK
<1>3. ToSet(history') = ToSet(history) /\ HistoryOK'
    BY <1>1 DEF ToSet, RInv, HistoryOK
<1>4. CASE Defers(h, delivery) /\ UNCHANGED historyReads
  <2>1. UNCHANGED delivery
      BY <1>4 DEF Defers
  <2>2. InFlight' = InFlight \union handler[h].output
    <3> DEFINE next == [handler[h] EXCEPT !.pc = "answered"]
    <3>1. Goes(h, next) /\ next.pc = "answered" /\ next.output = handler[h].output
        BY <1>4, HandlerNow DEF Defers, Moves, HandlerFields
    <3> HIDE DEF next
    <3>. QED
        BY <1>1, <3>1, InFlightGrows DEF RInv
  <2>3. Backed'
    <3>1. Given \subseteq Given'
        BY <1>1, <2>2 DEF Given, AllParts
    <3>. QED
        BY <1>1, <2>1, <3>1, BackedStays, DeliveryUntouched
  <2>4. DeliveryOK(delivery) /\ HooksKept(delivery, delivery)
      BY DEF RInv, HooksKept
  <2>. QED
      BY <1>1, <1>2, <1>4, <2>3, <2>4, DeferStep
<1>5. CASE ~ delivery.needsRescan /\ delivery.seeded /\ Accepts(h, delivery) /\ UNCHANGED historyReads
  <2>1. DeliveryOK(delivery)
      BY DEF RInv
  <2>2. /\ DeliveryOK(delivery') /\ HooksKept(delivery, delivery')
        /\ delivery'.revision = delivery.revision
        /\ delivery'.seeded = delivery.seeded /\ delivery'.needsRescan = delivery.needsRescan
        /\ QueueOK'
      BY <1>1, <1>5, <2>1, Accepting
  <2>3. PICK next : /\ Goes(h, next) /\ next.pc = "answered"
                    /\ HandlerOK(next, invalidations, removing, ToSet(history), delivery.revision)
                    /\ InFlight' = InFlight \union next.output
                    /\ delivery'.ruleKeys \subseteq delivery.ruleKeys \union decodeRawHistory(next.output).ruleKeys
                    /\ delivery'.hookKeys \subseteq delivery.hookKeys \union decodeRawHistory(next.output).hookKeys
      BY <1>1, <1>5, <2>1, Accepting DEF Answers
  <2>4. Given \union next.output \subseteq Given'
      BY <1>1, <2>3 DEF Given, AllParts
  <2>5. Backed'
    <3>1. SUFFICES ASSUME LedgerInUse', ~ removing', ~ overtaken'
                   PROVE  /\ delivery'.ruleKeys \subseteq decodeRawHistory(Given').ruleKeys
                          /\ delivery'.hookKeys \subseteq decodeRawHistory(Given').hookKeys
        BY DEF Backed
    <3>2. /\ delivery.ruleKeys \subseteq decodeRawHistory(Given).ruleKeys
          /\ delivery.hookKeys \subseteq decodeRawHistory(Given).hookKeys
        BY <1>1, <2>2, <3>1 DEF RInv, Backed, LedgerInUse
    <3>3. Given \subseteq Given' /\ next.output \subseteq Given'
        BY <2>4
    <3>4. /\ decodeRawHistory(Given).ruleKeys \subseteq decodeRawHistory(Given').ruleKeys
          /\ decodeRawHistory(Given).hookKeys \subseteq decodeRawHistory(Given').hookKeys
          /\ decodeRawHistory(next.output).ruleKeys \subseteq decodeRawHistory(Given').ruleKeys
          /\ decodeRawHistory(next.output).hookKeys \subseteq decodeRawHistory(Given').hookKeys
        BY <3>3, DecodeGrows
    <3>. QED
        BY <2>3, <3>2, <3>4
  <2>6. ReadsOK'
      BY <1>1, <1>3, <1>5, ReadsStay
  <2>7. delivery.revision <= delivery'.revision
      BY <2>1, <2>2 DEF DeliveryOK
  <2>. QED
      BY <1>1, <1>2, <1>3, <2>2, <2>3, <2>5, <2>6, <2>7, HandlerStep
<1> DEFINE x == [handler[h] EXCEPT !.pc = "turnReading", !.ledger = delivery.revision,
                                   !.read = TakenRead(ok)]
<1>6. CASE /\ Goes(h, x) /\ historyReads' = [historyReads EXCEPT !.prefetch = {}]
           /\ UNCHANGED <<delivery, queue>>
  <2>1. /\ DOMAIN x = HandlerFields /\ x.kind = "chat" /\ x.pc = "turnReading"
        /\ x.message = handler[h].message /\ x.rules = handler[h].rules
        /\ x.output = handler[h].output /\ x.ledger = delivery.revision
        /\ x.read = TakenRead(ok)
      BY <1>1, HandlerNow DEF HandlerFields
  <2> HIDE DEF x
  <2>2. delivery.revision \in Nat
      BY DEF RInv, DeliveryOK
  <2>3. HandlerOK(x, invalidations, removing, ToSet(history), delivery.revision)
      BY <1>1, <2>1, <2>2, HandlerNow, TakenReadIsOK DEF HandlerOK
  <2>4. QueueOK'
      BY <1>1, <1>6, <2>1, QueueGoesOn DEF RInv, Running
  <2>5. InFlight' = InFlight
      BY <1>1, <1>6, <2>1, InFlightSame DEF RInv
  <2>6. ReadsOK'
      BY <1>1, <1>6, ReadsTaken
  <2>. QED
      BY <1>1, <1>2, <1>6, <2>3, <2>4, <2>5, <2>6, QuietStep, DeliveryUntouched
<1>. QED
    BY <1>4, <1>5, <1>6 DEF TurnStart, TakenRead

\* What a read that is up to date says, the history still holds.
LEMMA ReadIsBacked ==
    ASSUME NEW r, ReadOK(r, invalidations, removing, ToSet(history)),
           ~ removing, r.asOf = invalidations
    PROVE  AllParts(r.messages) \subseteq AllParts(history)
BY DEF ReadOK, AllParts

\* The parts of a read are the plugin's.
LEMMA ReadIsKnown ==
    ASSUME NEW r, NEW now, NEW gone, NEW held, ReadOK(r, now, gone, held)
    PROVE  PartsAreKnown(AllParts(r.messages))
BY DEF ReadOK, AllParts, PartsAreKnown

\* A turn whose read comes back keeps the invariant.
LEMMA TurnReturnsStep ==
    ASSUME RInv, NEW h \in Handler, TurnReturns(h)
    PROVE  RInv' /\ StepKeeps
<1> DEFINE read == handler[h].read
           d == replaceLedger(delivery, AllParts(read.messages))
           f == [delivery EXCEPT !.needsRescan = TRUE]
<1>1. /\ handler[h].pc = "turnReading"
      /\ UNCHANGED <<history, removing, store, observations, historyReads, invalidations>>
    BY DEF TurnReturns, At
<1>2. queue # <<>> /\ queue[1] = h
    BY <1>1, UnderWayIsFirst DEF Running
<1>3. /\ handler[h].kind = "chat" /\ handler[h].ledger \in Nat
      /\ handler[h].ledger = delivery.revision => read.asOf = invalidations
      /\ ReadOK(read, invalidations, removing, ToSet(history))
    BY <1>1, HandlerNow DEF HandlerOK
<1>4. ToSet(history') = ToSet(history) /\ HistoryOK'
    BY <1>1 DEF ToSet, RInv, HistoryOK
<1>5. ReadsOK'
    BY <1>1, <1>4, ReadsStay
<1>6. DeliveryOK(delivery) /\ HooksKept(delivery, delivery)
    BY DEF RInv, HooksKept
<1>7. CASE /\ Defers(h, f) /\ UNCHANGED overtaken
           /\ counted' = IF delivery.seeded THEN [counted EXCEPT !.rescans = @ + 1] ELSE counted
  <2>1. delivery' = f
      BY <1>7 DEF Defers
  <2>2. /\ DeliveryOK(f) /\ HooksKept(delivery, f) /\ f.needsRescan
        /\ f.revision = delivery.revision
      BY <1>6, Rescanned
  <2>3. Backed'
      BY <2>1, <2>2 DEF Backed, LedgerInUse
  <2>4. CountedOK'
      BY <1>1, <1>7 DEF RInv, CountedOK
  <2> HIDE DEF f
  <2>. QED
      BY <1>1, <1>2, <1>3, <1>7, <2>2, <2>3, <2>4, DeferStep
<1>8. CASE Defers(h, delivery) /\ UNCHANGED <<counted, overtaken>>
  <2>1. UNCHANGED delivery
      BY <1>8 DEF Defers
  <2>2. InFlight' = InFlight \union handler[h].output
    <3> DEFINE next == [handler[h] EXCEPT !.pc = "answered"]
    <3>1. Goes(h, next) /\ next.pc = "answered" /\ next.output = handler[h].output
        BY <1>8, HandlerNow DEF Defers, Moves, HandlerFields
    <3> HIDE DEF next
    <3>. QED
        BY <1>1, <3>1, InFlightGrows DEF RInv
  <2>3. Given \subseteq Given'
      BY <1>1, <2>2 DEF Given, AllParts
  <2>4. Backed'
      BY <1>1, <1>8, <2>1, <2>3, BackedStays, DeliveryUntouched
  <2>5. CountedOK'
      BY <1>1, <1>8 DEF RInv, CountedOK
  <2>. QED
      BY <1>1, <1>2, <1>3, <1>6, <1>8, <2>4, <2>5, DeferStep
<1>9. CASE /\ ~ OvertakenRead(h) /\ Accepts(h, d)
           /\ overtaken' = (read.asOf # invalidations)
           /\ UNCHANGED counted
  <2>1. PartsAreKnown(AllParts(read.messages))
      BY <1>3, ReadIsKnown
  <2>2. /\ DeliveryOK(d) /\ HooksKept(delivery, d)
        /\ d.ruleKeys = decodeRawHistory(AllParts(read.messages)).ruleKeys
        /\ d.hookKeys = decodeRawHistory(AllParts(read.messages)).hookKeys
        /\ d.revision = delivery.revision + 1
        /\ QueuesOf(d) = QueuesOf(delivery)
      BY <1>6, <2>1, Replacing
  <2> HIDE DEF d
  <2>3. /\ DeliveryOK(delivery') /\ HooksKept(d, delivery')
        /\ delivery'.revision = d.revision
        /\ QueueOK'
      BY <1>1, <1>2, <1>3, <1>9, <2>2, Accepting
  <2>4. PICK next : /\ Goes(h, next) /\ next.pc = "answered"
                    /\ HandlerOK(next, invalidations, removing, ToSet(history), d.revision)
                    /\ InFlight' = InFlight \union next.output
                    /\ delivery'.ruleKeys \subseteq d.ruleKeys \union decodeRawHistory(next.output).ruleKeys
                    /\ delivery'.hookKeys \subseteq d.hookKeys \union decodeRawHistory(next.output).hookKeys
      BY <1>1, <1>2, <1>3, <1>9, <2>2, Accepting DEF Answers
  <2>5. Given \union next.output \subseteq Given'
      BY <1>1, <2>4 DEF Given, AllParts
  <2>6. read.asOf = invalidations /\ ~ overtaken'
      BY <1>3, <1>9 DEF OvertakenRead
  <2>7. Backed'
    <3>1. SUFFICES ASSUME LedgerInUse', ~ removing', ~ overtaken'
                   PROVE  /\ delivery'.ruleKeys \subseteq decodeRawHistory(Given').ruleKeys
                          /\ delivery'.hookKeys \subseteq decodeRawHistory(Given').hookKeys
        BY DEF Backed
    <3>2. AllParts(read.messages) \subseteq AllParts(history)
        BY <1>1, <1>3, <2>6, <3>1, ReadIsBacked
    <3>3. AllParts(read.messages) \subseteq Given' /\ next.output \subseteq Given'
        BY <2>5, <3>2 DEF Given
    <3>4. /\ d.ruleKeys \subseteq decodeRawHistory(Given').ruleKeys
          /\ d.hookKeys \subseteq decodeRawHistory(Given').hookKeys
          /\ decodeRawHistory(next.output).ruleKeys \subseteq decodeRawHistory(Given').ruleKeys
          /\ decodeRawHistory(next.output).hookKeys \subseteq decodeRawHistory(Given').hookKeys
        BY <2>2, <3>3, DecodeGrows
    <3>. QED
        BY <2>4, <3>4
  <2>8. HooksKept(delivery, delivery')
      BY <2>2, <2>3 DEF HooksKept
  <2>9. delivery.revision <= delivery'.revision
      BY <1>6, <2>2, <2>3 DEF DeliveryOK
  <2>10. CountedOK'
      BY <1>1, <1>9 DEF RInv, CountedOK
  <2>. QED
      BY <1>1, <1>4, <1>5, <2>3, <2>4, <2>6, <2>7, <2>8, <2>9, <2>10, HandlerStep
<1>. QED
    BY <1>7, <1>8, <1>9 DEF TurnReturns

\* So does the host that stores an answer.
LEMMA HostStoresMessageStep ==
    ASSUME RInv, NEW h \in Handler, HostStoresMessage(h)
    PROVE  RInv' /\ StepKeeps
<1> DEFINE m == [id |-> handler[h].message, parts |-> handler[h].output,
                 files |-> handler[h].files, prompt |-> handler[h].prompt]
<1>1. /\ handler[h].pc = "answered" /\ history' = Append(history, m) /\ Goes(h, Idle)
      /\ UNCHANGED <<removing, store, observations, historyReads, delivery, queue,
                     counted, invalidations, overtaken>>
    BY DEF HostStoresMessage, At, Leaves
<1>2. m.id = handler[h].message /\ m.parts = handler[h].output
    OBVIOUS
<1> HIDE DEF m
<1>3. history' \in Seq(ToSet(history')) /\ ToSet(history') = ToSet(history) \union {m}
    BY <1>1, AppendAddsOne DEF RInv, HistoryOK
<1>4. PartsAreKnown(m.parts) /\ m.id \notin AdmissionIds
    BY <1>2, HandlerNow DEF HandlerOK
<1>5. HistoryOK'
    BY <1>3, <1>4 DEF RInv, HistoryOK
<1>6. ReadsOK'
    BY <1>1, <1>3, ReadsStay
<1>7. QueueOK'
    BY <1>1, QueueStays DEF RInv, Queued, Running, Idle
<1>8. Given \subseteq Given'
  <2>1. InFlight \subseteq InFlight' \union handler[h].output
      BY <1>1, InFlightStored DEF RInv, Idle
  <2>2. AllParts(history') = AllParts(history) \union handler[h].output
      BY <1>2, <1>3 DEF AllParts
  <2>. QED
      BY <2>1, <2>2 DEF Given
<1>9. Backed'
    BY <1>1, <1>8, BackedStays, DeliveryUntouched
<1>10. CountedOK'
    BY <1>1 DEF RInv, CountedOK
<1>11. HandlerOK(Idle, invalidations, removing, ToSet(history'), delivery'.revision)
    BY IdleIsOK, HandlerNow
<1>12. /\ DeliveryOK(delivery') /\ HooksKept(delivery, delivery')
       /\ delivery.revision <= delivery'.revision
    BY <1>1, DeliveryUntouched DEF RInv, DeliveryOK
<1>. QED
    BY <1>1, <1>3, <1>5, <1>6, <1>7, <1>9, <1>10, <1>11, <1>12, HandlerStep

-----------------------------------------------------------------------------
(* The steps of tools.                                                     *)
LEMMA ToolAfterStep ==
    ASSUME RInv, NEW h \in Handler, NEW call, ToolAfter(h, call)
    PROVE  RInv' /\ StepKeeps
<1> DEFINE next == [Idle EXCEPT !.kind = "after", !.call = call,
                      !.pc = IF call.files = {} THEN "hooks" ELSE "matching"]
<1>1. /\ handler[h].pc = "idle" /\ Goes(h, next)
      /\ counted' = [counted EXCEPT !.calls = @ + 1]
      /\ UNCHANGED <<history, removing, historyReads, delivery, queue, invalidations, overtaken>>
    BY DEF ToolAfter, Free, At
<1>2. /\ DOMAIN next = HandlerFields /\ next.kind = "after" /\ next.message = {}
      /\ next.pc \in {"hooks", "matching"} /\ next.read = NoRead
      /\ next.rules = {} /\ next.output = {}
    BY DEF Idle, HandlerFields
<1> HIDE DEF next
<1>3. HandlerOK(next, invalidations, removing, ToSet(history), delivery.revision)
  <2>1. HandlerOK(Idle, invalidations, removing, ToSet(history), delivery.revision)
      BY IdleIsOK, HandlerNow
  <2>2. ReadOK(NoRead, invalidations, removing, ToSet(history))
      BY <2>1 DEF HandlerOK, Idle
  <2>. QED
      BY <1>2, <2>2, NoAdmissionIsEmpty DEF HandlerOK, PartsAreKnown
<1>4. QueueOK'
    BY <1>1, <1>2, QueueStays DEF RInv, Queued, Running
<1>5. CountedOK'
    BY <1>1 DEF RInv, CountedOK
<1>6. InFlight' = InFlight
    BY <1>1, <1>2, InFlightSame DEF RInv
<1>7. ReadsOK'
    BY <1>1, ReadsStay DEF ToSet
<1>. QED
    BY <1>1, <1>3, <1>4, <1>5, <1>6, <1>7, QuietStep, DeliveryUntouched

\* So does matching the rules of an observation.
LEMMA MatchObservationStep ==
    ASSUME RInv, NEW h \in Handler, NEW tools, MatchObservation(h, tools)
    PROVE  RInv' /\ StepKeeps
<1> DEFINE matched == matchesWithLifetime({r \in Snapshots : hasFileObservationFamily(r)},
                                          Context(store.prompt, tools), "durable")
           next    == [handler[h] EXCEPT !.rules = matched]
           moved   == [handler[h] EXCEPT !.pc = "hooks"]
<1>1. /\ handler[h].pc = "matching"
      /\ UNCHANGED <<history, removing, store, observations, historyReads,
                     delivery, counted, invalidations, overtaken>>
      /\ \/ Moves(h, "hooks") /\ UNCHANGED queue
         \/ Enqueues(h, next)
    BY DEF MatchObservation, At
<1>2. matched \subseteq Snapshots
    BY MatchesAreRules
<1> HIDE DEF matched
<1>3. CASE Enqueues(h, next)
  <2>1. HandlerOK([next EXCEPT !.pc = "queued"], invalidations, removing, ToSet(history),
                  delivery.revision)
    <3>1. HandlerOK(handler[h], invalidations, removing, ToSet(history), delivery.revision)
        BY HandlerNow
    <3> DEFINE x == [next EXCEPT !.pc = "queued"]
    <3>2. x = [[handler[h] EXCEPT !.rules = matched] EXCEPT !.pc = "queued"]
        OBVIOUS
    <3> HIDE DEF x
    <3>3. HandlerOK(x, invalidations, removing, ToSet(history), delivery.revision)
        BY <1>1, <1>2, <3>1, <3>2, MatchedIsOK
    <3>. QED
        BY <3>3 DEF x
  <2> HIDE DEF next
  <2>. QED
      BY <1>1, <1>3, <2>1, EnqueueStep
<1>4. CASE Moves(h, "hooks") /\ UNCHANGED queue
  <2>1. Goes(h, moved)
      BY <1>4 DEF Moves
  <2>2. /\ HandlerOK(moved, invalidations, removing, ToSet(history), delivery.revision)
        /\ moved.pc = "hooks"
      BY <1>1, HandlerNow, MovedIsOK
  <2> HIDE DEF moved
  <2>3. QueueOK'
      BY <1>1, <1>4, <2>1, <2>2, QueueStays DEF RInv, Queued, Running
  <2>4. CountedOK'
      BY <1>1 DEF RInv, CountedOK
  <2>5. InFlight' = InFlight
      BY <1>1, <2>1, <2>2, InFlightSame DEF RInv
  <2>6. ReadsOK'
      BY <1>1, ReadsStay DEF ToSet
  <2>. QED
      BY <1>1, <2>1, <2>2, <2>3, <2>4, <2>5, <2>6, QuietStep, DeliveryUntouched
<1>. QED
    BY <1>1, <1>3, <1>4

\* After its effect a handler goes on to its hooks or ends.
LEMMA AfterwardsIsOK ==
    ASSUME RInv, NEW h \in Handler, handler[h].pc # "answered"
    PROVE  /\ HandlerOK(Afterwards(h), invalidations, removing, ToSet(history), delivery.revision)
           /\ Afterwards(h).pc \in {"hooks", "idle"}
<1> DEFINE moved == [handler[h] EXCEPT !.pc = "hooks"]
<1>1. /\ HandlerOK(moved, invalidations, removing, ToSet(history), delivery.revision)
      /\ moved.pc = "hooks"
    BY HandlerNow, MovedIsOK
<1>2. /\ HandlerOK(Idle, invalidations, removing, ToSet(history), delivery.revision)
      /\ Idle.pc = "idle"
    BY IdleIsOK, HandlerNow DEF Idle
<1>. QED
    BY <1>1, <1>2 DEF Afterwards

\* The rules that wait are dropped or offered, on the ledger "d".
LEMMA Persisting ==
    ASSUME RInv, NEW h \in Handler, handler[h].pc \in {"queued", "admitReading"},
           queue # <<>>, queue[1] = h, NEW d, DeliveryOK(d), Persists(h, d)
    PROVE  /\ DeliveryOK(delivery') /\ SameLedger(d, delivery') /\ HooksKept(d, delivery')
           /\ delivery'.revision = d.revision /\ QueuesOf(delivery') = QueuesOf(d)
           /\ QueueOK'
           /\ InFlight' = InFlight
           /\ \E next :
                /\ Goes(h, next)
                /\ HandlerOK(next, invalidations, removing, ToSet(history), delivery.revision)
                /\ \/ next.pc \in {"hooks", "idle"}
                   \/ /\ next.pc = "persisting"
                      /\ \A r \in next.rules : ~ hasDeliveryKey(d.ruleKeys, r)
                /\ next.read \in {handler[h].read, NoRead}
                /\ next.kind \in {handler[h].kind, "none"}
<1>1. toPersist(d) \subseteq Snapshots /\ \A r \in toPersist(d) : ~ hasDeliveryKey(d.ruleKeys, r)
    BY DEF toPersist, DeliveryOK
<1>2. CASE /\ delivery' = [d EXCEPT !.pendingRules = {}]
           /\ Goes(h, Afterwards(h)) /\ Ends
  <2>1. /\ DeliveryOK(delivery') /\ SameLedger(d, delivery') /\ HooksKept(d, delivery')
        /\ delivery'.revision = d.revision /\ QueuesOf(delivery') = QueuesOf(d)
      BY <1>2, RulesDropped
  <2>2. /\ HandlerOK(Afterwards(h), invalidations, removing, ToSet(history), delivery.revision)
        /\ Afterwards(h).pc \in {"hooks", "idle"}
      BY AfterwardsIsOK
  <2>3. QueueOK'
      BY <1>2, <2>2, QueueLeft DEF RInv, Queued, Running
  <2>4. InFlight' = InFlight
      BY <1>2, <2>2, InFlightSame DEF RInv
  <2>5. /\ Afterwards(h).read \in {handler[h].read, NoRead}
        /\ Afterwards(h).kind \in {handler[h].kind, "none"}
      BY HandlerNow DEF Afterwards, Idle, HandlerFields
  <2>. QED
      BY <1>2, <2>1, <2>2, <2>3, <2>4, <2>5
<1> DEFINE x == [handler[h] EXCEPT !.pc = "persisting", !.rules = toPersist(d)]
<1>3. CASE toPersist(d) # {} /\ delivery' = d /\ Goes(h, x) /\ UNCHANGED queue
  <2>1. /\ DOMAIN x = HandlerFields /\ x.kind = handler[h].kind /\ x.pc = "persisting"
        /\ x.message = handler[h].message /\ x.rules = toPersist(d)
        /\ x.output = handler[h].output /\ x.read = handler[h].read
      BY HandlerNow DEF HandlerFields
  <2> HIDE DEF x
  <2>2. HandlerOK(x, invalidations, removing, ToSet(history), delivery.revision)
      BY <1>1, <1>3, <2>1, HandlerNow DEF HandlerOK
  <2>3. QueueOK'
      BY <1>3, <2>1, QueueGoesOn DEF RInv, Running
  <2>4. InFlight' = InFlight
      BY <1>3, <2>1, InFlightSame DEF RInv
  <2>5. SameLedger(d, delivery') /\ HooksKept(d, delivery') /\ DeliveryOK(delivery')
      BY <1>3 DEF SameLedger, HooksKept
  <2>. QED
      BY <1>1, <1>3, <2>1, <2>2, <2>3, <2>4, <2>5
<1>. QED
    BY <1>2, <1>3 DEF Persists

\* An effect that only asks the host to persist keeps the invariant.
LEMMA PersistsQuietly ==
    ASSUME RInv, NEW h \in Handler, handler[h].pc = "queued",
           queue # <<>>, queue[1] = h, NEW d, DeliveryOK(d), Persists(h, d),
           SameLedger(delivery, d), d.revision = delivery.revision,
           QueuesOf(d) = QueuesOf(delivery),
           UNCHANGED <<history, removing, historyReads, counted, invalidations, overtaken>>
    PROVE  RInv' /\ StepKeeps
<1>1. /\ DeliveryOK(delivery') /\ SameLedger(d, delivery') /\ HooksKept(d, delivery')
      /\ delivery'.revision = d.revision /\ QueueOK' /\ InFlight' = InFlight
    BY Persisting
<1>2. PICK next :
        /\ Goes(h, next)
        /\ HandlerOK(next, invalidations, removing, ToSet(history), delivery.revision)
    BY Persisting
<1>3. SameLedger(delivery, delivery') /\ HooksKept(delivery, delivery')
    BY <1>1 DEF SameLedger, HooksKept
<1>4. CountedOK'
    BY DEF RInv, CountedOK
<1>5. ReadsOK'
    BY ReadsStay DEF ToSet
<1>. QED
    BY <1>1, <1>2, <1>3, <1>4, <1>5, QuietStep

\* The start of an admission keeps it, ...
LEMMA AdmitStartStep ==
    ASSUME RInv, NEW h \in Handler, NEW ok, AdmitStart(h, ok)
    PROVE  RInv' /\ StepKeeps
<1> DEFINE d == queuePendingRules(delivery, handler[h].rules)
           x == [handler[h] EXCEPT !.pc = "admitReading", !.read = TakenRead(ok)]
<1>1. /\ queue # <<>> /\ queue[1] = h /\ handler[h].pc = "queued" /\ handler[h].kind = "after"
      /\ UNCHANGED <<history, removing, store, observations, counted, invalidations, overtaken>>
    BY TakenFromTheQueue DEF AdmitStart
<1>2. CASE Persists(h, d) /\ UNCHANGED historyReads
  <2>1. handler[h].rules \subseteq Snapshots /\ DeliveryOK(delivery)
      BY HandlerNow DEF HandlerOK, RInv
  <2>2. /\ DeliveryOK(d) /\ SameLedger(delivery, d)
        /\ d.revision = delivery.revision /\ QueuesOf(d) = QueuesOf(delivery)
      BY <2>1, RulesQueued
  <2> HIDE DEF d
  <2>. QED
      BY <1>1, <1>2, <2>2, PersistsQuietly
<1>3. CASE /\ Goes(h, x) /\ historyReads' = [historyReads EXCEPT !.prefetch = {}]
           /\ UNCHANGED <<delivery, queue>>
  <2>1. /\ DOMAIN x = HandlerFields /\ x.kind = "after" /\ x.pc = "admitReading"
        /\ x.message = handler[h].message /\ x.rules = handler[h].rules
        /\ x.output = handler[h].output /\ x.read = TakenRead(ok)
      BY <1>1, HandlerNow DEF HandlerFields
  <2> HIDE DEF x
  <2>2. HandlerOK(x, invalidations, removing, ToSet(history), delivery.revision)
      BY <1>1, <2>1, HandlerNow, TakenReadIsOK DEF HandlerOK
  <2>3. QueueOK'
      BY <1>1, <1>3, <2>1, QueueGoesOn DEF RInv, Running
  <2>4. InFlight' = InFlight
      BY <1>1, <1>3, <2>1, InFlightSame DEF RInv
  <2>5. ReadsOK'
      BY <1>1, <1>3, ReadsTaken
  <2>6. CountedOK'
      BY <1>1 DEF RInv, CountedOK
  <2>. QED
      BY <1>1, <1>3, <2>2, <2>3, <2>4, <2>5, <2>6, QuietStep, DeliveryUntouched
<1>. QED
    BY <1>2, <1>3 DEF AdmitStart, TakenRead

\* ... its return, with the ledger that it makes, ...
LEMMA AdmitReturnsStep ==
    ASSUME RInv, NEW h \in Handler, AdmitReturns(h)
    PROVE  RInv' /\ StepKeeps
<1> DEFINE read == handler[h].read
           replaced == replaceLedger(delivery, AllParts(read.messages))
           current == [replaced EXCEPT !.needsRescan = FALSE]
           d == queuePendingRules(current, handler[h].rules)
           e == queuePendingRules(delivery, handler[h].rules)
           x == [handler[h] EXCEPT !.pc = "hooks"]
<1>1. /\ handler[h].pc = "admitReading"
      /\ UNCHANGED <<history, removing, store, observations, historyReads, counted, invalidations>>
    BY DEF AdmitReturns, At
<1>2. queue # <<>> /\ queue[1] = h
    BY <1>1, UnderWayIsFirst DEF Running
<1>3. /\ ReadOK(read, invalidations, removing, ToSet(history))
      /\ handler[h].rules \subseteq Snapshots /\ DeliveryOK(delivery)
    BY HandlerNow DEF HandlerOK, RInv
<1>5. ToSet(history') = ToSet(history) /\ ReadsOK'
    BY <1>1, ReadsStay DEF ToSet
<1>6. CASE delivery' = e /\ Moves(h, "hooks") /\ Ends /\ UNCHANGED overtaken
  <2>1. /\ DeliveryOK(e) /\ SameLedger(delivery, e) /\ HooksKept(delivery, e)
        /\ e.revision = delivery.revision
      BY <1>3, RulesQueued
  <2>2. Goes(h, x)
      BY <1>6 DEF Moves
  <2>3. /\ HandlerOK(x, invalidations, removing, ToSet(history), delivery.revision)
        /\ x.pc = "hooks"
      BY <1>1, HandlerNow, MovedIsOK
  <2> HIDE DEF x, e
  <2>4. QueueOK'
      BY <1>2, <1>6, <2>2, <2>3, QueueLeft DEF RInv, Queued, Running
  <2>5. InFlight' = InFlight
      BY <1>1, <2>2, <2>3, InFlightSame DEF RInv
  <2>6. CountedOK'
      BY <1>1, <1>6 DEF RInv, CountedOK
  <2>. QED
      BY <1>1, <1>5, <1>6, <2>1, <2>2, <2>3, <2>4, <2>5, <2>6, QuietStep
<1>7. CASE Persists(h, d) /\ overtaken' = (read.asOf # invalidations)
  <2>1. PartsAreKnown(AllParts(read.messages))
      BY <1>3, ReadIsKnown
  <2>2. /\ DeliveryOK(replaced)
        /\ replaced.ruleKeys = decodeRawHistory(AllParts(read.messages)).ruleKeys
        /\ replaced.hookKeys = decodeRawHistory(AllParts(read.messages)).hookKeys
        /\ replaced.revision = delivery.revision + 1
        /\ QueuesOf(replaced) = QueuesOf(delivery)
      BY <1>3, <2>1, Replacing
  <2> HIDE DEF replaced
  <2>3. /\ DeliveryOK(current)
        /\ current.ruleKeys = replaced.ruleKeys /\ current.hookKeys = replaced.hookKeys
        /\ current.revision = replaced.revision
        /\ QueuesOf(current) = QueuesOf(replaced)
      BY <2>2, Rescanned
  <2> HIDE DEF current
  <2>4. /\ DeliveryOK(d) /\ SameLedger(current, d)
        /\ d.revision = current.revision /\ QueuesOf(d) = QueuesOf(current)
      BY <1>3, <2>3, RulesQueued
  <2> HIDE DEF d
  <2>5. /\ DeliveryOK(delivery') /\ SameLedger(d, delivery') /\ HooksKept(d, delivery')
        /\ delivery'.revision = d.revision /\ QueueOK' /\ InFlight' = InFlight
      BY <1>1, <1>2, <1>7, <2>4, Persisting
  <2>6. PICK next :
          /\ Goes(h, next)
          /\ HandlerOK(next, invalidations, removing, ToSet(history), delivery.revision)
          /\ next.pc \in {"hooks", "idle", "persisting"}
      BY <1>1, <1>2, <1>7, <2>4, Persisting
  <2>7. delivery'.revision = delivery.revision + 1 /\ delivery.revision \in Nat
      BY <1>3, <2>2, <2>3, <2>4, <2>5 DEF DeliveryOK
  <2>8. Backed'
    <3>1. SUFFICES ASSUME LedgerInUse', ~ removing', ~ overtaken'
                   PROVE  /\ delivery'.ruleKeys \subseteq decodeRawHistory(Given').ruleKeys
                          /\ delivery'.hookKeys \subseteq decodeRawHistory(Given').hookKeys
        BY DEF Backed
    <3>2. AllParts(read.messages) \subseteq AllParts(history)
        BY <1>1, <1>3, <1>7, <3>1, ReadIsBacked
    <3>3. AllParts(read.messages) \subseteq Given'
        BY <1>1, <3>2 DEF Given, AllParts
    <3>4. /\ replaced.ruleKeys \subseteq decodeRawHistory(Given').ruleKeys
          /\ replaced.hookKeys \subseteq decodeRawHistory(Given').hookKeys
        BY <2>2, <3>3, DecodeGrows
    <3>. QED
        BY <2>3, <2>4, <2>5, <3>4 DEF SameLedger
  <2>9. HooksKept(delivery, delivery')
      BY <2>2, <2>3, <2>4, <2>5 DEF HooksKept
  <2>10. CountedOK' /\ HistoryOK'
      BY <1>1, <1>7 DEF RInv, CountedOK, HistoryOK, ToSet
  <2>11. HandlerOK(next, invalidations, removing, ToSet(history'), delivery'.revision)
    <3>1. Later(invalidations, removing, ToSet(history), invalidations, removing, ToSet(history'))
        BY <1>5 DEF Later
    <3>. QED
        BY <2>6, <2>7, <3>1, HandlerNow, HandlerStays
  <2>12. delivery.revision <= delivery'.revision
      BY <2>7
  <2>. QED
      BY <1>1, <1>5, <2>5, <2>6, <2>8, <2>9, <2>10, <2>11, <2>12, HandlerStep DEF At
<1>. QED
    BY <1>6, <1>7 DEF AdmitReturns

\* A host that has stored an admission holds it; nothing else becomes of the history.
LEMMA AdmissionStored ==
    ASSUME RInv, NEW rules, rules \subseteq Snapshots, rules # {}, HostStoresAdmission(rules)
    PROVE  /\ HistoryOK'
           /\ ToSet(history) \subseteq ToSet(history')
           /\ buildRuleAdmissionPart(keysOf(rules)) \in AllParts(history')
           /\ AllParts(history') \subseteq
                AllParts(history) \union {buildRuleAdmissionPart(keysOf(rules))}
           /\ keysOf(rules) \subseteq decodeRawHistory(AllParts(history')).ruleKeys
<1> DEFINE part == buildRuleAdmissionPart(keysOf(rules))
           m == [id |-> part.owner, parts |-> {part}, files |-> {}, prompt |-> <<>>]
<1>1. history' = IF \E n \in ToSet(history) : n.id = part.owner THEN history ELSE Append(history, m)
    BY DEF HostStoresAdmission
<1>2. /\ part.owner = keysOf(rules) /\ part.rules = keysOf(rules) /\ part.hooks = {}
      /\ part.kind = "admission"
      /\ part = buildRuleAdmissionPart(part.owner)
    BY DEF buildRuleAdmissionPart
<1>3. part.owner \in AdmissionIds /\ keysOf(rules) \subseteq KnownKeys
    BY <1>2, IdentitiesAreKnown DEF AdmissionIds
<1>4. m.id = part.owner /\ m.parts = {part}
    OBVIOUS
<1> HIDE DEF part, m
<1>5. CASE \E n \in ToSet(history) : n.id = part.owner
  <2>1. PICK n \in ToSet(history) : n.id = part.owner
      BY <1>5
  <2>2. part \in n.parts
      BY <1>2, <1>3, <2>1 DEF RInv, HistoryOK
  <2>3. history' = history
      BY <1>1, <1>5
  <2>4. part \in AllParts(history')
      BY <2>1, <2>2, <2>3 DEF AllParts
  <2>5. HistoryOK' /\ ToSet(history') = ToSet(history) /\ AllParts(history') = AllParts(history)
      BY <2>3 DEF RInv, HistoryOK, ToSet, AllParts
  <2>. QED
      BY <1>2, <2>4, <2>5 DEF decodeRawHistory, part
<1>6. CASE ~ \E n \in ToSet(history) : n.id = part.owner
  <2>1. history' = Append(history, m)
      BY <1>1, <1>6
  <2>2. history' \in Seq(ToSet(history')) /\ ToSet(history') = ToSet(history) \union {m}
      BY <2>1, AppendAddsOne DEF RInv, HistoryOK
  <2>3. PartsAreKnown(m.parts) /\ (m.id \in AdmissionIds => buildRuleAdmissionPart(m.id) \in m.parts)
      BY <1>2, <1>3, <1>4 DEF PartsAreKnown
  <2>4. HistoryOK'
      BY <2>2, <2>3 DEF RInv, HistoryOK
  <2>5. AllParts(history') = AllParts(history) \union {part}
      BY <1>4, <2>2 DEF AllParts
  <2>. QED
      BY <1>2, <2>2, <2>4, <2>5 DEF decodeRawHistory, part
<1>. QED
    BY <1>5, <1>6

\* ... and the answer of the host to what is persisted, a lost one included.
LEMMA PersistReturnsStep ==
    ASSUME RInv, NEW h \in Handler, NEW answer \in {"stored", "refused", "lost"},
           PersistReturns(h, answer)
    PROVE  RInv' /\ StepKeeps
<1> DEFINE rules == handler[h].rules
           next == Afterwards(h)
<1>1. /\ handler[h].pc = "persisting" /\ Goes(h, next) /\ Ends
      /\ counted' = [counted EXCEPT !.lost = @ + (IF answer = "lost" THEN 1 ELSE 0)]
      /\ UNCHANGED <<removing, store, observations, historyReads, invalidations, overtaken>>
    BY DEF PersistReturns, At
<1>2. /\ queue # <<>> /\ queue[1] = h
      /\ rules \subseteq Snapshots /\ rules # {}
    BY <1>1, UnderWayIsFirst, HandlerNow DEF Running, HandlerOK
<1>3. /\ HandlerOK(next, invalidations, removing, ToSet(history), delivery.revision)
      /\ next.pc \in {"hooks", "idle"}
    BY <1>1, AfterwardsIsOK
<1>4. \/ UNCHANGED <<history, delivery>>
      \/ HostStoresAdmission(rules) /\ delivery' \in {delivery, afterPersist(delivery, rules)}
    BY DEF PersistReturns
<1> HIDE DEF next
<1>5. HistoryOK' /\ ToSet(history) \subseteq ToSet(history')
  <2>1. CASE UNCHANGED <<history, delivery>>
      BY <2>1 DEF RInv, HistoryOK, ToSet
  <2>2. CASE HostStoresAdmission(rules)
      BY <1>2, <2>2, AdmissionStored
  <2>. QED
      BY <1>4, <2>1, <2>2
<1>6. Given \subseteq Given'
  <2>1. InFlight' = InFlight
      BY <1>1, <1>3, InFlightSame DEF RInv
  <2>. QED
      BY <1>5, <2>1, PartsGrow DEF Given
<1>7. ASSUME UNCHANGED delivery PROVE Backed'
    BY <1>1, <1>6, <1>7, BackedStays, DeliveryUntouched
<1>8. ASSUME HostStoresAdmission(rules), delivery' = afterPersist(delivery, rules)
      PROVE  Backed'
  <2>1. /\ DeliveryOK(delivery') /\ HooksKept(delivery, delivery')
        /\ delivery'.ruleKeys = delivery.ruleKeys \union keysOf(rules)
        /\ delivery'.hookKeys = delivery.hookKeys
        /\ delivery'.seeded = delivery.seeded /\ delivery'.needsRescan = delivery.needsRescan
        /\ delivery'.revision = delivery.revision
      BY <1>2, <1>8, RulesPersisted DEF RInv
  <2>2. keysOf(rules) \subseteq decodeRawHistory(AllParts(history')).ruleKeys
      BY <1>2, <1>8, AdmissionStored
  <2>3. AllParts(history') \subseteq Given'
      BY DEF Given
  <2>4. keysOf(rules) \subseteq decodeRawHistory(Given').ruleKeys
      BY <2>2, <2>3, DecodeGrows
  <2>5. Backed'
    <3>1. SUFFICES ASSUME LedgerInUse', ~ removing', ~ overtaken'
                   PROVE  /\ delivery'.ruleKeys \subseteq decodeRawHistory(Given').ruleKeys
                          /\ delivery'.hookKeys \subseteq decodeRawHistory(Given').hookKeys
        BY DEF Backed
    <3>2. /\ delivery.ruleKeys \subseteq decodeRawHistory(Given).ruleKeys
          /\ delivery.hookKeys \subseteq decodeRawHistory(Given).hookKeys
        BY <1>1, <2>1, <3>1 DEF RInv, Backed, LedgerInUse
    <3>3. /\ decodeRawHistory(Given).ruleKeys \subseteq decodeRawHistory(Given').ruleKeys
          /\ decodeRawHistory(Given).hookKeys \subseteq decodeRawHistory(Given').hookKeys
        BY <1>6, DecodeGrows
    <3>. QED
        BY <2>1, <2>4, <3>2, <3>3
  <2>. QED
      BY <2>5
<1>9. DeliveryOK(delivery') /\ HooksKept(delivery, delivery') /\ delivery'.revision = delivery.revision
  <2>1. CASE UNCHANGED delivery
      BY <2>1, DeliveryUntouched
  <2>2. CASE delivery' = afterPersist(delivery, rules)
      BY <1>2, <2>2, RulesPersisted DEF RInv
  <2>. QED
      BY <1>4, <2>1, <2>2
<1>10. Backed'
    BY <1>4, <1>7, <1>8
<1>11. QueueOK'
    BY <1>1, <1>2, <1>3, QueueLeft DEF RInv, Queued, Running
<1>12. ReadsOK'
    BY <1>1, <1>5, ReadsStay
<1>13. CountedOK'
  <2>1. counted.lost \in Nat
      BY DEF RInv, CountedOK
  <2>2. /\ DOMAIN counted' = DOMAIN counted
        /\ \A f \in DOMAIN counted : counted'[f] = IF f = "lost"
             THEN counted.lost + (IF answer = "lost" THEN 1 ELSE 0) ELSE counted[f]
      BY <1>1
  <2>. QED
      BY <1>1, <2>1, <2>2 DEF RInv, CountedOK
<1>14. HandlerOK(next, invalidations, removing, ToSet(history'), delivery'.revision)
  <2>1. Later(invalidations, removing, ToSet(history), invalidations, removing, ToSet(history'))
      BY <1>5 DEF Later
  <2>2. delivery.revision \in Nat /\ delivery.revision = delivery'.revision
      BY <1>9 DEF RInv, DeliveryOK
  <2>3. next.pc # "turnReading"
      BY <1>3
  <2>. QED
      BY <1>3, <2>1, <2>2, <2>3, HandlerNow, HandlerStays
<1>15. delivery.revision <= delivery'.revision
    BY <1>9 DEF RInv, DeliveryOK
<1>. QED
    BY <1>1, <1>5, <1>9, <1>10, <1>11, <1>12, <1>13, <1>14, <1>15, HandlerStep DEF At

\* Hooks queued for a call leave the ledger alone.
LEMMA HooksOfACall ==
    ASSUME RInv, NEW type, NEW call, NEW tools, QueueHooks(type, call, tools)
    PROVE  /\ DeliveryOK(delivery') /\ SameLedger(delivery, delivery')
           /\ HooksKept(delivery, delivery') /\ delivery'.revision = delivery.revision
<1>1. PICK hooks : /\ \A q \in hooks : q.rule \in Snapshots
                   /\ delivery' \in {delivery, queueMatchedHooks(delivery, hooks)}
  <2> DEFINE fired == {r \in Snapshots : MatchedHooks(r, type, call) # {}}
             hooks == {[rule |-> r, lifetime |-> hookLifetime(r, Context(store.prompt, tools))] :
                         r \in fired}
  <2>1. delivery' \in {delivery, queueMatchedHooks(delivery, hooks)}
      BY DEF QueueHooks
  <2>2. \A q \in hooks : q.rule \in Snapshots
      OBVIOUS
  <2> HIDE DEF hooks
  <2>. QED
      BY <2>1, <2>2
<1>2. CASE delivery' = delivery
    BY <1>2, DeliveryUntouched
<1>3. CASE delivery' = queueMatchedHooks(delivery, hooks)
    BY <1>1, <1>3, HooksQueued DEF RInv
<1>. QED
    BY <1>1, <1>2, <1>3

\* Before a tool the invariant is kept, ...
LEMMA ToolBeforeStep ==
    ASSUME RInv, NEW h \in Handler, NEW call, NEW tools, ToolBefore(h, call, tools)
    PROVE  RInv' /\ StepKeeps
<1>1. /\ handler[h].pc = "idle"
      /\ QueueHooks("PreToolUse", call, tools)
      /\ counted' = [counted EXCEPT !.calls = @ + 1]
      /\ UNCHANGED <<history, removing, store, observations, historyReads, queue,
                     handler, invalidations, overtaken>>
    BY DEF ToolBefore, Free, At
<1>2. /\ DeliveryOK(delivery') /\ SameLedger(delivery, delivery')
      /\ HooksKept(delivery, delivery') /\ delivery'.revision = delivery.revision
    BY <1>1, HooksOfACall
<1>3. Goes(h, handler[h])
    BY <1>1 DEF Goes, RInv, HandlersOK
<1>4. CountedOK'
    BY <1>1 DEF RInv, CountedOK
<1>5. ReadsOK' /\ QueueOK' /\ InFlight' = InFlight
  <2>1. ReadsOK'
      BY <1>1, ReadsStay DEF ToSet
  <2>. QED
      BY <1>1, <2>1 DEF RInv, QueueOK, InFlight, At
<1>. QED
    BY <1>1, <1>2, <1>3, <1>4, <1>5, HandlerNow, QuietStep

\* ... after its hooks, ...
LEMMA AfterHooksStep ==
    ASSUME RInv, NEW h \in Handler, NEW tools, AfterHooks(h, tools)
    PROVE  RInv' /\ StepKeeps
<1>1. /\ handler[h].pc = "hooks" /\ Goes(h, Idle)
      /\ QueueHooks("PostToolUse", handler[h].call, tools)
      /\ UNCHANGED <<history, removing, store, observations, historyReads, queue,
                     counted, invalidations, overtaken>>
    BY DEF AfterHooks, At, Leaves
<1>2. /\ DeliveryOK(delivery') /\ SameLedger(delivery, delivery')
      /\ HooksKept(delivery, delivery') /\ delivery'.revision = delivery.revision
    BY <1>1, HooksOfACall
<1>3. /\ HandlerOK(Idle, invalidations, removing, ToSet(history), delivery.revision)
      /\ Idle.pc = "idle"
    BY IdleIsOK, HandlerNow DEF Idle
<1>4. CountedOK'
    BY <1>1 DEF RInv, CountedOK
<1>5. ReadsOK'
    BY <1>1, ReadsStay DEF ToSet
<1>6. QueueOK'
    BY <1>1, <1>3, QueueStays DEF RInv, Queued, Running
<1>7. InFlight' = InFlight
    BY <1>1, <1>3, InFlightSame DEF RInv
<1>. QED
    BY <1>1, <1>2, <1>3, <1>4, <1>5, <1>6, <1>7, QuietStep

-----------------------------------------------------------------------------
(* The steps of a request.                                                 *)
LEMMA DispatchStep ==
    ASSUME RInv, NEW h \in Handler, Dispatch(h)
    PROVE  RInv' /\ StepKeeps
<1> DEFINE next == [Idle EXCEPT !.kind = "dispatch", !.pc = "matching",
                                !.read = readHistory(TRUE)]
<1>1. /\ handler[h].pc = "idle" /\ Goes(h, next)
      /\ counted' = [counted EXCEPT !.dispatches = @ + 1]
      /\ UNCHANGED <<history, removing, observations, historyReads, delivery, queue,
                     invalidations, overtaken>>
    BY DEF Dispatch, Free, At
<1>2. /\ DOMAIN next = HandlerFields /\ next.kind = "dispatch" /\ next.message = {}
      /\ next.pc = "matching" /\ next.read = readHistory(TRUE)
      /\ next.rules = {} /\ next.output = {}
    BY DEF Idle, HandlerFields
<1> HIDE DEF next
<1>3. HandlerOK(next, invalidations, removing, ToSet(history), delivery.revision)
    BY <1>2, ReadingIsOK, NoAdmissionIsEmpty DEF HandlerOK, PartsAreKnown
<1>4. CountedOK'
    BY <1>1 DEF RInv, CountedOK
<1>5. ReadsOK'
    BY <1>1, ReadsStay DEF ToSet
<1>6. QueueOK'
    BY <1>1, <1>2, QueueStays DEF RInv, Queued, Running
<1>7. InFlight' = InFlight
    BY <1>1, <1>2, InFlightSame DEF RInv
<1>. QED
    BY <1>1, <1>3, <1>4, <1>5, <1>6, <1>7, QuietStep, DeliveryUntouched

\* A request is given what the history held, and the rules it then shows are known.
LEMMA DispatchDeliversStep ==
    ASSUME RInv, NEW h \in Handler, NEW tools, DispatchDelivers(h, tools)
    PROVE  RInv' /\ StepKeeps
<1> DEFINE sent == handler[h].read.messages
           current == beforeDispatch(delivery, AllParts(sent), TurnId(sent))
           matched == matchesWithLifetime(Snapshots,
                         Context(extractLatestUserPrompt(sent), tools), "ephemeral")
           rules   == keysOf(dispatchRules(current, matched))
           hooks   == keysOf(dispatchHooks(current))
           out     == IF rules \union hooks = {} THEN {}
                      ELSE {buildTransientDeliveryMessage(rules, hooks)}
           x       == [handler[h] EXCEPT !.read = NoRead, !.output = out]
           next    == [x EXCEPT !.pc = "queued"]
<1>1. /\ handler[h].pc = "matching" /\ handler[h].kind = "dispatch"
      /\ delivery' = afterDispatch(current, matched)
      /\ overtaken' = IF delivery.seeded /\ ~ delivery.needsRescan
                      THEN overtaken
                      ELSE handler[h].read.asOf # invalidations
      /\ queue' = Append(queue, h) /\ Goes(h, next)
      /\ UNCHANGED <<history, removing, store, observations, historyReads, counted,
                     invalidations>>
    BY DEF DispatchDelivers, At, Enqueues
<1>2. /\ ReadOK(handler[h].read, invalidations, removing, ToSet(history))
      /\ DeliveryOK(delivery)
    BY HandlerNow DEF HandlerOK, RInv
<1>3. PartsAreKnown(AllParts(sent))
    BY <1>2, ReadIsKnown
<1>4. matched \subseteq Snapshots
    BY MatchesAreRules
<1>5. /\ DeliveryOK(current)
      /\ QueuesOf(current) = QueuesOf(delivery)
      /\ current.seeded = TRUE /\ current.needsRescan = FALSE
      /\ \/ /\ delivery.seeded /\ ~ delivery.needsRescan
            /\ current.ruleKeys = delivery.ruleKeys /\ current.hookKeys = delivery.hookKeys
            /\ current.revision = delivery.revision
         \/ /\ ~ (delivery.seeded /\ ~ delivery.needsRescan)
            /\ current.ruleKeys = decodeRawHistory(AllParts(sent)).ruleKeys
            /\ current.hookKeys = decodeRawHistory(AllParts(sent)).hookKeys
            /\ current.revision = delivery.revision + 1
  <2> DEFINE parts == AllParts(sent)
             turnId == TurnId(sent)
  <2>1. current = beforeDispatch(delivery, parts, turnId) /\ PartsAreKnown(parts)
      BY <1>3
  <2> HIDE DEF current, parts, turnId
  <2>2. Begun(delivery, parts, current)
      BY <1>2, <2>1, DispatchBegun
  <2>. QED
      BY <2>2 DEF Begun, parts
<1> HIDE DEF current, matched
<1>6. /\ DeliveryOK(delivery') /\ SameLedger(current, delivery') /\ HooksKept(current, delivery')
      /\ delivery'.revision = current.revision
    BY <1>1, <1>5, DispatchMade
<1>7. PartsAreKnown(out)
  <2>1. dispatchRules(current, matched) \subseteq Snapshots
      BY <1>4, <1>5 DEF dispatchRules, DeliveryOK
  <2>2. dispatchHooks(current) \subseteq Snapshots
      BY <1>5 DEF dispatchHooks, DeliveryOK, QueuesOf
  <2>3. rules \subseteq KnownKeys /\ hooks \subseteq KnownKeys
      BY <2>1, <2>2, IdentitiesAreKnown
  <2> HIDE DEF rules, hooks
  <2>4. \A p \in out : p.rules = rules /\ p.hooks = hooks
      BY DEF buildTransientDeliveryMessage
  <2>. QED
      BY <2>3, <2>4 DEF PartsAreKnown
<1> HIDE DEF out
<1>8. /\ DOMAIN next = HandlerFields /\ next.kind = "dispatch" /\ next.pc = "queued"
      /\ next.message = handler[h].message /\ next.rules = handler[h].rules
      /\ next.output = out /\ next.read = NoRead
    BY <1>1, HandlerNow DEF HandlerFields
<1> HIDE DEF next
<1>9. HandlerOK(next, invalidations, removing, ToSet(history), delivery.revision)
  <2>1. HandlerOK(Idle, invalidations, removing, ToSet(history), delivery.revision)
      BY IdleIsOK, HandlerNow
  <2>2. ReadOK(NoRead, invalidations, removing, ToSet(history))
      BY <2>1 DEF HandlerOK, Idle
  <2>. QED
      BY <1>7, <1>8, <2>2, HandlerNow DEF HandlerOK
<1>10. InFlight' = InFlight
    BY <1>1, <1>8, InFlightSame DEF RInv
<1>11. Given' = Given
    BY <1>1, <1>10 DEF Given, AllParts
<1>12. Backed'
  <2>1. SUFFICES ASSUME LedgerInUse', ~ removing', ~ overtaken'
                 PROVE  /\ delivery'.ruleKeys \subseteq decodeRawHistory(Given).ruleKeys
                        /\ delivery'.hookKeys \subseteq decodeRawHistory(Given).hookKeys
      BY <1>11 DEF Backed
  <2>2. CASE delivery.seeded /\ ~ delivery.needsRescan
      BY <1>1, <1>5, <1>6, <2>1, <2>2 DEF RInv, Backed, LedgerInUse, SameLedger
  <2>3. CASE ~ (delivery.seeded /\ ~ delivery.needsRescan)
    <3>1. AllParts(sent) \subseteq AllParts(history)
        BY <1>1, <1>2, <2>1, <2>3, ReadIsBacked
    <3>2. AllParts(sent) \subseteq Given
        BY <3>1 DEF Given
    <3>3. /\ decodeRawHistory(AllParts(sent)).ruleKeys \subseteq decodeRawHistory(Given).ruleKeys
          /\ decodeRawHistory(AllParts(sent)).hookKeys \subseteq decodeRawHistory(Given).hookKeys
        BY <3>2, DecodeGrows
    <3>. QED
        BY <1>5, <1>6, <2>3, <3>3 DEF SameLedger
  <2>. QED
      BY <2>2, <2>3
<1>13. HistoryOK' /\ ToSet(history') = ToSet(history)
    BY <1>1 DEF RInv, HistoryOK, ToSet
<1>14. ReadsOK'
    BY <1>1, <1>13, ReadsStay
<1>15. QueueOK'
    BY <1>1, <1>8, QueueJoined DEF RInv, Queued, Running
<1>16. CountedOK'
    BY <1>1 DEF RInv, CountedOK
<1>17. HooksKept(delivery, delivery')
    BY <1>5, <1>6 DEF HooksKept
<1>18. delivery.revision <= delivery'.revision /\ delivery.revision \in Nat
    BY <1>2, <1>5, <1>6 DEF DeliveryOK
<1>19. HandlerOK(next, invalidations, removing, ToSet(history'), delivery'.revision)
    BY <1>8, <1>9, <1>13 DEF HandlerOK
<1>. QED
    BY <1>1, <1>6, <1>12, <1>13, <1>14, <1>15, <1>16, <1>17, <1>18, <1>19, HandlerStep DEF At

\* ... when an admission is tried again, ...
LEMMA RetryStartStep ==
    ASSUME RInv, NEW h \in Handler, RetryStart(h)
    PROVE  RInv' /\ StepKeeps
<1>1. /\ queue # <<>> /\ queue[1] = h /\ handler[h].pc = "queued"
      /\ Persists(h, delivery)
      /\ UNCHANGED <<history, removing, store, observations, historyReads, counted,
                     invalidations, overtaken>>
    BY TakenFromTheQueue DEF RetryStart
<1>2. DeliveryOK(delivery) /\ SameLedger(delivery, delivery)
    BY DEF RInv, SameLedger
<1>. QED
    BY <1>1, <1>2, PersistsQuietly

-----------------------------------------------------------------------------
(* What happens to the session behind the handlers' backs.                 *)
\* A compaction or an announced removal makes every read an old one.
LEMMA InvalidationStep ==
    ASSUME RInv, delivery' \in {markCompacted(delivery), markHistoryChanged(delivery)},
           invalidateHistoryReads, invalidations' = invalidations + 1, overtaken' = FALSE,
           removing' \in BOOLEAN, HistoryOK',
           UNCHANGED <<queue, handler, counted>>
    PROVE  RInv' /\ StepKeeps
<1>1. /\ DeliveryOK(delivery') /\ HooksKept(delivery, delivery')
      /\ delivery'.revision = delivery.revision + 1
      /\ ~ (delivery'.seeded /\ ~ delivery'.needsRescan)
    BY Marking DEF RInv
<1>2. ReadsOK'
  <2>1. /\ DOMAIN historyReads' = {"revision", "prefetch", "inFlight"}
        /\ historyReads'.revision = historyReads.revision + 1
        /\ historyReads'.prefetch = {} /\ historyReads'.inFlight = {}
      BY DEF invalidateHistoryReads
  <2>. QED
      BY <2>1 DEF RInv, ReadsOK, AtMostOne
<1>3. invalidations \in Nat /\ delivery.revision \in Nat /\ delivery'.revision \in Nat
    BY <1>1 DEF RInv, ReadsOK, DeliveryOK
<1>4. HandlersOK'
  <2>1. Later(invalidations, removing, ToSet(history), invalidations', removing', ToSet(history'))
      BY DEF Later
  <2>2. SUFFICES ASSUME NEW h \in Handler
                 PROVE  HandlerOK(handler[h], invalidations', removing', ToSet(history'),
                                  delivery'.revision)
      BY DEF RInv, HandlersOK
  <2>3. HandlerOK(handler[h], invalidations, removing, ToSet(history), delivery.revision)
      BY HandlerNow
  <2>. QED
      BY <1>1, <1>3, <2>1, <2>3, HandlerStays
<1>5. QueueOK'
    BY DEF RInv, QueueOK
<1>6. CountedOK'
    BY DEF RInv, CountedOK
<1>7. Backed'
    BY <1>1 DEF Backed, LedgerInUse
<1>8. StepKeeps
    BY <1>1 DEF StepKeeps
<1>. QED
    BY <1>1, <1>2, <1>4, <1>5, <1>6, <1>7, <1>8 DEF RInv

\* ... when the host compacts, ...
LEMMA CompactingStep ==
    ASSUME RInv, NEW n \in 0 .. Len(history), SessionCompacting(n)
    PROVE  RInv' /\ StepKeeps
<1>1. /\ history' = SubSeq(history, n + 1, Len(history))
      /\ delivery' = markCompacted(delivery)
      /\ invalidateHistoryReads /\ invalidations' = invalidations + 1 /\ overtaken' = FALSE
      /\ UNCHANGED <<removing, queue, handler, counted>>
    BY DEF SessionCompacting
<1>2. HistoryOK'
    BY <1>1, SuffixIsWithin DEF RInv, HistoryOK
<1>3. removing' \in BOOLEAN
    BY <1>1 DEF RInv, CountedOK
<1>. QED
    BY <1>1, <1>2, <1>3, InvalidationStep

\* ... when it says that a message is gone, ...
LEMMA MessageRemovedStep ==
    ASSUME RInv, MessageRemoved PROVE RInv' /\ StepKeeps
<1>1. /\ delivery' = markHistoryChanged(delivery)
      /\ invalidateHistoryReads /\ invalidations' = invalidations + 1 /\ overtaken' = FALSE
      /\ removing' = FALSE
      /\ UNCHANGED <<history, queue, handler, counted>>
    BY DEF MessageRemoved
<1>2. HistoryOK'
    BY <1>1 DEF RInv, HistoryOK
<1>. QED
    BY <1>1, <1>2, InvalidationStep

\* ... when it removes one, ...
LEMMA HostRemovesStep ==
    ASSUME RInv, NEW i \in DOMAIN history, HostRemoves(i) PROVE RInv' /\ StepKeeps
<1>1. /\ history' = RemoveAt(history, i) /\ removing' = TRUE
      /\ UNCHANGED <<historyReads, delivery, queue, handler, counted, invalidations, overtaken>>
    BY DEF HostRemoves
<1>2. HistoryOK'
    BY <1>1, RemovalIsWithin DEF RInv, HistoryOK
<1>3. Later(invalidations, removing, ToSet(history), invalidations', removing', ToSet(history'))
    BY <1>1 DEF Later
<1>4. ReadsOK'
  <2>1. SUFFICES ASSUME NEW r \in historyReads.prefetch \union historyReads.inFlight
                 PROVE  ReadOK(r, invalidations', removing', ToSet(history'))
      BY <1>1 DEF RInv, ReadsOK
  <2>2. ReadOK(r, invalidations, removing, ToSet(history)) /\ invalidations \in Nat
      BY <2>1 DEF RInv, ReadsOK
  <2>. QED
      BY <1>3, <2>2, ReadStays
<1>5. HandlersOK'
  <2>1. SUFFICES ASSUME NEW h \in Handler
                 PROVE  HandlerOK(handler[h], invalidations', removing', ToSet(history'),
                                  delivery.revision)
      BY <1>1 DEF RInv, HandlersOK
  <2>2. HandlerOK(handler[h], invalidations, removing, ToSet(history), delivery.revision)
      BY HandlerNow
  <2>3. invalidations \in Nat /\ invalidations' = invalidations /\ delivery.revision \in Nat
      BY <1>1 DEF RInv, ReadsOK, DeliveryOK
  <2>. QED
      BY <1>3, <2>2, <2>3, HandlerStays
<1>6. QueueOK' /\ CountedOK'
    BY <1>1 DEF RInv, QueueOK, CountedOK
<1>7. Backed'
    BY <1>1 DEF Backed
<1>8. DeliveryOK(delivery') /\ HooksKept(delivery, delivery')
    BY <1>1, DeliveryUntouched
<1>9. StepKeeps
    BY <1>1, <1>8 DEF StepKeeps
<1>. QED
    BY <1>2, <1>4, <1>5, <1>6, <1>7, <1>8, <1>9 DEF RInv

\* ... when the session is evicted ...
LEMMA EvictStep ==
    ASSUME RInv, Evict PROVE RInv' /\ StepKeeps
<1>1. /\ queue = <<>> /\ delivery' = FreshDelivery
      /\ counted' = [counted EXCEPT !.evictions = @ + 1] /\ overtaken' = FALSE
      /\ UNCHANGED <<history, removing, historyReads, queue, handler, invalidations>>
    BY DEF Evict
<1>2. DeliveryOK(delivery') /\ delivery'.revision = 0 /\ ~ delivery'.seeded
    BY <1>1, FreshIsOK DEF FreshDelivery
<1>3. HandlersOK'
  <2>1. SUFFICES ASSUME NEW h \in Handler
                 PROVE  HandlerOK(handler[h], invalidations', removing', ToSet(history'),
                                  delivery'.revision)
      BY <1>1 DEF RInv, HandlersOK
  <2>2. HandlerOK(handler[h], invalidations, removing, ToSet(history), delivery.revision)
      BY HandlerNow
  <2>3. handler[h].pc # "turnReading"
      BY <1>1, UnderWayIsFirst DEF Running
  <2>4. invalidations' = invalidations /\ removing' = removing /\ ToSet(history') = ToSet(history)
      BY <1>1 DEF ToSet
  <2>. QED
      BY <2>2, <2>3, <2>4 DEF HandlerOK
<1>4. CountedOK'
  <2>1. DOMAIN counted' = DOMAIN counted /\ \A f \in DOMAIN counted : counted'[f] \in Nat
      BY <1>1 DEF RInv, CountedOK
  <2>2. removing' \in BOOLEAN /\ overtaken' \in BOOLEAN
      BY <1>1, Zenon DEF RInv, CountedOK
  <2>. QED
      BY <2>1, <2>2 DEF RInv, CountedOK
<1>5. HistoryOK' /\ QueueOK'
    BY <1>1 DEF RInv, HistoryOK, QueueOK
<1>6. ReadsOK'
    BY <1>1, ReadsStay DEF ToSet
<1>7. Backed'
    BY <1>2 DEF Backed, LedgerInUse
<1>8. StepKeeps
    BY <1>1 DEF StepKeeps
<1>. QED
    BY <1>2, <1>3, <1>4, <1>5, <1>6, <1>7, <1>8 DEF RInv

-----------------------------------------------------------------------------
(* The invariant.                                                          *)
LEMMA RulesStartWell ==
    ASSUME RulesInit PROVE RInv
<1>1. history \in Histories /\ removing = FALSE /\ delivery = FreshDelivery /\ queue = <<>>
      /\ historyReads = [revision |-> 0, prefetch |-> {}, inFlight |-> {}]
      /\ handler = [h \in Handler |-> Idle] /\ invalidations = 0 /\ overtaken = FALSE
    BY DEF RulesInit
<1>2. DeliveryOK(delivery) /\ ~ delivery.seeded
    BY <1>1, FreshIsOK DEF FreshDelivery
<1>3. HistoryOK
  <2>1. \A m \in ToSet(history) : m.parts \subseteq AllParts(history)
      BY DEF AllParts
  <2>2. PartsAreKnown(AllParts(history))
      BY <1>1 DEF PartsAreKnown, KnownKeys
  <2>. QED
      BY <1>1, <2>1, <2>2, MessagesAssumption DEF HistoryOK, PartsAreKnown
<1>4. ReadsOK
    BY <1>1 DEF ReadsOK, AtMostOne
<1>5. HandlersOK
  <2>1. \A h \in Handler :
          HandlerOK(Idle, invalidations, removing, ToSet(history), delivery.revision)
      BY <1>1, IdleIsOK
  <2>. QED
      BY <1>1, <2>1 DEF HandlersOK
<1>6. QueueOK
  <2>1. \A h \in Handler : handler[h].pc = "idle"
      BY <1>1 DEF Idle
  <2>. QED
      BY <1>1, <2>1 DEF QueueOK, Running
<1>7. CountedOK
  <2>1. counted = [messages |-> 0, calls |-> 0, dispatches |-> 0, evictions |-> 0,
                   lost |-> 0, rescans |-> 0]
      BY DEF RulesInit
  <2>2. /\ DOMAIN counted = {"messages", "calls", "dispatches", "evictions", "lost", "rescans"}
        /\ \A f \in DOMAIN counted : counted[f] \in Nat
      BY <2>1
  <2>3. removing \in BOOLEAN /\ overtaken \in BOOLEAN
      BY <1>1, Zenon
  <2>. QED
      BY <2>2, <2>3 DEF CountedOK
<1>8. Backed
    BY <1>2 DEF Backed, LedgerInUse
<1>. QED
    BY <1>2, <1>3, <1>4, <1>5, <1>6, <1>7, <1>8 DEF RInv

\* ... and when nothing happens.
LEMMA StutteringStep ==
    ASSUME RInv, UNCHANGED rulesVars PROVE RInv' /\ StepKeeps
<1>1. UNCHANGED <<history, removing, historyReads, delivery, queue, handler, counted,
                  invalidations, overtaken>>
    BY DEF rulesVars
<1>2. DeliveryOK(delivery') /\ HooksKept(delivery, delivery')
    BY <1>1, DeliveryUntouched
<1>3. HistoryOK' /\ ReadsOK' /\ HandlersOK' /\ QueueOK' /\ CountedOK'
  <2>1. ReadsOK'
      BY <1>1, ReadsStay DEF ToSet
  <2>2. HistoryOK' /\ HandlersOK'
      BY <1>1 DEF RInv, HistoryOK, HandlersOK, ToSet
  <2>3. QueueOK' /\ CountedOK'
      BY <1>1 DEF RInv, QueueOK, CountedOK
  <2>. QED
      BY <2>1, <2>2, <2>3
<1>4. Backed'
    BY <1>1 DEF RInv, Backed, LedgerInUse, Given, InFlight, At
<1>5. StepKeeps
    BY <1>1, <1>2 DEF StepKeeps
<1>. QED
    BY <1>2, <1>3, <1>4, <1>5 DEF RInv

\* Every step keeps the invariant and all hooks but those it delivers.
LEMMA RulesStep ==
    ASSUME RInv, [RulesNext]_rulesVars PROVE RInv' /\ StepKeeps
<1>1. CASE UNCHANGED rulesVars
    BY <1>1, StutteringStep
<1>2. ASSUME NEW h \in Handler, Starts(h) PROVE RInv' /\ StepKeeps
    BY <1>2, ChatMessageStep, ToolAfterStep, ToolBeforeStep, DispatchStep DEF Starts
<1>3. ASSUME NEW h \in Handler, Continues(h) PROVE RInv' /\ StepKeeps
    BY <1>3, PrepareStep, TurnStartStep, AdmitStartStep, TurnReturnsStep,
       HostStoresMessageStep, MatchTurnStep, MatchObservationStep, AfterHooksStep,
       DispatchDeliversStep, AdmitReturnsStep, RetryStartStep, PersistReturnsStep
       DEF Continues
<1>4. ASSUME NEW n \in 0 .. Len(history), SessionCompacting(n) PROVE RInv' /\ StepKeeps
    BY <1>4, CompactingStep
<1>5. ASSUME NEW i \in DOMAIN history, HostRemoves(i) PROVE RInv' /\ StepKeeps
    BY <1>5, HostRemovesStep
<1>6. CASE MessageRemoved
    BY <1>6, MessageRemovedStep
<1>7. CASE Evict
    BY <1>7, EvictStep
<1>. QED
    BY <1>1, <1>2, <1>3, <1>4, <1>5, <1>6, <1>7 DEF RulesNext

\* The invariant holds in every state, whatever handlers, hooks and removals interleave.
THEOREM RulesInvariant == RulesSpec => []RInv
<1>1. RulesInit => RInv
    BY RulesStartWell
<1>2. RInv /\ [RulesNext]_rulesVars => RInv'
    BY RulesStep
<1>. QED
    BY <1>1, <1>2, PTL DEF RulesSpec

-----------------------------------------------------------------------------
(* Nothing twice: what the operators do.                                   *)
LEMMA NamedOnlyByItself ==
    ASSUME NEW rules, rules \subseteq Snapshots, NEW p, p.rules = keysOf(rules),
           NEW r \in Snapshots, Names(p, r)
    PROVE  r \in rules
<1>1. PICK s \in rules : s.identity \in {r.identity, r.path}
    BY DEF Names, keysOf, deliveryKey
<1>. QED
    BY <1>1, SnapshotsAssumption

\* What is sent without being known is sent once, and then is known.
LEMMA SentOnce ==
    ASSUME NEW keys, NEW given, Knows(keys, given), EachOnce(given),
           NEW rules, rules \subseteq Snapshots, \A r \in rules : ~ hasDeliveryKey(keys, r),
           NEW out, AtMostOne(out),
           \A p \in out : p.kind # "transient" /\ p.rules = keysOf(rules),
           NEW later, later \subseteq given \union out
    PROVE  Knows(keys \union keysOf(rules), later) /\ EachOnce(later)
<1>1. ASSUME NEW r \in Snapshots, NEW p \in out, Names(p, r)
      PROVE  r \in rules /\ ~ hasDeliveryKey(keys, r) /\ r.identity \in keysOf(rules)
    BY <1>1, NamedOnlyByItself DEF keysOf, deliveryKey
<1>2. Knows(keys \union keysOf(rules), later)
  <2>1. SUFFICES ASSUME NEW r \in Snapshots, NEW p \in later, Names(p, r)
                 PROVE  hasDeliveryKey(keys \union keysOf(rules), r)
      BY DEF Knows
  <2>2. CASE p \in given
      BY <2>1, <2>2 DEF Knows, hasDeliveryKey
  <2>3. CASE p \in out
      BY <1>1, <2>1, <2>3 DEF hasDeliveryKey
  <2>. QED
      BY <2>2, <2>3
<1>3. ASSUME NEW p \in later, NEW q \in later, NEW r \in Snapshots, Names(p, r), Names(q, r)
      PROVE  p = q
  <2>1. CASE p \in given /\ q \in given
      BY <1>3, <2>1 DEF EachOnce
  <2>2. CASE p \in out /\ q \in out
      BY <2>2 DEF AtMostOne
  <2>3. CASE p \in out /\ q \in given
      BY <1>1, <1>3, <2>3 DEF Knows
  <2>4. CASE p \in given /\ q \in out
      BY <1>1, <1>3, <2>4 DEF Knows
  <2>. QED
      BY <2>1, <2>2, <2>3, <2>4
<1>4. \A p \in later : p.kind # "transient"
    BY DEF EachOnce
<1>. QED
    BY <1>2, <1>3, <1>4 DEF EachOnce

\* A ledger filled from what was sent knows all of it.
LEMMA FilledKnows ==
    ASSUME NEW parts, EachOnce(parts)
    PROVE  Knows(decodeRawHistory(parts).ruleKeys, parts)
<1>1. SUFFICES ASSUME NEW r \in Snapshots, NEW p \in parts, Names(p, r)
               PROVE  hasDeliveryKey(decodeRawHistory(parts).ruleKeys, r)
    BY DEF Knows
<1>2. p.rules \subseteq decodeRawHistory(parts).ruleKeys
    BY DEF EachOnce, decodeRawHistory
<1>. QED
    BY <1>1, <1>2 DEF Names, hasDeliveryKey

\* What a handler knows stays faithful while its effect is alone.
LEMMA FaithfulStays ==
    ASSUME NEW x, NEW parts, NEW sent, NEW seeded, NEW rescan, NEW keys,
           NEW parts2, NEW sent2, NEW seeded2, NEW rescan2, NEW keys2,
           Faithful(x, parts, sent, seeded, rescan, keys),
           seeded => seeded2,
           ~ seeded2 => parts2 = parts,
           x.pc \in Running =>
              /\ sent = {} => sent2 = {} /\ parts2 = parts
              /\ rescan2 => rescan
              /\ seeded => keys2 = keys
    PROVE  Faithful(x, parts2, sent2, seeded2, rescan2, keys2)
BY DEF Faithful, Says, Running

\* A handler that is not first in the queue has no operation under way.
LEMMA OthersWait ==
    ASSUME RInv, NEW h \in Handler, queue # <<>>, queue[1] = h, NEW g \in Handler, g # h
    PROVE  handler[g].pc \notin Running
BY DEF RInv, QueueOK

\* A step of the handler "h": of the first in the queue, or one that leaves to the
\* operation under way what it relies on.
Alone(h) ==
    \/ queue # <<>> /\ queue[1] = h
    \/ /\ InFlight = {} => InFlight' = {} /\ AllParts(history') = AllParts(history)
       /\ delivery'.needsRescan => delivery.needsRescan
       /\ delivery.seeded => delivery'.ruleKeys = delivery.ruleKeys

\* What each step of a handler owes the soundness of what is known.
LEMMA SoundStep ==
    ASSUME RInv, Sound, NEW h \in Handler, NEW next, Goes(h, next), Alone(h),
           delivery.seeded => delivery'.seeded,
           delivery'.needsRescan => ~ delivery'.seeded,
           ~ delivery'.seeded => InFlight' = {} /\ AllParts(history') = AllParts(history),
           \A r \in KeptReads' : r \in KeptReads
                                   \/ (~ delivery.seeded => Says(r, AllParts(history))),
           Faithful(next, AllParts(history'), InFlight', delivery'.seeded,
                    delivery'.needsRescan, delivery'.ruleKeys),
           delivery'.seeded => Knows(delivery'.ruleKeys, Given'), EachOnce(Given')
    PROVE  Sound'
<1>1. \A g \in Handler : handler'[g] = IF g = h THEN next ELSE handler[g]
    BY DEF RInv, HandlersOK, Goes
<1>2. ASSUME NEW g \in Handler, g # h
      PROVE  Faithful(handler[g], AllParts(history'), InFlight', delivery'.seeded,
                      delivery'.needsRescan, delivery'.ruleKeys)
  <2>1. Faithful(handler[g], AllParts(history), InFlight, delivery.seeded,
                 delivery.needsRescan, delivery.ruleKeys)
      BY DEF Sound
  <2>2. CASE handler[g].pc \notin Running
      BY <2>1, <2>2, FaithfulStays
  <2>3. CASE handler[g].pc \in Running
    <3>1. ~ (queue # <<>> /\ queue[1] = h)
        BY <1>2, <2>3, OthersWait
    <3>. QED
        BY <2>1, <3>1, FaithfulStays DEF Alone
  <2>. QED
      BY <2>2, <2>3
<1>3. \A g \in Handler :
        Faithful(handler'[g], AllParts(history'), InFlight', delivery'.seeded,
                 delivery'.needsRescan, delivery'.ruleKeys)
    BY <1>1, <1>2
<1>4. ~ delivery'.seeded => \A r \in KeptReads' : Says(r, AllParts(history'))
    BY DEF Sound
<1>. QED
    BY <1>3, <1>4 DEF Sound

\* A step that sends nothing and leaves what the ledger knows alone.
LEMMA SilentStep ==
    ASSUME RInv, Sound, NEW h \in Handler, NEW next, Goes(h, next),
           AllParts(history') = AllParts(history), InFlight' = InFlight,
           SameLedger(delivery, delivery'),
           \A r \in KeptReads' : r \in KeptReads
                                   \/ (~ delivery.seeded => Says(r, AllParts(history))),
           Faithful(next, AllParts(history), InFlight, delivery.seeded,
                    delivery.needsRescan, delivery.ruleKeys)
    PROVE  Sound'
<1>1. Alone(h)
    BY DEF Alone, SameLedger
<1>2. Given' = Given
    BY DEF Given
<1>3. /\ delivery.seeded => delivery'.seeded
      /\ delivery'.needsRescan => ~ delivery'.seeded
      /\ ~ delivery'.seeded => InFlight' = {} /\ AllParts(history') = AllParts(history)
      /\ delivery'.seeded => Knows(delivery'.ruleKeys, Given')
      /\ EachOnce(Given')
    BY <1>2 DEF Sound, SameLedger
<1>4. Faithful(next, AllParts(history'), InFlight', delivery'.seeded,
               delivery'.needsRescan, delivery'.ruleKeys)
    BY DEF SameLedger
<1>. QED
    BY <1>1, <1>3, <1>4, SoundStep

\* At rest, or about to start.
LEMMA RestingIsFaithful ==
    ASSUME NEW x, NEW parts, NEW sent, NEW seeded, NEW rescan, NEW keys,
           ~ seeded => Says(x.read, parts),
           \/ x.pc \in {"idle", "hooks", "answered"}
           \/ /\ x.pc \in {"preparing", "matching", "queued"}
              /\ x.kind # "dispatch"
              /\ x.pc = "preparing" => x.kind = "chat"
    PROVE  Faithful(x, parts, sent, seeded, rescan, keys)
BY DEF Faithful

\* No read says nothing.
LEMMA NoReadSays == \A parts : Says(NoRead, parts) /\ Says(Idle.read, parts)
BY DEF Says, NoRead, Idle

\* Reads that an operation takes agree with the history until the ledger is filled.
LEMMA TakenReadSays ==
    ASSUME Sound, ~ delivery.seeded, NEW ok
    PROVE  Says(TakenRead(ok), AllParts(history)) /\ Says(readHistory(ok), AllParts(history))
<1>1. Says(readHistory(ok), AllParts(history))
    BY DEF Says, readHistory
<1>2. historyReads.prefetch # {} =>
        (CHOOSE r \in historyReads.prefetch : TRUE) \in historyReads.prefetch
    OBVIOUS
<1>. QED
    BY <1>1, <1>2 DEF TakenRead, Sound, KeptReads

\* The part of Sound that is about one handler.
LEMMA FaithfulNow ==
    ASSUME Sound, NEW h \in Handler
    PROVE  Faithful(handler[h], AllParts(history), InFlight, delivery.seeded,
                    delivery.needsRescan, delivery.ruleKeys)
BY DEF Sound

-----------------------------------------------------------------------------
(* Nothing twice: the steps.                                               *)
LEMMA ChatMessageSound ==
    ASSUME RInv, Sound, NEW h \in Handler, NEW prompt, NEW files, NEW ok,
           ChatMessage(h, prompt, files, ok)
    PROVE  Sound'
<1> DEFINE reading == ~ store.seeded
           read    == IF historyReads.inFlight # {}
                      THEN CHOOSE r \in historyReads.inFlight : TRUE
                      ELSE readHistory(ok)
           next    == [Idle EXCEPT !.kind = "chat", !.message = UserMessages[counted.messages + 1],
                         !.prompt = prompt, !.files = files,
                         !.pc   = IF reading THEN "preparing" ELSE "matching",
                         !.read = IF reading THEN read ELSE NoRead]
<1>1. /\ handler[h].pc = "idle" /\ Goes(h, next)
      /\ historyReads' = IF reading THEN [historyReads EXCEPT !.inFlight = {read}] ELSE historyReads
      /\ UNCHANGED <<history, delivery>>
    BY DEF ChatMessage, Free, At
<1>2. ~ delivery.seeded => Says(read, AllParts(history))
  <2>1. historyReads.inFlight # {} =>
          (CHOOSE r \in historyReads.inFlight : TRUE) \in historyReads.inFlight
      OBVIOUS
  <2>. QED
      BY <2>1, TakenReadSays DEF Sound, KeptReads
<1> HIDE DEF read
<1>3. /\ next.kind = "chat" /\ next.pc \in {"preparing", "matching"}
      /\ next.read \in {read, NoRead}
    BY DEF Idle
<1> HIDE DEF next
<1>4. \A r \in KeptReads' : r \in KeptReads \/ r = read
    BY <1>1 DEF KeptReads, RInv, ReadsOK
<1>5. Faithful(next, AllParts(history), InFlight, delivery.seeded,
               delivery.needsRescan, delivery.ruleKeys)
    BY <1>2, <1>3, NoReadSays, RestingIsFaithful
<1>6. InFlight' = InFlight
    BY <1>1, <1>3, InFlightSame DEF RInv
<1>7. SameLedger(delivery, delivery') /\ AllParts(history') = AllParts(history)
    BY <1>1 DEF SameLedger
<1>. QED
    BY <1>1, <1>2, <1>4, <1>5, <1>6, <1>7, SilentStep

\* One lemma for each step: first those that leave the ledger alone, ...
LEMMA PrepareSound ==
    ASSUME RInv, Sound, NEW h \in Handler, prepareDurableTurn(h) PROVE Sound'
<1> DEFINE read == handler[h].read
           used == read.revision = historyReads.revision /\ ~ store.seeded
           next == [handler[h] EXCEPT !.pc = "matching"]
<1>1. /\ handler[h].pc = "preparing" /\ Goes(h, next)
      /\ historyReads' = [historyReads EXCEPT !.inFlight = @ \ {read},
                             !.prefetch = IF used THEN {read} ELSE @]
      /\ UNCHANGED <<history, delivery>>
    BY DEF prepareDurableTurn, At, Moves
<1>2. next.kind = handler[h].kind /\ next.pc = "matching" /\ next.read = read
    BY HandlerNow DEF HandlerFields
<1>3. handler[h].kind = "chat" /\ (~ delivery.seeded => Says(read, AllParts(history)))
    BY <1>1, FaithfulNow DEF Faithful
<1> HIDE DEF next, used
<1>4. Faithful(next, AllParts(history), InFlight, delivery.seeded,
               delivery.needsRescan, delivery.ruleKeys)
    BY <1>2, <1>3, RestingIsFaithful
<1>5. \A r \in KeptReads' : r \in KeptReads \/ r = read
    BY <1>1 DEF KeptReads, RInv, ReadsOK
<1>6. InFlight' = InFlight
    BY <1>1, <1>2, InFlightSame DEF RInv
<1>7. SameLedger(delivery, delivery') /\ AllParts(history') = AllParts(history)
    BY <1>1 DEF SameLedger
<1>. QED
    BY <1>1, <1>3, <1>4, <1>5, <1>6, <1>7, SilentStep

\* A handler joins the queue with the rules that matched.
LEMMA EnqueueSound ==
    ASSUME RInv, Sound, NEW h \in Handler, NEW rules,
           handler[h].pc = "matching", handler[h].kind # "dispatch",
           Enqueues(h, [handler[h] EXCEPT !.rules = rules]),
           UNCHANGED <<history, historyReads, delivery>>
    PROVE  Sound'
<1> DEFINE next == [[handler[h] EXCEPT !.rules = rules] EXCEPT !.pc = "queued"]
<1>1. Goes(h, next)
    BY DEF Enqueues
<1>2. next.kind = handler[h].kind /\ next.pc = "queued" /\ next.read = handler[h].read
    BY HandlerNow DEF HandlerFields
<1> HIDE DEF next
<1>3. Faithful(next, AllParts(history), InFlight, delivery.seeded,
               delivery.needsRescan, delivery.ruleKeys)
    BY <1>2, FaithfulNow, RestingIsFaithful DEF Faithful
<1>4. InFlight' = InFlight
    BY <1>1, <1>2, InFlightSame DEF RInv
<1>5. SameLedger(delivery, delivery') /\ AllParts(history') = AllParts(history) /\ KeptReads' = KeptReads
    BY DEF SameLedger, KeptReads
<1>. QED
    BY <1>1, <1>3, <1>4, <1>5, SilentStep

\* A handler goes on to a step at which nothing is asked of it.
LEMMA MoveSound ==
    ASSUME RInv, Sound, NEW h \in Handler, NEW next, Goes(h, next),
           next.pc \in {"hooks", "idle"}, next.read \in {handler[h].read, NoRead},
           handler[h].pc # "answered", SameLedger(delivery, delivery'),
           UNCHANGED <<history, historyReads>>
    PROVE  Sound'
<1>1. Faithful(next, AllParts(history), InFlight, delivery.seeded,
               delivery.needsRescan, delivery.ruleKeys)
    BY FaithfulNow, NoReadSays, RestingIsFaithful DEF Faithful
<1>2. InFlight' = InFlight
    BY InFlightSame DEF RInv
<1>3. AllParts(history') = AllParts(history) /\ KeptReads' = KeptReads
    BY DEF KeptReads
<1>. QED
    BY <1>1, <1>2, <1>3, SilentStep

LEMMA MatchTurnSound ==
    ASSUME RInv, Sound, NEW h \in Handler, NEW tools, MatchTurn(h, tools) PROVE Sound'
<1> DEFINE matched == IF handler[h].prompt = <<>> THEN {}
                      ELSE matchesWithLifetime(Snapshots, Context(handler[h].prompt, tools),
                                               "durable")
<1>1. /\ handler[h].pc = "matching" /\ handler[h].kind = "chat"
      /\ Enqueues(h, [handler[h] EXCEPT !.rules = matched])
      /\ UNCHANGED <<history, historyReads, delivery>>
    BY DEF MatchTurn, At
<1> HIDE DEF matched
<1>. QED
    BY <1>1, EnqueueSound

LEMMA MatchObservationSound ==
    ASSUME RInv, Sound, NEW h \in Handler, NEW tools, MatchObservation(h, tools) PROVE Sound'
<1> DEFINE matched == matchesWithLifetime({r \in Snapshots : hasFileObservationFamily(r)},
                                          Context(store.prompt, tools), "durable")
           moved == [handler[h] EXCEPT !.pc = "hooks"]
<1>1. /\ handler[h].pc = "matching" /\ handler[h].kind = "after"
      /\ Goes(h, moved) \/ Enqueues(h, [handler[h] EXCEPT !.rules = matched])
      /\ UNCHANGED <<history, historyReads, delivery>>
    BY DEF MatchObservation, At, Moves
<1>2. moved.pc = "hooks" /\ moved.read = handler[h].read
    BY HandlerNow DEF HandlerFields
<1> HIDE DEF matched, moved
<1>3. SameLedger(delivery, delivery')
    BY <1>1 DEF SameLedger
<1>4. CASE Goes(h, moved)
    BY <1>1, <1>2, <1>3, <1>4, MoveSound
<1>5. CASE Enqueues(h, [handler[h] EXCEPT !.rules = matched])
    BY <1>1, <1>5, EnqueueSound
<1>. QED
    BY <1>1, <1>4, <1>5

LEMMA ToolAfterSound ==
    ASSUME RInv, Sound, NEW h \in Handler, NEW call, ToolAfter(h, call) PROVE Sound'
<1> DEFINE next == [Idle EXCEPT !.kind = "after", !.call = call,
                      !.pc = IF call.files = {} THEN "hooks" ELSE "matching"]
<1>1. /\ handler[h].pc = "idle" /\ Goes(h, next)
      /\ UNCHANGED <<history, historyReads, delivery>>
    BY DEF ToolAfter, Free, At
<1>2. next.kind = "after" /\ next.pc \in {"hooks", "matching"} /\ next.read = NoRead
    BY DEF Idle
<1> HIDE DEF next
<1>3. Faithful(next, AllParts(history), InFlight, delivery.seeded,
               delivery.needsRescan, delivery.ruleKeys)
    BY <1>2, NoReadSays, RestingIsFaithful
<1>4. InFlight' = InFlight
    BY <1>1, <1>2, InFlightSame DEF RInv
<1>5. SameLedger(delivery, delivery') /\ AllParts(history') = AllParts(history) /\ KeptReads' = KeptReads
    BY <1>1 DEF SameLedger, KeptReads
<1>. QED
    BY <1>1, <1>3, <1>4, <1>5, SilentStep

LEMMA ToolBeforeSound ==
    ASSUME RInv, Sound, NEW h \in Handler, NEW call, NEW tools, ToolBefore(h, call, tools)
    PROVE  Sound'
<1>1. /\ handler[h].pc = "idle" /\ QueueHooks("PreToolUse", call, tools)
      /\ UNCHANGED <<history, historyReads, handler>>
    BY DEF ToolBefore, Free, At
<1>2. SameLedger(delivery, delivery')
    BY <1>1, HooksOfACall
<1>3. Goes(h, handler[h])
    BY <1>1 DEF Goes, RInv, HandlersOK
<1>. QED
    BY <1>1, <1>2, <1>3, MoveSound

LEMMA AfterHooksSound ==
    ASSUME RInv, Sound, NEW h \in Handler, NEW tools, AfterHooks(h, tools) PROVE Sound'
<1>1. /\ handler[h].pc = "hooks" /\ QueueHooks("PostToolUse", handler[h].call, tools)
      /\ Goes(h, Idle) /\ UNCHANGED <<history, historyReads>>
    BY DEF AfterHooks, At, Leaves
<1>2. SameLedger(delivery, delivery')
    BY <1>1, HooksOfACall
<1>3. Idle.pc = "idle" /\ Idle.read = NoRead
    BY DEF Idle
<1>. QED
    BY <1>1, <1>2, <1>3, MoveSound

LEMMA DispatchSound ==
    ASSUME RInv, Sound, NEW h \in Handler, Dispatch(h) PROVE Sound'
<1> DEFINE next == [Idle EXCEPT !.kind = "dispatch", !.pc = "matching",
                                !.read = readHistory(TRUE)]
<1>1. /\ handler[h].pc = "idle" /\ Goes(h, next)
      /\ UNCHANGED <<history, historyReads, delivery>>
    BY DEF Dispatch, Free, At
<1>2. next.kind = "dispatch" /\ next.pc = "matching" /\ next.read = readHistory(TRUE)
    BY DEF Idle
<1> HIDE DEF next
<1>3. readHistory(TRUE).ok /\ readHistory(TRUE).messages = history
    BY DEF readHistory
<1>4. Faithful(next, AllParts(history), InFlight, delivery.seeded,
               delivery.needsRescan, delivery.ruleKeys)
    BY <1>2, <1>3 DEF Faithful, Says
<1>5. InFlight' = InFlight
    BY <1>1, <1>2, InFlightSame DEF RInv
<1>6. SameLedger(delivery, delivery') /\ AllParts(history') = AllParts(history) /\ KeptReads' = KeptReads
    BY <1>1 DEF SameLedger, KeptReads
<1>. QED
    BY <1>1, <1>4, <1>5, <1>6, SilentStep

\* ... the host, which moves what is in flight to the history, ...
LEMMA HostStoresMessageSound ==
    ASSUME RInv, Sound, NEW h \in Handler, HostStoresMessage(h) PROVE Sound'
<1> DEFINE m == [id |-> handler[h].message, parts |-> handler[h].output,
                 files |-> handler[h].files, prompt |-> handler[h].prompt]
<1>1. /\ handler[h].pc = "answered" /\ history' = Append(history, m) /\ Goes(h, Idle)
      /\ UNCHANGED <<historyReads, delivery>>
    BY DEF HostStoresMessage, At, Leaves
<1>2. m.parts = handler[h].output
    OBVIOUS
<1> HIDE DEF m
<1>3. AllParts(history') = AllParts(history) \union handler[h].output
  <2>1. ToSet(history') = ToSet(history) \union {m}
      BY <1>1, AppendAddsOne DEF RInv, HistoryOK
  <2>. QED
      BY <1>2, <2>1 DEF AllParts
<1>4. Idle.pc = "idle" /\ Idle.read = NoRead
    BY DEF Idle
<1>5. /\ InFlight \subseteq InFlight' \union handler[h].output
      /\ InFlight' \subseteq InFlight
      /\ handler[h].output \subseteq InFlight
    BY <1>1, <1>4, InFlightStored DEF RInv
<1>6. Given' = Given
    BY <1>3, <1>5 DEF Given
<1>7. InFlight = {} => InFlight' = {} /\ AllParts(history') = AllParts(history)
    BY <1>3, <1>5
<1>8. Alone(h)
    BY <1>1, <1>7 DEF Alone
<1>9. Faithful(Idle, AllParts(history'), InFlight', delivery'.seeded,
               delivery'.needsRescan, delivery'.ruleKeys)
    BY <1>4, NoReadSays, RestingIsFaithful
<1>10. KeptReads' = KeptReads
    BY <1>1 DEF KeptReads
<1>11. /\ delivery'.needsRescan => ~ delivery'.seeded
       /\ ~ delivery'.seeded => InFlight' = {} /\ AllParts(history') = AllParts(history)
       /\ delivery'.seeded => Knows(delivery'.ruleKeys, Given')
       /\ EachOnce(Given')
    BY <1>1, <1>6, <1>7 DEF Sound
<1>. QED
    BY <1>1, <1>8, <1>9, <1>10, <1>11, SoundStep

\* A turn that is answered without anything.
LEMMA DeferSound ==
    ASSUME RInv, Sound, NEW h \in Handler, handler[h].kind = "chat",
           handler[h].pc \in {"queued", "turnReading"}, queue # <<>>, queue[1] = h,
           Goes(h, [handler[h] EXCEPT !.pc = "answered"]),
           delivery'.seeded = delivery.seeded, delivery'.ruleKeys = delivery.ruleKeys,
           delivery'.needsRescan => ~ delivery'.seeded,
           UNCHANGED <<history, historyReads>>
    PROVE  Sound'
<1> DEFINE next == [handler[h] EXCEPT !.pc = "answered"]
<1>1. next.pc = "answered" /\ next.read = handler[h].read /\ next.output = handler[h].output
    BY HandlerNow DEF HandlerFields
<1>2. Goes(h, next)
    OBVIOUS
<1> HIDE DEF next
<1>3. handler[h].output = {}
    BY HandlerNow DEF HandlerOK
<1>4. InFlight' = InFlight
    BY <1>1, <1>2, <1>3, InFlightGrows DEF RInv
<1>5. AllParts(history') = AllParts(history) /\ KeptReads' = KeptReads /\ Given' = Given
    BY <1>4 DEF KeptReads, Given, AllParts
<1>6. Alone(h)
    BY DEF Alone
<1>7. ~ delivery.seeded => Says(next.read, AllParts(history))
    BY <1>1, FaithfulNow DEF Faithful
<1>8. Faithful(next, AllParts(history'), InFlight', delivery'.seeded,
               delivery'.needsRescan, delivery'.ruleKeys)
    BY <1>1, <1>5, <1>7, RestingIsFaithful
<1>9. /\ ~ delivery'.seeded => InFlight' = {}
      /\ delivery'.seeded => Knows(delivery'.ruleKeys, Given')
      /\ EachOnce(Given')
    BY <1>4, <1>5 DEF Sound
<1>. QED
    BY <1>2, <1>5, <1>6, <1>8, <1>9, SoundStep

\* A turn that is answered on the ledger "d", which knows what was sent.
LEMMA AcceptSound ==
    ASSUME RInv, Sound, NEW h \in Handler, handler[h].kind = "chat",
           handler[h].pc \in {"queued", "turnReading"}, queue # <<>>, queue[1] = h,
           NEW d, DeliveryOK(d), Accepts(h, d), d.seeded, ~ d.needsRescan,
           Knows(d.ruleKeys, Given),
           UNCHANGED <<history, historyReads>>
    PROVE  Sound'
<1>1. PICK next, rules : Answers(h, d, next, rules)
    BY Accepting
<1>2. delivery'.seeded /\ ~ delivery'.needsRescan
    BY Accepting
<1>3. AllParts(history') = AllParts(history) /\ KeptReads' = KeptReads
    BY DEF KeptReads
<1>4. Given' \subseteq Given \union next.output
    BY <1>1, <1>3 DEF Given, Answers
<1>5. Knows(d.ruleKeys \union keysOf(rules), Given') /\ EachOnce(Given')
  <2>1. /\ rules \subseteq Snapshots /\ \A r \in rules : ~ hasDeliveryKey(d.ruleKeys, r)
        /\ AtMostOne(next.output)
        /\ \A p \in next.output : p.kind # "transient" /\ p.rules = keysOf(rules)
      BY <1>1 DEF Answers
  <2>2. EachOnce(Given)
      BY DEF Sound
  <2>. QED
      BY <1>4, <2>1, <2>2, SentOnce
<1>6. Knows(delivery'.ruleKeys, Given')
    BY <1>1, <1>5 DEF Answers
<1>7. Alone(h)
    BY DEF Alone
<1>8. Faithful(next, AllParts(history'), InFlight', delivery'.seeded,
               delivery'.needsRescan, delivery'.ruleKeys)
    BY <1>1, <1>2, RestingIsFaithful DEF Answers
<1>. QED
    BY <1>1, <1>2, <1>3, <1>5, <1>6, <1>7, <1>8, SoundStep DEF Answers

\* ... then the effects: a turn, ...
LEMMA TurnStartSound ==
    ASSUME RInv, Sound, NEW h \in Handler, NEW ok, TurnStart(h, ok) PROVE Sound'
<1>1. /\ queue # <<>> /\ queue[1] = h /\ handler[h].pc = "queued" /\ handler[h].kind = "chat"
      /\ UNCHANGED history
    BY TakenFromTheQueue DEF TurnStart
<1>2. CASE Defers(h, delivery) /\ UNCHANGED historyReads
  <2>1. Goes(h, [handler[h] EXCEPT !.pc = "answered"]) /\ delivery' = delivery
      BY <1>2 DEF Defers, Moves
  <2>2. delivery'.needsRescan => ~ delivery'.seeded
      BY <2>1 DEF Sound
  <2>. QED
      BY <1>1, <1>2, <2>1, <2>2, DeferSound
<1>3. CASE ~ delivery.needsRescan /\ delivery.seeded /\ Accepts(h, delivery) /\ UNCHANGED historyReads
    BY <1>1, <1>3, AcceptSound DEF Sound, RInv
<1> DEFINE x == [handler[h] EXCEPT !.pc = "turnReading", !.ledger = delivery.revision,
                                   !.read = TakenRead(ok)]
<1>4. CASE /\ ~ delivery.needsRescan /\ ~ delivery.seeded
           /\ Goes(h, x) /\ historyReads' = [historyReads EXCEPT !.prefetch = {}]
           /\ UNCHANGED <<delivery, queue>>
  <2>1. x.kind = "chat" /\ x.pc = "turnReading" /\ x.read = TakenRead(ok)
      BY <1>1, HandlerNow DEF HandlerFields
  <2> HIDE DEF x
  <2>2. InFlight = {} /\ Says(TakenRead(ok), AllParts(history))
      BY <1>4, TakenReadSays DEF Sound
  <2>3. Faithful(x, AllParts(history), InFlight, delivery.seeded,
                 delivery.needsRescan, delivery.ruleKeys)
      BY <1>4, <2>1, <2>2 DEF Faithful
  <2>4. InFlight' = InFlight
      BY <1>1, <1>4, <2>1, InFlightSame DEF RInv
  <2>5. KeptReads' \subseteq KeptReads
      BY <1>4 DEF KeptReads, RInv, ReadsOK
  <2>6. AllParts(history') = AllParts(history) /\ SameLedger(delivery, delivery')
      BY <1>1, <1>4 DEF SameLedger
  <2>. QED
      BY <1>4, <2>3, <2>4, <2>5, <2>6, SilentStep
<1>. QED
    BY <1>2, <1>3, <1>4 DEF TurnStart, TakenRead

\* A ledger filled from the read of the operation that fills it.
LEMMA FilledFromRead ==
    ASSUME RInv, Sound, NEW h \in Handler, handler[h].pc \in {"turnReading", "admitReading"},
           handler[h].read.ok, NEW d, d = replaceLedger(delivery, AllParts(handler[h].read.messages))
    PROVE  /\ DeliveryOK(d) /\ d.seeded /\ d.needsRescan = delivery.needsRescan
           /\ Knows(d.ruleKeys, Given)
<1> DEFINE read == handler[h].read
<1>1. AllParts(read.messages) = AllParts(history) /\ InFlight = {}
    BY FaithfulNow DEF Faithful, Says
<1>2. PartsAreKnown(AllParts(read.messages))
    BY HandlerNow, ReadIsKnown DEF HandlerOK
<1>3. /\ DeliveryOK(d) /\ d.seeded /\ d.needsRescan = delivery.needsRescan
      /\ d.ruleKeys = decodeRawHistory(AllParts(read.messages)).ruleKeys
    BY <1>2, Replacing DEF RInv
<1>4. Knows(decodeRawHistory(Given).ruleKeys, Given)
    BY FilledKnows DEF Sound
<1>5. AllParts(read.messages) = Given
    BY <1>1 DEF Given
<1>. QED
    BY <1>3, <1>4, <1>5

LEMMA TurnReturnsSound ==
    ASSUME RInv, Sound, NEW h \in Handler, TurnReturns(h), Undisturbed' PROVE Sound'
<1> DEFINE read == handler[h].read
           d == replaceLedger(delivery, AllParts(read.messages))
<1>1. /\ handler[h].pc = "turnReading" /\ UNCHANGED <<history, historyReads>>
    BY DEF TurnReturns, At
<1>2. queue # <<>> /\ queue[1] = h /\ handler[h].kind = "chat"
    BY <1>1, UnderWayIsFirst, HandlerNow DEF Running, HandlerOK
<1>3. ~ delivery.needsRescan
    BY <1>1, FaithfulNow DEF Faithful
<1>4. CASE /\ Defers(h, [delivery EXCEPT !.needsRescan = TRUE])
           /\ counted' = IF delivery.seeded THEN [counted EXCEPT !.rescans = @ + 1] ELSE counted
  <2>1. ~ delivery.seeded
    <3>1. SUFFICES ASSUME delivery.seeded PROVE FALSE
        OBVIOUS
    <3>2. counted'.rescans = counted.rescans + 1 /\ counted.rescans \in Nat
        BY <1>4, <3>1 DEF RInv, CountedOK
    <3>. QED
        BY <3>2 DEF Undisturbed
  <2>2. /\ Goes(h, [handler[h] EXCEPT !.pc = "answered"])
        /\ delivery' = [delivery EXCEPT !.needsRescan = TRUE]
      BY <1>4 DEF Defers, Moves
  <2>3. delivery'.seeded = delivery.seeded /\ delivery'.ruleKeys = delivery.ruleKeys
      BY <2>2 DEF RInv, DeliveryOK, DeliveryFields
  <2>. QED
      BY <1>1, <1>2, <2>1, <2>2, <2>3, DeferSound
<1>5. CASE Defers(h, delivery)
  <2>1. Goes(h, [handler[h] EXCEPT !.pc = "answered"]) /\ delivery' = delivery
      BY <1>5 DEF Defers, Moves
  <2>2. delivery'.needsRescan => ~ delivery'.seeded
      BY <2>1 DEF Sound
  <2>. QED
      BY <1>1, <1>2, <2>1, <2>2, DeferSound
<1>6. CASE read.ok /\ Accepts(h, d)
  <2>1. DeliveryOK(d) /\ d.seeded /\ d.needsRescan = delivery.needsRescan /\ Knows(d.ruleKeys, Given)
      BY <1>1, <1>6, FilledFromRead
  <2> HIDE DEF d
  <2>. QED
      BY <1>1, <1>2, <1>3, <1>6, <2>1, AcceptSound
<1>. QED
    BY <1>4, <1>5, <1>6 DEF TurnReturns

\* The rules that wait are offered, on the ledger "d", which knows what was sent.
LEMMA PersistsSound ==
    ASSUME RInv, Sound, NEW h \in Handler, handler[h].pc \in {"queued", "admitReading"},
           queue # <<>>, queue[1] = h, NEW d, DeliveryOK(d), Persists(h, d),
           d.seeded, ~ d.needsRescan, Knows(d.ruleKeys, Given),
           UNCHANGED <<history, historyReads>>
    PROVE  Sound'
<1>1. SameLedger(d, delivery') /\ InFlight' = InFlight
    BY Persisting
<1>2. PICK next :
        /\ Goes(h, next)
        /\ \/ next.pc \in {"hooks", "idle"}
           \/ next.pc = "persisting" /\ \A r \in next.rules : ~ hasDeliveryKey(d.ruleKeys, r)
    BY Persisting
<1>3. delivery'.seeded /\ ~ delivery'.needsRescan /\ delivery'.ruleKeys = d.ruleKeys
    BY <1>1 DEF SameLedger
<1>4. AllParts(history') = AllParts(history) /\ KeptReads' = KeptReads /\ Given' = Given
    BY <1>1 DEF KeptReads, Given, AllParts
<1>5. Faithful(next, AllParts(history'), InFlight', delivery'.seeded,
               delivery'.needsRescan, delivery'.ruleKeys)
    BY <1>2, <1>3 DEF Faithful
<1>6. Alone(h)
    BY DEF Alone
<1>7. EachOnce(Given')
    BY <1>4 DEF Sound
<1>. QED
    BY <1>2, <1>3, <1>4, <1>5, <1>6, <1>7, SoundStep

\* ... an admission, ...
LEMMA AdmitStartSound ==
    ASSUME RInv, Sound, NEW h \in Handler, NEW ok, AdmitStart(h, ok) PROVE Sound'
<1> DEFINE d == queuePendingRules(delivery, handler[h].rules)
           x == [handler[h] EXCEPT !.pc = "admitReading", !.read = TakenRead(ok)]
<1>1. /\ queue # <<>> /\ queue[1] = h /\ handler[h].pc = "queued" /\ handler[h].kind = "after"
      /\ UNCHANGED history
    BY TakenFromTheQueue DEF AdmitStart
<1>2. CASE delivery.seeded /\ ~ delivery.needsRescan /\ Persists(h, d) /\ UNCHANGED historyReads
  <2>1. handler[h].rules \subseteq Snapshots /\ DeliveryOK(delivery)
      BY HandlerNow DEF HandlerOK, RInv
  <2>2. DeliveryOK(d) /\ SameLedger(delivery, d)
      BY <2>1, RulesQueued
  <2> HIDE DEF d
  <2>3. d.seeded /\ ~ d.needsRescan /\ Knows(d.ruleKeys, Given)
      BY <1>2, <2>2 DEF SameLedger, Sound
  <2>. QED
      BY <1>1, <1>2, <2>2, <2>3, PersistsSound
<1>3. CASE /\ ~ delivery.seeded \/ delivery.needsRescan
           /\ Goes(h, x) /\ historyReads' = [historyReads EXCEPT !.prefetch = {}]
           /\ UNCHANGED <<delivery, queue>>
  <2>1. x.kind = "after" /\ x.pc = "admitReading" /\ x.read = TakenRead(ok)
      BY <1>1, HandlerNow DEF HandlerFields
  <2> HIDE DEF x
  <2>2. ~ delivery.seeded
      BY <1>3 DEF Sound
  <2>3. InFlight = {} /\ Says(TakenRead(ok), AllParts(history))
      BY <2>2, TakenReadSays DEF Sound
  <2>4. Faithful(x, AllParts(history), InFlight, delivery.seeded,
                 delivery.needsRescan, delivery.ruleKeys)
      BY <2>1, <2>3 DEF Faithful
  <2>5. InFlight' = InFlight
      BY <1>1, <1>3, <2>1, InFlightSame DEF RInv
  <2>6. KeptReads' \subseteq KeptReads
      BY <1>3 DEF KeptReads, RInv, ReadsOK
  <2>7. AllParts(history') = AllParts(history) /\ SameLedger(delivery, delivery')
      BY <1>1, <1>3 DEF SameLedger
  <2>. QED
      BY <1>3, <2>4, <2>5, <2>6, <2>7, SilentStep
<1>. QED
    BY <1>2, <1>3 DEF AdmitStart, TakenRead

LEMMA AdmitReturnsSound ==
    ASSUME RInv, Sound, NEW h \in Handler, AdmitReturns(h) PROVE Sound'
<1> DEFINE read == handler[h].read
           replaced == replaceLedger(delivery, AllParts(read.messages))
           current == [replaced EXCEPT !.needsRescan = FALSE]
           d == queuePendingRules(current, handler[h].rules)
           e == queuePendingRules(delivery, handler[h].rules)
           x == [handler[h] EXCEPT !.pc = "hooks"]
<1>1. /\ handler[h].pc = "admitReading"
      /\ UNCHANGED <<history, historyReads>>
    BY DEF AdmitReturns, At
<1>2. queue # <<>> /\ queue[1] = h
    BY <1>1, UnderWayIsFirst DEF Running
<1>3. handler[h].rules \subseteq Snapshots /\ DeliveryOK(delivery)
    BY HandlerNow DEF HandlerOK, RInv
<1>4. CASE delivery' = e /\ Moves(h, "hooks")
  <2>1. SameLedger(delivery, delivery')
      BY <1>3, <1>4, RulesQueued
  <2>2. Goes(h, x)
      BY <1>4 DEF Moves
  <2>3. x.pc = "hooks" /\ x.read = handler[h].read
      BY HandlerNow DEF HandlerFields
  <2> HIDE DEF x, e
  <2>. QED
      BY <1>1, <2>1, <2>2, <2>3, MoveSound
<1>5. CASE read.ok /\ Persists(h, d)
  <2>1. DeliveryOK(replaced) /\ replaced.seeded /\ Knows(replaced.ruleKeys, Given)
      BY <1>1, <1>5, FilledFromRead
  <2> HIDE DEF replaced
  <2>2. /\ DeliveryOK(current) /\ current.ruleKeys = replaced.ruleKeys
        /\ current.seeded = replaced.seeded /\ current.needsRescan = FALSE
      BY <2>1, FALSE \in BOOLEAN, Rescanned
  <2> HIDE DEF current
  <2>3. DeliveryOK(d) /\ SameLedger(current, d)
      BY <1>3, <2>2, RulesQueued
  <2> HIDE DEF d
  <2>4. d.seeded /\ ~ d.needsRescan /\ Knows(d.ruleKeys, Given)
      BY <2>1, <2>2, <2>3 DEF SameLedger
  <2>. QED
      BY <1>1, <1>2, <1>5, <2>3, <2>4, PersistsSound
<1>. QED
    BY <1>4, <1>5 DEF AdmitReturns

LEMMA RetryStartSound ==
    ASSUME RInv, Sound, NEW h \in Handler, RetryStart(h) PROVE Sound'
<1>1. /\ queue # <<>> /\ queue[1] = h /\ handler[h].pc = "queued" /\ handler[h].kind = "dispatch"
      /\ Persists(h, delivery) /\ UNCHANGED <<history, historyReads>>
    BY TakenFromTheQueue DEF RetryStart
<1>2. delivery.seeded
    BY <1>1, FaithfulNow DEF Faithful
<1>3. DeliveryOK(delivery) /\ ~ delivery.needsRescan /\ Knows(delivery.ruleKeys, Given)
    BY <1>2 DEF RInv, Sound
<1>. QED
    BY <1>1, <1>2, <1>3, PersistsSound

\* ... what is persisted, unless its answer is lost, ...
LEMMA PersistReturnsSound ==
    ASSUME RInv, Sound, NEW h \in Handler, NEW answer \in {"stored", "refused"},
           PersistReturns(h, answer)
    PROVE  Sound'
<1> DEFINE rules == handler[h].rules
           part == buildRuleAdmissionPart(keysOf(rules))
           next == Afterwards(h)
<1>1. /\ handler[h].pc = "persisting" /\ Goes(h, next)
      /\ UNCHANGED historyReads
    BY DEF PersistReturns, At
<1>2. /\ queue # <<>> /\ queue[1] = h
      /\ rules \subseteq Snapshots /\ rules # {}
    BY <1>1, UnderWayIsFirst, HandlerNow DEF Running, HandlerOK
<1>3. /\ delivery.seeded /\ ~ delivery.needsRescan
      /\ \A r \in rules : ~ hasDeliveryKey(delivery.ruleKeys, r)
    BY <1>1, FaithfulNow DEF Faithful, Sound
<1>4. /\ next.pc \in {"hooks", "idle"}
      /\ next.read \in {handler[h].read, NoRead}
  <2>1. next \in {[handler[h] EXCEPT !.pc = "hooks"], Idle}
      BY DEF Afterwards
  <2>2. /\ [handler[h] EXCEPT !.pc = "hooks"].pc = "hooks"
        /\ [handler[h] EXCEPT !.pc = "hooks"].read = handler[h].read
        /\ Idle.pc = "idle" /\ Idle.read = NoRead
      BY HandlerNow DEF HandlerFields, Idle
  <2>. QED
      BY <2>1, <2>2, Zenon
<1>5. \/ UNCHANGED <<history, delivery>>
      \/ HostStoresAdmission(rules) /\ delivery' = afterPersist(delivery, rules)
    BY DEF PersistReturns
<1> HIDE DEF next
<1>6. CASE UNCHANGED <<history, delivery>>
  <2>1. SameLedger(delivery, delivery')
      BY <1>6 DEF SameLedger
  <2>. QED
      BY <1>1, <1>4, <1>6, <2>1, MoveSound
<1>7. CASE HostStoresAdmission(rules) /\ delivery' = afterPersist(delivery, rules)
  <2>1. /\ delivery'.ruleKeys = delivery.ruleKeys \union keysOf(rules)
        /\ delivery'.seeded = delivery.seeded /\ delivery'.needsRescan = delivery.needsRescan
      BY <1>2, <1>7, RulesPersisted DEF RInv
  <2>2. AllParts(history') \subseteq AllParts(history) \union {part}
      BY <1>2, <1>7, AdmissionStored
  <2>3. InFlight' = InFlight
      BY <1>1, <1>4, InFlightSame DEF RInv
  <2>4. Given' \subseteq Given \union {part}
      BY <2>2, <2>3 DEF Given
  <2>5. part.rules = keysOf(rules) /\ part.kind # "transient"
      BY DEF buildRuleAdmissionPart
  <2> HIDE DEF part
  <2>6. Knows(delivery.ruleKeys \union keysOf(rules), Given') /\ EachOnce(Given')
    <3>1. Knows(delivery.ruleKeys, Given) /\ EachOnce(Given) /\ AtMostOne({part})
        BY <1>3 DEF Sound, AtMostOne
    <3>2. \A p \in {part} : p.kind # "transient" /\ p.rules = keysOf(rules)
        BY <2>5
    <3>. QED
        BY <1>2, <1>3, <2>4, <3>1, <3>2, SentOnce
  <2>7. Knows(delivery'.ruleKeys, Given')
      BY <2>1, <2>6
  <2>8. KeptReads' = KeptReads
      BY <1>1 DEF KeptReads
  <2>9. Alone(h)
      BY <1>2 DEF Alone
  <2>10. delivery'.seeded /\ ~ delivery'.needsRescan
      BY <1>3, <2>1
  <2>11. Faithful(next, AllParts(history'), InFlight', delivery'.seeded,
                  delivery'.needsRescan, delivery'.ruleKeys)
      BY <1>4, <2>10, RestingIsFaithful
  <2>. QED
      BY <1>1, <2>6, <2>7, <2>8, <2>9, <2>10, <2>11, SoundStep
<1>. QED
    BY <1>5, <1>6, <1>7

\* ... and a dispatch.
LEMMA DispatchDeliversSound ==
    ASSUME RInv, Sound, NEW h \in Handler, NEW tools, DispatchDelivers(h, tools) PROVE Sound'
<1> DEFINE sent == handler[h].read.messages
           current == beforeDispatch(delivery, AllParts(sent), TurnId(sent))
           matched == matchesWithLifetime(Snapshots,
                         Context(extractLatestUserPrompt(sent), tools), "ephemeral")
           rules   == keysOf(dispatchRules(current, matched))
           hooks   == keysOf(dispatchHooks(current))
           out     == IF rules \union hooks = {} THEN {}
                      ELSE {buildTransientDeliveryMessage(rules, hooks)}
           x       == [handler[h] EXCEPT !.read = NoRead, !.output = out]
           next    == [x EXCEPT !.pc = "queued"]
<1>1. /\ handler[h].pc = "matching" /\ handler[h].kind = "dispatch"
      /\ delivery' = afterDispatch(current, matched) /\ Goes(h, next)
      /\ UNCHANGED <<history, historyReads>>
    BY DEF DispatchDelivers, At, Enqueues
<1>2. PartsAreKnown(AllParts(sent)) /\ DeliveryOK(delivery)
    BY HandlerNow, ReadIsKnown DEF HandlerOK, RInv
<1>3. Begun(delivery, AllParts(sent), current)
  <2> DEFINE parts == AllParts(sent)
             turnId == TurnId(sent)
  <2>1. current = beforeDispatch(delivery, parts, turnId) /\ PartsAreKnown(parts)
      BY <1>2
  <2> HIDE DEF current, parts, turnId
  <2>2. Begun(delivery, parts, current)
      BY <1>2, <2>1, DispatchBegun
  <2>. QED
      BY <2>2 DEF parts
<1>4. next.kind = "dispatch" /\ next.pc = "queued" /\ next.read = NoRead
    BY <1>1, HandlerNow DEF HandlerFields
<1> HIDE DEF current, matched, next
<1>5. SameLedger(current, delivery')
    BY <1>1, <1>3, DispatchMade DEF Begun
<1>6. InFlight' = InFlight
    BY <1>1, <1>4, InFlightSame DEF RInv
<1>7. Given' = Given /\ AllParts(history') = AllParts(history) /\ KeptReads' = KeptReads
    BY <1>1, <1>6 DEF Given, AllParts, KeptReads
<1>8. delivery'.seeded /\ ~ delivery'.needsRescan /\ delivery'.ruleKeys = current.ruleKeys
    BY <1>3, <1>5 DEF Begun, SameLedger
<1>9. Knows(current.ruleKeys, Given) /\ (delivery.seeded => current.ruleKeys = delivery.ruleKeys)
  <2>1. CASE delivery.seeded
      BY <1>3, <2>1 DEF Begun, Sound
  <2>2. CASE ~ delivery.seeded
    <3>1. InFlight = {} /\ Says(handler[h].read, AllParts(history)) /\ handler[h].read.ok
        BY <1>1, <2>2, FaithfulNow DEF Sound, Faithful
    <3>2. AllParts(sent) = Given
        BY <3>1 DEF Says, Given
    <3>3. Knows(decodeRawHistory(Given).ruleKeys, Given)
        BY FilledKnows DEF Sound
    <3>. QED
        BY <1>3, <2>2, <3>2, <3>3 DEF Begun
  <2>. QED
      BY <2>1, <2>2
<1>10. Alone(h)
    BY <1>6, <1>7, <1>8, <1>9 DEF Alone
<1>11. Faithful(next, AllParts(history'), InFlight', delivery'.seeded,
                delivery'.needsRescan, delivery'.ruleKeys)
    BY <1>4, <1>8 DEF Faithful
<1>12. EachOnce(Given') /\ Knows(delivery'.ruleKeys, Given')
    BY <1>7, <1>8, <1>9 DEF Sound
<1>. QED
    BY <1>1, <1>7, <1>8, <1>10, <1>11, <1>12, SoundStep

-----------------------------------------------------------------------------
(* Nothing twice: the invariant.                                           *)
\* What disturbs is never undone.
Calmer ==
    /\ invalidations' = invalidations /\ removing' = removing
    /\ counted'.lost >= counted.lost /\ counted'.evictions >= counted.evictions
    /\ counted'.rescans >= counted.rescans

\* What was disturbed stays so.
LEMMA CalmBefore ==
    ASSUME RInv, Calmer, Undisturbed' PROVE Undisturbed
BY DEF Calmer, Undisturbed, RInv, CountedOK

\* A step that counts a failure or none disturbs nothing less.
LEMMA CountedSteps ==
    ASSUME RInv, NEW f \in DOMAIN counted, NEW k \in Nat, counted' = [counted EXCEPT ![f] = @ + k],
           UNCHANGED <<invalidations, removing>>
    PROVE  Calmer
<1>1. \A g \in DOMAIN counted : counted[g] \in Nat /\ counted'[g] \in Nat /\ counted'[g] >= counted[g]
    BY DEF RInv, CountedOK
<1>2. {"lost", "evictions", "rescans"} \subseteq DOMAIN counted
    BY DEF RInv, CountedOK
<1>. QED
    BY <1>1, <1>2 DEF Calmer

\* Neither does one that counts nothing.
LEMMA CountedStays ==
    ASSUME RInv, UNCHANGED <<invalidations, removing, counted>> PROVE Calmer
BY DEF Calmer, RInv, CountedOK

\* So it is with what starts ...
LEMMA StartsAreCalm ==
    ASSUME RInv, NEW h \in Handler, Starts(h) PROVE Calmer
<1>0. /\ {"messages", "calls", "dispatches"} \subseteq DOMAIN counted /\ 1 \in Nat
    BY DEF RInv, CountedOK
<1>1. ASSUME NEW prompt, NEW files, NEW ok, ChatMessage(h, prompt, files, ok) PROVE Calmer
  <2>1. counted' = [counted EXCEPT !["messages"] = @ + 1] /\ UNCHANGED <<invalidations, removing>>
      BY <1>1 DEF ChatMessage
  <2>. QED
      BY <1>0, <2>1, CountedSteps
<1>2. ASSUME NEW call, NEW tools, ToolAfter(h, call) \/ ToolBefore(h, call, tools) PROVE Calmer
  <2>1. counted' = [counted EXCEPT !["calls"] = @ + 1] /\ UNCHANGED <<invalidations, removing>>
      BY <1>2 DEF ToolAfter, ToolBefore
  <2>. QED
      BY <1>0, <2>1, CountedSteps
<1>3. CASE Dispatch(h)
  <2>1. counted' = [counted EXCEPT !["dispatches"] = @ + 1] /\ UNCHANGED <<invalidations, removing>>
      BY <1>3 DEF Dispatch
  <2>. QED
      BY <1>0, <2>1, CountedSteps
<1>. QED
    BY <1>1, <1>2, <1>3 DEF Starts

\* ... and with what continues.
LEMMA ContinuesIsCalm ==
    ASSUME RInv, NEW h \in Handler, Continues(h) PROVE Calmer
<1>1. CASE UNCHANGED <<invalidations, removing, counted>>
    BY <1>1, CountedStays
<1>2. CASE TurnReturns(h)
  <2>1. UNCHANGED <<invalidations, removing>>
      BY <1>2 DEF TurnReturns
  <2>2. counted' = counted \/ counted' = [counted EXCEPT !["rescans"] = @ + 1]
      BY <1>2 DEF TurnReturns
  <2>3. "rescans" \in DOMAIN counted /\ 1 \in Nat
      BY DEF RInv, CountedOK
  <2>. QED
      BY <2>1, <2>2, <2>3, CountedStays, CountedSteps
<1>3. ASSUME NEW answer, PersistReturns(h, answer) PROVE Calmer
  <2>1. UNCHANGED <<invalidations, removing>>
      BY <1>3 DEF PersistReturns
  <2>2. PICK k \in {0, 1} : counted' = [counted EXCEPT !["lost"] = @ + k]
      BY <1>3 DEF PersistReturns
  <2>3. "lost" \in DOMAIN counted
      BY DEF RInv, CountedOK
  <2>. QED
      BY <2>1, <2>2, <2>3, CountedSteps
<1>4. ASSUME NEW tools, MatchTurn(h, tools) \/ MatchObservation(h, tools) \/ AfterHooks(h, tools)
                          \/ DispatchDelivers(h, tools)
      PROVE  UNCHANGED <<invalidations, removing, counted>>
    BY <1>4 DEF MatchTurn, MatchObservation, AfterHooks, DispatchDelivers
<1>5. ASSUME NEW ok, TurnStart(h, ok) \/ AdmitStart(h, ok)
      PROVE  UNCHANGED <<invalidations, removing, counted>>
    BY <1>5 DEF TurnStart, AdmitStart
<1>6. ASSUME prepareDurableTurn(h) \/ HostStoresMessage(h) \/ AdmitReturns(h) \/ RetryStart(h)
      PROVE  UNCHANGED <<invalidations, removing, counted>>
    BY <1>6 DEF prepareDurableTurn, HostStoresMessage, AdmitReturns, RetryStart
<1>. QED
    BY <1>1, <1>2, <1>3, <1>4, <1>5, <1>6 DEF Continues

\* Sound is kept by what starts ...
LEMMA StartsAreSound ==
    ASSUME RInv, Sound, NEW h \in Handler, Starts(h) PROVE Sound'
BY ChatMessageSound, ToolAfterSound, ToolBeforeSound, DispatchSound DEF Starts

\* ... and, undisturbed, by what continues, ...
LEMMA ContinuesIsSound ==
    ASSUME RInv, Sound, NEW h \in Handler, Continues(h), Undisturbed, Undisturbed' PROVE Sound'
<1>1. ASSUME PersistReturns(h, "lost") PROVE FALSE
  <2>1. counted'.lost = counted.lost + 1
      BY <1>1 DEF PersistReturns, RInv, CountedOK
  <2>. QED
      BY <2>1 DEF Undisturbed
<1>2. ASSUME NEW answer \in {"stored", "refused", "lost"}, PersistReturns(h, answer) PROVE Sound'
    BY <1>1, <1>2, PersistReturnsSound
<1>. QED
    BY <1>2, PrepareSound, TurnStartSound, AdmitStartSound, TurnReturnsSound,
       HostStoresMessageSound, MatchTurnSound, MatchObservationSound, AfterHooksSound,
       DispatchDeliversSound, AdmitReturnsSound, RetryStartSound DEF Continues

\* ... so by every step ...
LEMMA SoundStays ==
    ASSUME RInv, UInv, [RulesNext]_rulesVars PROVE UInv'
<1>1. SUFFICES ASSUME Undisturbed' PROVE Sound'
    BY DEF UInv
<1>2. CASE UNCHANGED rulesVars
  <2>1. UNCHANGED <<history, removing, historyReads, delivery, handler, counted, invalidations>>
      BY <1>2 DEF rulesVars
  <2>2. Sound
      BY <1>1, <2>1 DEF UInv, Undisturbed
  <2>. QED
      BY <2>1, <2>2 DEF Sound, InFlight, At, KeptReads, Given, AllParts
<1>3. ASSUME NEW h \in Handler, Starts(h) PROVE Sound'
    BY <1>1, <1>3, StartsAreCalm, CalmBefore, StartsAreSound DEF UInv
<1>4. ASSUME NEW h \in Handler, Continues(h) PROVE Sound'
    BY <1>1, <1>4, ContinuesIsCalm, CalmBefore, ContinuesIsSound DEF UInv
<1>5. ASSUME NEW n \in 0 .. Len(history), SessionCompacting(n) PROVE FALSE
    BY <1>1, <1>5 DEF SessionCompacting, Undisturbed, RInv, ReadsOK
<1>6. ASSUME NEW i \in DOMAIN history, HostRemoves(i) PROVE FALSE
    BY <1>1, <1>6 DEF HostRemoves, Undisturbed
<1>7. ASSUME MessageRemoved PROVE FALSE
    BY <1>1, <1>7 DEF MessageRemoved, Undisturbed, RInv, ReadsOK
<1>8. ASSUME Evict PROVE FALSE
  <2>1. counted'.evictions = counted.evictions + 1 /\ counted.evictions \in Nat
      BY <1>8 DEF Evict, RInv, CountedOK
  <2>. QED
      BY <1>1, <2>1 DEF Undisturbed
<1>. QED
    BY <1>2, <1>3, <1>4, <1>5, <1>6, <1>7, <1>8 DEF RulesNext

\* ... from the start.
LEMMA StartsSound ==
    ASSUME RulesInit PROVE UInv
<1>1. /\ history \in Histories /\ delivery = FreshDelivery
      /\ historyReads = [revision |-> 0, prefetch |-> {}, inFlight |-> {}]
      /\ handler = [h \in Handler |-> Idle]
    BY DEF RulesInit
<1>2. /\ \A h \in Handler : handler[h] = Idle
      /\ Idle.pc = "idle"
    BY <1>1 DEF Idle
<1>3. InFlight = {}
    BY <1>2 DEF InFlight, At
<1>4. EachOnce(AllParts(history))
    BY <1>1, HistoriesAssumption DEF EachOnce
<1>5. Given = AllParts(history) /\ KeptReads = {}
    BY <1>1, <1>3 DEF Given, KeptReads
<1>6. ~ delivery.seeded /\ ~ delivery.needsRescan
    BY <1>1 DEF FreshDelivery
<1>7. \A h \in Handler :
        Faithful(handler[h], AllParts(history), InFlight, delivery.seeded,
                 delivery.needsRescan, delivery.ruleKeys)
    BY <1>2, NoReadSays, RestingIsFaithful
<1>. QED
    BY <1>3, <1>4, <1>5, <1>6, <1>7 DEF UInv, Sound

-----------------------------------------------------------------------------
(* The theorems.                                                           *)
LEMMA CardinalityOfAtMostOne ==
    ASSUME NEW S, AtMostOne(S) PROVE Cardinality(S) <= 1
<1>1. CASE S = {}
    BY <1>1, FS_EmptySet
<1>2. CASE S # {}
  <2>1. PICK a \in S : S = {a}
      BY <1>2 DEF AtMostOne
  <2>2. Cardinality({a}) = 1
      BY FS_Singleton
  <2>. QED
      BY <2>1, <2>2
<1>. QED
    BY <1>1, <1>2

\* The hooks that the properties speak of are those of the queues.
LEMMA QueuedHooksAreQueued == QueuedHooks = QueuesOf(delivery)
BY DEF QueuedHooks, QueuesOf

\* The invariant gives each part of the property.
LEMMA WellTyped ==
    ASSUME RInv PROVE RulesTypeOK
<1>1. DOMAIN handler = Handler
    BY DEF RInv, HandlersOK
<1>2. /\ delivery.ruleKeys \union delivery.hookKeys \subseteq KnownKeys
      /\ delivery.pendingRules \union QueuedHooks \subseteq Snapshots
    BY QueuedHooksAreQueued DEF RInv, DeliveryOK
<1>3. AtMostOne(historyReads.prefetch) /\ AtMostOne(historyReads.inFlight)
    BY DEF RInv, ReadsOK
<1>. QED
    BY <1>1, <1>2, <1>3, CardinalityOfAtMostOne DEF RulesTypeOK

LEMMA MovesOn ==
    ASSUME RInv PROVE QueueMoves
<1> DEFINE running == {h \in Handler : handler[h].pc \in {"turnReading", "admitReading", "persisting"}}
           waiting == {h \in Handler : At(h, "queued")}
<1>1. DOMAIN queue = 1 .. Len(queue) /\ \A i \in 1 .. Len(queue) : queue[i] \in Handler
    BY DEF RInv, QueueOK
<1>2. ToSet(queue) = running \union waiting
  <2>1. \A h \in Handler : h \in running \union waiting <=> handler[h].pc \in Running \union {"queued"}
      BY DEF Running, At
  <2>2. \A h : h \in ToSet(queue) <=> \E i \in 1 .. Len(queue) : queue[i] = h
      BY <1>1 DEF ToSet
  <2>3. \A h \in Handler : h \in ToSet(queue) <=> h \in running \union waiting
      BY <2>1, <2>2 DEF RInv, QueueOK
  <2>4. ToSet(queue) \subseteq Handler
      BY <1>1 DEF ToSet
  <2>. QED
      BY <2>3, <2>4
<1>3. ASSUME NEW h \in running
      PROVE  h \in {queue[i] : i \in {1} \intersect DOMAIN queue}
  <2>1. queue # <<>> /\ queue[1] = h
      BY <1>3 DEF RInv, QueueOK, Running
  <2>2. 1 \in DOMAIN queue
      BY <2>1 DEF RInv, QueueOK
  <2>. QED
      BY <2>1, <2>2
<1>. QED
    BY <1>2, <1>3 DEF QueueMoves

LEMMA LedgerBacked ==
    ASSUME RInv PROVE LedgerIsBacked
BY DEF RInv, Backed, LedgerIsBacked, StoredOrInFlight, Given

LEMMA PrefetchCurrent ==
    ASSUME RInv PROVE PrefetchHoldsNothingRemoved
<1>1. SUFFICES ASSUME ~ removing, NEW r \in historyReads.prefetch, NEW m \in ToSet(r.messages)
               PROVE  m \in ToSet(history)
    BY DEF PrefetchHoldsNothingRemoved
<1>2. ReadOK(r, invalidations, removing, ToSet(history)) /\ r.asOf = invalidations
    BY <1>1 DEF RInv, ReadsOK
<1>. QED
    BY <1>1, <1>2 DEF ReadOK

LEMMA StoredOnce ==
    ASSUME UInv PROVE NothingTwice
<1>1. SUFFICES ASSUME Undisturbed, NEW rule \in Snapshots
               PROVE  Cardinality({p \in AllParts(history) : Names(p, rule)}) <= 1
    BY DEF NothingTwice, Undisturbed
<1>2. EachOnce(Given)
    BY <1>1 DEF UInv, Sound
<1>3. AtMostOne({p \in AllParts(history) : Names(p, rule)})
    BY <1>2 DEF EachOnce, AtMostOne, Given
<1>. QED
    BY <1>3, CardinalityOfAtMostOne

(* For any rules, messages, tool calls and histories: the ledger counts    *)
(* only what is in the history or on its way there, no rule is stored in   *)
(* it twice while nothing is removed or lost, a kept read holds nothing    *)
(* that is gone, and the queue of the session never sticks                 *)
(* (rule-delivery.ts, session-working-context.ts, runtime.ts).             *)
THEOREM RulesAlwaysReachTheModelOnce == RulesSpec => []RulesReachTheModelOnce
<1>1. RulesInit => RInv /\ UInv
    BY RulesStartWell, StartsSound
<1>2. RInv /\ UInv /\ [RulesNext]_rulesVars => (RInv /\ UInv)'
    BY RulesStep, SoundStays
<1>3. RInv /\ UInv => RulesReachTheModelOnce
    BY WellTyped, MovesOn, LedgerBacked, PrefetchCurrent, StoredOnce
       DEF RulesReachTheModelOnce
<1>. QED
    BY <1>1, <1>2, <1>3, PTL DEF RulesSpec

(* No step of a turn takes over a read that an invalidation has overtaken, *)
(* and none drops the content of a hook (rule-delivery.ts:173-190).        *)
THEOREM TurnsNeverForget == RulesSpec => TurnsForgetNothing
<1>1. ASSUME RInv, [RulesNext]_rulesVars
      PROVE  /\ \A h \in Handler :
                  /\ At(h, "turnReading") /\ handler'[h].pc # "turnReading"
                  /\ delivery'.revision # delivery.revision
                  => ~ overtaken'
             /\ delivery' # FreshDelivery =>
                  \A rule \in QueuedHooks \ QueuedHooks' :
                     \/ hasDeliveryKey(delivery'.hookKeys, rule)
                     \/ hasDeliveryKey(delivery'.turn.hooks, rule)
  <2>1. StepKeeps
      BY <1>1, RulesStep
  <2>2. QueuedHooks = QueuesOf(delivery) /\ QueuedHooks' = QueuesOf(delivery')
      BY DEF QueuedHooks, QueuesOf
  <2>. QED
      BY <2>1, <2>2 DEF StepKeeps, HooksKept
<1>2. RulesInit => RInv
    BY RulesStartWell
<1>3. RInv /\ [RulesNext]_rulesVars => RInv'
    BY RulesStep
<1>. QED
    BY <1>1, <1>2, <1>3, PTL DEF RulesSpec, TurnsForgetNothing, TurnReadsAreCurrent,
       HooksLeaveDelivered
=============================================================================
