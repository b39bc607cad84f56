---------------------------- MODULE RulesRuntime ----------------------------
(***************************************************************************)
(* Rules at work in one session (src/rules/runtime.ts,                     *)
(* session-working-context.ts, file-observation-context.ts,                *)
(* runtime-chat.ts): the handlers of the host's hooks, the reads of the    *)
(* history they share, the ledger of RuleDelivery and the queue that lets  *)
(* one of its asynchronous operations run at a time.                       *)
(*                                                                         *)
(* A handler is one call of a hook by the host.  Between two of its steps  *)
(* it awaits: a read of the history, the list of tools, the store of an    *)
(* admission, its turn in the queue.  The history is external: it is what  *)
(* the client reads and what a dispatch is given.  A compaction drops the  *)
(* oldest of its messages, and is over when its hook returns; the event of *)
(* a removed message comes some time after the removal.                    *)
(***************************************************************************)
EXTENDS Naturals, Sequences, RuleMatching, RuleDelivery

CONSTANTS
    Handler,          \* calls of hooks that may be under way at once
    Serves,           \* per handler: the hooks whose calls it stands for
    Snapshots,        \* the rules of the session
    UserMessages,     \* the identifiers of the messages the user sends, in order
    Prompts,          \* the texts they may have
    Mentioned,        \* the sets of files they may mention
    Calls,            \* tool calls: [tool, args, files]
    ToolLists,        \* what the host may answer when asked for its tools
    Histories,        \* what the session may hold at the start
    MaxCalls,         \* bound: tool calls
    MaxDispatches,    \* bound: requests sent to the model
    MaxInvalidations, \* bound: compactions and removals
    MaxMishaps        \* bound: evictions of the state, and answers lost

ASSUME HandlerAssumption == 
    /\ IsFiniteSet(Handler)
    /\ Serves \in [Handler -> SUBSET {"chat", "before", "after", "dispatch"}]
ASSUME RulesBoundAssumption ==
    {MaxCalls, MaxDispatches, MaxInvalidations, MaxMishaps} \subseteq Nat

\* The identity of a rule is its own: no other has it as identity or path.
ASSUME SnapshotsAssumption ==
    \A r, s \in Snapshots : r.identity \in {s.identity, s.path} => r = s

AllParts(messages) == UNION {m.parts : m \in ToSet(messages)}
\* A part of a message names a rule by its identity, or as older ones did by its path.
Names(part, rule) == {rule.identity, rule.path} \intersect part.rules # {}

(* What the session holds when it is resumed names a rule once, and holds  *)
(* no part of a request, which the host never stores.                      *)
ASSUME HistoriesAssumption ==
    \A old \in Histories : \A p \in AllParts(old) :
       /\ p.kind # "transient"
       /\ \A rule \in Snapshots, q \in AllParts(old) :
             Names(p, rule) /\ Names(q, rule) => p = q

(* The identifier of an admission is a digest of the keys it carries: the  *)
(* user's messages have other ones, and a message that has it when the     *)
(* session is resumed is that admission.                                   *)
AdmissionIds == {keysOf(rules) : rules \in (SUBSET Snapshots) \ {{}}}

ASSUME MessagesAssumption ==
    /\ UserMessages \in Seq(ToSet(UserMessages))
    /\ ToSet(UserMessages) \intersect AdmissionIds = {}
    /\ \A old \in Histories : old \in Seq(ToSet(old))
    /\ \A old \in Histories : \A m \in ToSet(old) :
          m.id \in AdmissionIds => buildRuleAdmissionPart(m.id) \in m.parts

VARIABLES
    history,       \* external: the messages [id, parts, files, prompt]
    removing,      \* external: a removal whose event has not come
    store,         \* SessionState: paths, workingContextSeeded, lastUserPrompt
    observations,  \* FileObservationContext
    historyReads,  \* historyRevisions, pendingHistoryPrefetch, inFlightReads
    delivery,      \* DeliveryState
    queue,         \* the handlers whose operation waits or runs, in order
    handler,       \* per handler: what it does and what it has read
    counted,       \* how many messages, calls, dispatches, evictions, lost answers;
                   \* history: turns that read in vain and asked for a rescan of a
                   \* ledger which a dispatch had brought up to date meanwhile
    invalidations, \* history: compactions and removals the plugin was told of
    overtaken      \* history: the ledger is built on a read from before the last of them

rulesVars == <<history, removing, store, observations, historyReads, delivery,
               queue, handler, counted, invalidations, overtaken>>

AllFiles(messages) == UNION {m.files : m \in ToSet(messages)}
TurnId(messages) == messages[Len(messages)].id

extractLatestUserPrompt(messages) ==
    LET said == SelectSeq(messages, LAMBDA m : m.prompt # <<>>)
    IN  IF said = <<>> THEN <<>> ELSE said[Len(said)].prompt

NoRead == [revision |-> 0, ok |-> FALSE, messages |-> <<>>, asOf |-> 0]
Idle == [kind |-> "none", pc |-> "idle", message |-> {}, prompt |-> <<>>,
         files |-> {}, call |-> <<>>, read |-> NoRead, ledger |-> 0,
         rules |-> {}, output |-> {}]

RulesInit ==
    /\ history \in Histories
    /\ removing = FALSE
    /\ store = [paths |-> {}, seeded |-> FALSE, prompt |-> <<>>]
    /\ observations = {}
    /\ historyReads = [revision |-> 0, prefetch |-> {}, inFlight |-> {}]
    /\ delivery = FreshDelivery
    /\ queue = <<>>
    /\ handler = [h \in Handler |-> Idle]
    /\ counted = [messages |-> 0, calls |-> 0, dispatches |-> 0,
                evictions |-> 0, lost |-> 0, rescans |-> 0]
    /\ invalidations = 0
    /\ overtaken = FALSE

-----------------------------------------------------------------------------
At(h, pc) == handler[h].pc = pc
Free(h, kind) == At(h, "idle") /\ kind \in Serves[h]
Goes(h, next) == handler' = [handler EXCEPT ![h] = next]
Moves(h, pc) == Goes(h, [handler[h] EXCEPT !.pc = pc])
Leaves(h) == Goes(h, Idle)

Enqueues(h, next) == queue' = Append(queue, h) /\ Goes(h, [next EXCEPT !.pc = "queued"])
Runs(h, kind) == queue # <<>> /\ Head(queue) = h /\ At(h, "queued")
                    /\ handler[h].kind = kind
Ends == queue' = Tail(queue)

Context(prompt, tools) ==
    buildRuleMatchContext(observations, prompt, tools, {"model"}, {"agent"},
                          {"node"}, {"main"}, FALSE)

\* A call of session.messages: what it answers is what the history holds now.
readHistory(ok) ==
    [revision |-> historyReads.revision, ok |-> ok, asOf |-> invalidations,
     messages |-> IF ok THEN history ELSE <<>>]

-----------------------------------------------------------------------------
(* chat.message.  An admission comes back through this hook and is left    *)
(* alone; so is a message that is not the user's.                          *)
ChatMessage(h, prompt, files, ok) ==
    /\ Free(h, "chat") /\ counted.messages < Len(UserMessages)
    /\ LET message == UserMessages[counted.messages + 1]
           reading == ~ store.seeded
           read    == IF historyReads.inFlight # {}
                      THEN CHOOSE r \in historyReads.inFlight : TRUE
                      ELSE readHistory(ok)
       IN  /\ store' = [store EXCEPT !.paths = @ \union files,
                          !.prompt = IF prompt = <<>> THEN @ ELSE prompt]
           /\ historyReads' = IF reading
                              THEN [historyReads EXCEPT !.inFlight = {read}]
                              ELSE historyReads
           /\ Goes(h, [Idle EXCEPT !.kind = "chat", !.message = message,
                         !.prompt = prompt, !.files = files,
                         !.pc   = IF reading THEN "preparing" ELSE "matching",
                         !.read = IF reading THEN read ELSE NoRead])
    /\ counted' = [counted EXCEPT !.messages = @ + 1]
    /\ UNCHANGED <<history, removing, observations, delivery, queue,
                   invalidations, overtaken>>

(* prepareDurableTurn, when the shared read is back: a read from before an *)
(* invalidation neither seeds the working context nor is kept.             *)
prepareDurableTurn(h) ==
    /\ At(h, "preparing")
    /\ LET read == handler[h].read
           used == read.revision = historyReads.revision /\ ~ store.seeded
       IN  /\ historyReads' =
                [historyReads EXCEPT
                   !.inFlight = @ \ {read},
                   !.prefetch = IF used THEN {read} ELSE @]
           /\ store' = IF used /\ read.ok
                       THEN [store EXCEPT !.paths = @ \union AllFiles(read.messages),
                                          !.seeded = TRUE]
                       ELSE store
    /\ Moves(h, "matching")
    /\ UNCHANGED <<history, removing, observations, delivery, queue, counted,
                   invalidations, overtaken>>

MatchTurn(h, tools) ==
    /\ At(h, "matching") /\ handler[h].kind = "chat"
    /\ LET prompt  == handler[h].prompt
           matched == IF prompt = <<>> THEN {}
                      ELSE matchesWithLifetime(Snapshots, Context(prompt, tools),
                                               "durable")
       IN  Enqueues(h, [handler[h] EXCEPT !.rules = matched])
    /\ UNCHANGED <<history, removing, store, observations, historyReads,
                   delivery, counted, invalidations, overtaken>>

(* deliverDurable: the end of the turn, once the ledger can be used.       *)
Accepts(h, d) ==
    LET routed == routePendingHooks(d)
    IN  /\ delivery' = afterTurn(routed, handler[h].rules)
        /\ Goes(h, [handler[h] EXCEPT !.pc = "answered", !.output =
                      turnPart(routed, handler[h].rules, handler[h].message)])
        /\ Ends

\* Mutant: a deferred turn does not let the next operation run.
HoldsQueue(h, d) == delivery' = d /\ Moves(h, "answered") /\ UNCHANGED queue

Defers(h, d) == delivery' = d /\ Moves(h, "answered") /\ Ends

TurnStart(h, ok) ==
    /\ Runs(h, "chat")
    /\ \/ /\ delivery.needsRescan
          /\ Defers(h, delivery)
          /\ UNCHANGED historyReads
       \/ /\ ~ delivery.needsRescan /\ delivery.seeded
          /\ Accepts(h, delivery)
          /\ UNCHANGED historyReads
       \/ /\ ~ delivery.needsRescan /\ ~ delivery.seeded
          /\ Goes(h, [handler[h] EXCEPT !.pc = "turnReading",
                        !.ledger = delivery.revision,
                        !.read = IF historyReads.prefetch # {}
                                 THEN CHOOSE r \in historyReads.prefetch : TRUE
                                 ELSE readHistory(ok)])
          /\ historyReads' = [historyReads EXCEPT !.prefetch = {}]
          /\ UNCHANGED <<delivery, queue>>
    /\ UNCHANGED <<history, removing, store, observations, counted,
                   invalidations, overtaken>>

\* Mutant: the revision is not compared.
NeverOvertaken(h) == FALSE

OvertakenRead(h) == delivery.revision # handler[h].ledger

TurnReturns(h) ==
    /\ At(h, "turnReading")
    /\ LET read == handler[h].read
       IN  \/ /\ ~ read.ok
              /\ Defers(h, [delivery EXCEPT !.needsRescan = TRUE])
              /\ counted' = IF delivery.seeded
                            THEN [counted EXCEPT !.rescans = @ + 1] ELSE counted
              /\ UNCHANGED overtaken
           \/ /\ read.ok /\ OvertakenRead(h)
              /\ Defers(h, delivery)
              /\ UNCHANGED <<counted, overtaken>>
           \/ /\ read.ok /\ ~ OvertakenRead(h)
              /\ Accepts(h, replaceLedger(delivery, AllParts(read.messages)))
              /\ overtaken' = (read.asOf # invalidations)
              /\ UNCHANGED counted
    /\ UNCHANGED <<history, removing, store, observations, historyReads,
                   invalidations>>

\* External: the hooks are through, and the host stores the message.
HostStoresMessage(h) ==
    /\ At(h, "answered")
    /\ history' = Append(history, [id    |-> handler[h].message,
                                   parts |-> handler[h].output,
                                   files |-> handler[h].files,
                                   prompt |-> handler[h].prompt])
    /\ Leaves(h)
    /\ UNCHANGED <<removing, store, observations, historyReads, delivery, queue,
                   counted, invalidations, overtaken>>

-----------------------------------------------------------------------------
(* tool.execute.after observes the files of the call, offers the rules     *)
(* they match for admission, and queues the contents of hooks.             *)
ToolAfter(h, call) ==
    /\ Free(h, "after") /\ counted.calls < MaxCalls
    /\ observations' = observations \union call.files
    /\ store' = [store EXCEPT !.paths = @ \union {f.path : f \in call.files}]
    /\ Goes(h, [Idle EXCEPT !.kind = "after", !.call = call,
                  !.pc = IF call.files = {} THEN "hooks" ELSE "matching"])
    /\ counted' = [counted EXCEPT !.calls = @ + 1]
    /\ UNCHANGED <<history, removing, historyReads, delivery, queue,
                   invalidations, overtaken>>

MatchObservation(h, tools) ==
    /\ At(h, "matching") /\ handler[h].kind = "after"
    /\ LET matched == matchesWithLifetime(
                         {r \in Snapshots : hasFileObservationFamily(r)},
                         Context(store.prompt, tools), "durable")
       IN  \/ /\ matched = {}
              /\ Moves(h, "hooks")
              /\ UNCHANGED queue
           \/ /\ matched # {}
              /\ Enqueues(h, [handler[h] EXCEPT !.rules = matched])
    /\ UNCHANGED <<history, removing, store, observations, historyReads,
                   delivery, counted, invalidations, overtaken>>

Afterwards(h) ==
    IF handler[h].kind = "after" THEN [handler[h] EXCEPT !.pc = "hooks"] ELSE Idle

(* persistPendingRules: what already is in the ledger is dropped, the rest *)
(* is offered to the host.                                                 *)
Persists(h, d) ==
    \/ /\ toPersist(d) = {}
       /\ delivery' = [d EXCEPT !.pendingRules = {}]
       /\ Goes(h, Afterwards(h))
       /\ Ends
    \/ /\ toPersist(d) # {}
       /\ delivery' = d
       /\ Goes(h, [handler[h] EXCEPT !.pc = "persisting", !.rules = toPersist(d)])
       /\ UNCHANGED queue

AdmitStart(h, ok) ==
    /\ Runs(h, "after")
    /\ \/ /\ delivery.seeded /\ ~ delivery.needsRescan
          /\ Persists(h, queuePendingRules(delivery, handler[h].rules))
          /\ UNCHANGED historyReads
       \/ /\ ~ delivery.seeded \/ delivery.needsRescan
          /\ Goes(h, [handler[h] EXCEPT !.pc = "admitReading",
                        !.read = IF historyReads.prefetch # {}
                                 THEN CHOOSE r \in historyReads.prefetch : TRUE
                                 ELSE readHistory(ok)])
          /\ historyReads' = [historyReads EXCEPT !.prefetch = {}]
          /\ UNCHANGED <<delivery, queue>>
    /\ UNCHANGED <<history, removing, store, observations, counted,
                   invalidations, overtaken>>

\* Unlike a turn, an admission uses its read whatever happened meanwhile.
AdmitReturns(h) ==
    /\ At(h, "admitReading")
    /\ LET read == handler[h].read
           current == [replaceLedger(delivery, AllParts(read.messages))
                         EXCEPT !.needsRescan = FALSE]
       IN  \/ /\ ~ read.ok
              /\ delivery' = queuePendingRules(delivery, handler[h].rules)
              /\ Moves(h, "hooks") /\ Ends
              /\ UNCHANGED overtaken
           \/ /\ read.ok
              /\ Persists(h, queuePendingRules(current, handler[h].rules))
              /\ overtaken' = (read.asOf # invalidations)
    /\ UNCHANGED <<history, removing, store, observations, historyReads, counted,
                   invalidations>>

(* External: the host stores the admission or refuses it, and its answer   *)
(* may be lost after it has stored it.  The identifiers of an admission    *)
(* are those of its rules: the same admission is stored once.              *)
HostStoresAdmission(rules) ==
    LET part == buildRuleAdmissionPart(keysOf(rules))
    IN  history' = IF \E m \in ToSet(history) : m.id = part.owner THEN history
                   ELSE Append(history, [id    |-> part.owner,
                                         parts |-> {part}, files |-> {},
                                         prompt |-> <<>>])

PersistReturns(h, answer) ==
    /\ At(h, "persisting")
    /\ answer = "lost" => counted.evictions + counted.lost < MaxMishaps
    /\ counted' = [counted EXCEPT !.lost = @ + (IF answer = "lost" THEN 1 ELSE 0)]
    /\ IF answer = "refused" THEN UNCHANGED history
                             ELSE HostStoresAdmission(handler[h].rules)
    /\ delivery' = IF answer = "stored" THEN afterPersist(delivery, handler[h].rules)
                                        ELSE delivery
    /\ Goes(h, Afterwards(h))
    /\ Ends
    /\ UNCHANGED <<removing, store, observations, historyReads,
                   invalidations, overtaken>>

(* evaluateAndQueueHooks: before a call, one hook that blocks keeps every  *)
(* content out of the queue.  Only the last step of it changes anything.   *)
MatchedHooks(rule, type, call) ==
    evaluateHooks(rule.hooks, type, call.tool, call.args)

QueueHooks(type, call, tools) ==
    LET fired   == {r \in Snapshots : MatchedHooks(r, type, call) # {}}
        blocked == \E r \in fired : \E k \in MatchedHooks(r, type, call) :
                      type = "PreToolUse" /\ k.block
        context == Context(store.prompt, tools)
    IN  delivery' = IF blocked \/ fired = {} THEN delivery
                    ELSE queueMatchedHooks(delivery,
                           {[rule |-> r, lifetime |-> hookLifetime(r, context)] :
                              r \in fired})

ToolBefore(h, call, tools) ==
    /\ Free(h, "before") /\ counted.calls < MaxCalls
    /\ QueueHooks("PreToolUse", call, tools)
    /\ counted' = [counted EXCEPT !.calls = @ + 1]
    /\ UNCHANGED <<history, removing, store, observations, historyReads, queue,
                   handler, invalidations, overtaken>>

AfterHooks(h, tools) ==
    /\ At(h, "hooks")
    /\ QueueHooks("PostToolUse", handler[h].call, tools)
    /\ Leaves(h)
    /\ UNCHANGED <<history, removing, store, observations, historyReads, queue,
                   counted, invalidations, overtaken>>

-----------------------------------------------------------------------------
(* messages.transform: a request is about to be sent with the messages the *)
(* handler is given.                                                       *)
Dispatch(h) ==
    /\ Free(h, "dispatch") /\ counted.dispatches < MaxDispatches /\ history # <<>>
    /\ store' = IF store.seeded THEN store
                ELSE [store EXCEPT !.paths  = @ \union AllFiles(history),
                                   !.seeded = TRUE,
                                   !.prompt = IF @ # <<>> THEN @
                                              ELSE extractLatestUserPrompt(history)]
    /\ Goes(h, [Idle EXCEPT !.kind = "dispatch", !.pc = "matching",
                            !.read = readHistory(TRUE)])
    /\ counted' = [counted EXCEPT !.dispatches = @ + 1]
    /\ UNCHANGED <<history, removing, observations, historyReads, delivery, queue,
                   invalidations, overtaken>>

\* deliverTransientDispatch waits for nobody: it does not join the queue.
DispatchDelivers(h, tools) ==
    /\ At(h, "matching") /\ handler[h].kind = "dispatch"
    /\ LET sent    == handler[h].read.messages
           current == beforeDispatch(delivery, AllParts(sent), TurnId(sent))
           matched == matchesWithLifetime(Snapshots,
                         Context(extractLatestUserPrompt(sent), tools), "ephemeral")
           rules   == keysOf(dispatchRules(current, matched))
           hooks   == keysOf(dispatchHooks(current))
       IN  /\ delivery' = afterDispatch(current, matched)
           /\ overtaken' = IF delivery.seeded /\ ~ delivery.needsRescan
                           THEN overtaken
                           ELSE handler[h].read.asOf # invalidations
           /\ Enqueues(h, [handler[h] EXCEPT !.read = NoRead, !.output =
                 IF rules \union hooks = {} THEN {}
                 ELSE {buildTransientDeliveryMessage(rules, hooks)}])
    /\ UNCHANGED <<history, removing, store, observations, historyReads, counted,
                   invalidations>>

\* retryPendingAdmissions
RetryStart(h) ==
    /\ Runs(h, "dispatch")
    /\ Persists(h, delivery)
    /\ UNCHANGED <<history, removing, store, observations, historyReads, counted,
                   invalidations, overtaken>>

-----------------------------------------------------------------------------
\* Mutant: a finished read outlives the invalidation.
KeepsPrefetch ==
    historyReads' = [historyReads EXCEPT !.revision = @ + 1, !.inFlight = {}]

invalidateHistoryReads ==
    historyReads' = [revision |-> historyReads.revision + 1,
                     prefetch |-> {}, inFlight |-> {}]

\* session.compacting, and what the host keeps of the messages.
SessionCompacting(n) ==
    /\ invalidations < MaxInvalidations /\ history # <<>>
    /\ delivery' = markCompacted(delivery)
    /\ invalidateHistoryReads
    /\ history' = SubSeq(history, n + 1, Len(history))
    /\ invalidations' = invalidations + 1
    /\ overtaken' = FALSE
    /\ UNCHANGED <<removing, store, observations, queue, handler, counted>>

\* External: a message is removed; the event follows.
HostRemoves(i) ==
    /\ ~ removing /\ invalidations < MaxInvalidations
    /\ history' = RemoveAt(history, i)
    /\ removing' = TRUE
    /\ UNCHANGED <<store, observations, historyReads, delivery, queue, handler,
                   counted, invalidations, overtaken>>

\* handleEvent: message.removed
MessageRemoved ==
    /\ removing
    /\ removing' = FALSE
    /\ delivery' = markHistoryChanged(delivery)
    /\ invalidateHistoryReads
    /\ invalidations' = invalidations + 1
    /\ overtaken' = FALSE
    /\ UNCHANGED <<history, store, observations, queue, handler, counted>>

\* evictOldestSessions, on the account of other sessions.
Evict ==
    /\ queue = <<>> /\ delivery # FreshDelivery
    /\ counted.evictions + counted.lost < MaxMishaps
    /\ delivery' = FreshDelivery
    /\ counted' = [counted EXCEPT !.evictions = @ + 1]
    /\ overtaken' = FALSE
    /\ UNCHANGED <<history, removing, store, observations, historyReads, queue,
                   handler, invalidations>>

-----------------------------------------------------------------------------
Starts(h) ==
    \/ \E prompt \in Prompts, files \in Mentioned, ok \in BOOLEAN :
          ChatMessage(h, prompt, files, ok)
    \/ \E call \in Calls :
          ToolAfter(h, call) \/ \E tools \in ToolLists : ToolBefore(h, call, tools)
    \/ Dispatch(h)

Continues(h) ==
    \/ prepareDurableTurn(h)
    \/ \E ok \in BOOLEAN : TurnStart(h, ok) \/ AdmitStart(h, ok)
    \/ TurnReturns(h) \/ HostStoresMessage(h)
    \/ \E tools \in ToolLists :
          \/ MatchTurn(h, tools) \/ MatchObservation(h, tools)
          \/ AfterHooks(h, tools) \/ DispatchDelivers(h, tools)
    \/ AdmitReturns(h) \/ RetryStart(h)
    \/ \E answer \in {"stored", "refused", "lost"} : PersistReturns(h, answer)

RulesNext ==
    \/ \E h \in Handler : Starts(h) \/ Continues(h)
    \/ \E n \in 0 .. Len(history) : SessionCompacting(n)
    \/ \E i \in DOMAIN history : HostRemoves(i)
    \/ MessageRemoved
    \/ Evict

RulesSpec == RulesInit /\ [][RulesNext]_rulesVars

-----------------------------------------------------------------------------
InFlight == UNION {handler[h].output : h \in {g \in Handler : At(g, "answered")}}
Stored == decodeRawHistory(AllParts(history))
StoredOrInFlight == decodeRawHistory(AllParts(history) \union InFlight)
LedgerInUse == delivery.seeded /\ ~ delivery.needsRescan
QueuedHooks == {q.rule : q \in delivery.pendingHooks \union delivery.durableHooks
                                 \union delivery.transientHooks}

\* The keys of the rules there are, and those that an older history names.
KnownKeys == keysOf(Snapshots) \union
    UNION {UNION {p.rules \union p.hooks : p \in AllParts(old)} : old \in Histories}

RulesTypeOK ==
    /\ DOMAIN handler = Handler
    /\ delivery.ruleKeys \union delivery.hookKeys \subseteq KnownKeys
    /\ delivery.pendingRules \union QueuedHooks \subseteq Snapshots
    /\ Cardinality(historyReads.prefetch) <= 1
    /\ Cardinality(historyReads.inFlight) <= 1

(* The queue of the session never sticks: the operation at its head has    *)
(* started or can, those behind it wait, and every operation under way is  *)
(* the head, so that two never work on the state at once.                  *)
QueueMoves ==
    LET running == {h \in Handler : handler[h].pc \in
                      {"turnReading", "admitReading", "persisting"}}
        waiting == {h \in Handler : At(h, "queued")}
    IN  /\ ToSet(queue) = running \union waiting
        /\ running \subseteq {queue[i] : i \in {1} \intersect DOMAIN queue}

(* What the ledger counts as delivered is in the history, or on its way    *)
(* there: no rule is withheld from the model because of a message that was *)
(* compacted away or removed.  Held while no removal is unannounced and    *)
(* the ledger was not built on a read older than the last invalidation,    *)
(* which TurnReadsAreCurrent excludes for turns; an admission and a        *)
(* dispatch do not check.                                                  *)
LedgerIsBacked ==
    LedgerInUse /\ ~ removing /\ ~ overtaken =>
       /\ delivery.ruleKeys \subseteq StoredOrInFlight.ruleKeys
       /\ delivery.hookKeys \subseteq StoredOrInFlight.hookKeys

(* A turn never takes over a read of the history that an invalidation has  *)
(* overtaken, whether it read itself or was handed a read made earlier.    *)
TurnReadsAreCurrent ==
    [][\A h \in Handler :
         /\ At(h, "turnReading") /\ handler'[h].pc # "turnReading"
         /\ delivery'.revision # delivery.revision
         => ~ overtaken']_rulesVars

(* The read kept for a later operation holds no message that is gone.      *)
PrefetchHoldsNothingRemoved ==
    ~ removing =>
       \A read \in historyReads.prefetch : \A m \in ToSet(read.messages) :
          \E n \in ToSet(history) : n.id = m.id

(* The content of a hook leaves the queues only by being delivered: stored *)
(* with a message or shown in the turn under way (or with the whole state, *)
(* when it is evicted).                                                    *)
HooksLeaveDelivered ==
    [][delivery' # FreshDelivery =>
         \A rule \in QueuedHooks \ QueuedHooks' :
            \/ hasDeliveryKey(delivery'.hookKeys, rule)
            \/ hasDeliveryKey(delivery'.turn.hooks, rule)]_rulesVars

(* As long as the history only grows and the host's answers arrive, no     *)
(* rule is stored in it twice: not by a turn and an admission that match   *)
(* it at the same time, and not under its path and its identity.  Except   *)
(* after a turn whose read failed has asked for a rescan of a ledger that  *)
(* a dispatch had filled meanwhile (rule-delivery.ts:179, where no         *)
(* revision is compared): the rescan may then use a read made before the   *)
(* last admission was stored.                                              *)
NothingTwice ==
    invalidations = 0 /\ ~ removing /\ counted.lost = 0 /\ counted.evictions = 0
       /\ counted.rescans = 0 =>
       \A rule \in Snapshots :
          Cardinality({p \in AllParts(history) : Names(p, rule)}) <= 1

(* What the model is given of the rules: the ledger counts only what is in *)
(* the history, nothing is stored twice, no stale read is kept, and the    *)
(* queue on which this depends goes on.                                    *)
RulesReachTheModelOnce ==
    RulesTypeOK /\ QueueMoves /\ LedgerIsBacked /\ PrefetchHoldsNothingRemoved /\ NothingTwice

(* No step of a turn forgets: it neither takes over a read that is out of  *)
(* date nor drops the content of a hook.                                   *)
TurnsForgetNothing == TurnReadsAreCurrent /\ HooksLeaveDelivered
=============================================================================
