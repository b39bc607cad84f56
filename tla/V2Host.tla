-------------------------------- MODULE V2Host --------------------------------
(***************************************************************************)
(* The plugin in a V2 host (src/app/v2-plugin-adapter.ts): what setup      *)
(* registers and undoes, the loop over the events of the host, the cleanup *)
(* the host may call twice, and what the context hook makes of the         *)
(* messages of a request (src/app/v2-plugin-contract.ts).                  *)
(***************************************************************************)
EXTENDS Integers, Sequences, SequencesExt, FiniteSets

CONSTANTS
    HostOffers,       \* what hosts may offer: sets of "session", "events", "tools", "commands", "agents"
    Closer,           \* the callers of the cleanup
    HostRequests,     \* the messages of a request: sequences of [id, role, parts]
    Injected,         \* what the legacy layer may push after them: sequences of legacy messages
    MaxHostEvents,    \* bound: the events the host emits
    MaxHostTroubles   \* bound: registrations, disposals and handlers that fail

ASSUME HostMessagesAssumption ==
    \A messages \in HostRequests \union Injected :
        /\ messages \in Seq({messages[i] : i \in DOMAIN messages})
        /\ \A i \in DOMAIN messages : DOMAIN messages[i] = {"id", "role", "parts"}
\* Nothing is pushed under an id that is there (deliverTransientDispatch).
ASSUME InjectedAssumption ==
    \A host \in HostRequests, pushed \in Injected :
        \A i \in DOMAIN host, j \in DOMAIN pushed : pushed[j].id # host[i].id

VARIABLES
    adapter,      \* [phase, left, held, toDispose, disposed]
    registered,   \* the registrations in force at the host
    refused,      \* ghost: those whose disposal failed
    disposals,    \* ghost: how often each registration and the runtime were disposed of
    feed,         \* [controller, ended, inbox, handling], the loop over events
    emitted,      \* ghost: the events the host emitted to the loop, in order
    handled,      \* ghost: the events whose handler has ended, in order
    closers,      \* what each caller of the cleanup was answered
    request,      \* the last request that went through the context hook
    hostTroubles

hostVars == <<adapter, registered, refused, disposals, feed, emitted, handled, closers, request, hostTroubles>>

-----------------------------------------------------------------------------
(* setupV2Runtime: the registrations in order, those of absent             *)
(* capabilities left out.                                                  *)
OnlyIf(has, steps) == IF has THEN steps ELSE <<>>
SetupSteps(offers) ==
    <<"execute.before", "execute.after">>
      \o OnlyIf("session" \in offers, <<"prompt", "context">>)
      \o OnlyIf("events" \in offers, <<"subscribe">>)
      \o OnlyIf("tools" \in offers, <<"workflowTools">>)
      \o OnlyIf("commands" \in offers, <<"commands">>)
      \o OnlyIf("agents" \in offers, <<"agent", "profileAgents">>)
Registrations == {"execute.before", "execute.after", "prompt", "context", "workflowTools",
                  "commands", "agent", "profileAgents"}

Trouble == /\ hostTroubles < MaxHostTroubles
           /\ hostTroubles' = hostTroubles + 1

Register ==
    /\ adapter.phase = "setup" /\ adapter.left # <<>>
    /\ LET step == Head(adapter.left)
       IN  IF step = "subscribe"
           THEN /\ feed' = [feed EXCEPT !.controller = "open"]
                /\ adapter' = [adapter EXCEPT !.left = Tail(@)]
                /\ UNCHANGED registered
           ELSE /\ registered' = registered \union {step}
                /\ adapter' = [adapter EXCEPT !.left = Tail(@), !.held = Append(@, step)]
                /\ UNCHANGED feed
    /\ UNCHANGED <<refused, disposals, emitted, handled, closers, request, hostTroubles>>

SetupEnds ==
    /\ adapter.phase = "setup" /\ adapter.left = <<>>
    /\ adapter' = [adapter EXCEPT !.phase = "ready"]
    /\ UNCHANGED <<registered, refused, disposals, feed, emitted, handled, closers, request, hostTroubles>>

\* Mutant: the subscription is left as it is.
KeepSubscription == feed
eventCleanup == [feed EXCEPT !.controller = IF @ = "none" THEN "none" ELSE "aborted"]

\* A registration that throws: what was registered before it is undone.
RegisterFails ==
    /\ adapter.phase = "setup" /\ adapter.left # <<>> /\ Trouble
    /\ feed' = eventCleanup
    /\ adapter' = [adapter EXCEPT !.phase = "undoing", !.toDispose = adapter.held]
    /\ UNCHANGED <<registered, refused, disposals, emitted, handled, closers, request>>

-----------------------------------------------------------------------------
(* Disposal: all at once when setup failed (Promise.allSettled), one after *)
(* the other in the reverse order when the host asks for it.               *)
MayDispose == CASE adapter.phase = "undoing" -> 1 .. Len(adapter.toDispose)
                [] adapter.phase = "closing" -> {1} \intersect (1 .. Len(adapter.toDispose))
                [] OTHER -> {}

\* Mutant: the first failure ends the cleanup.
StopAtFailure(i) == <<>>
Remaining(i) == RemoveAt(adapter.toDispose, i)

DisposeHeld(i) ==
    /\ i \in MayDispose
    /\ LET what == adapter.toDispose[i]
       IN  /\ disposals' = [disposals EXCEPT ![what] = @ + 1]
           /\ \/ /\ registered' = registered \ {what}
                 /\ adapter' = [adapter EXCEPT !.toDispose = RemoveAt(@, i)]
                 /\ UNCHANGED <<refused, hostTroubles>>
              \/ /\ Trouble
                 /\ refused' = refused \union {what}
                 /\ adapter' = [adapter EXCEPT !.toDispose = Remaining(i)]
                 /\ UNCHANGED registered
    /\ UNCHANGED <<feed, emitted, handled, closers, request>>

\* hooks.dispose, and the answer of whoever waits for the cleanup.
DisposalEnds ==
    /\ adapter.phase \in {"undoing", "closing"} /\ adapter.toDispose = <<>>
    /\ disposals' = [disposals EXCEPT !["runtime"] = @ + 1]
    /\ adapter' = [adapter EXCEPT !.phase = IF @ = "undoing" THEN "degraded" ELSE "closed"]
    /\ closers' = [c \in Closer |->
                     IF closers[c] # "waiting" THEN closers[c]
                     ELSE IF refused # {} THEN "failed" ELSE "done"]
    /\ UNCHANGED <<registered, refused, feed, emitted, handled, request, hostTroubles>>

\* Mutant: every call of the cleanup disposes.
EveryCall == FALSE
AlreadyDisposed == adapter.disposed

\* The cleanup: a no-op for a plugin that is degraded, and once one has begun.
CleanupIsCalled(c) ==
    /\ adapter.phase \notin {"setup", "undoing"} /\ closers[c] = "free"
    /\ IF adapter.phase = "degraded" \/ AlreadyDisposed
       THEN /\ closers' = [closers EXCEPT ![c] = "done"]
            /\ UNCHANGED <<adapter, feed>>
       ELSE /\ closers' = [closers EXCEPT ![c] = "waiting"]
            /\ feed' = eventCleanup
            /\ adapter' = [adapter EXCEPT !.phase = "closing", !.disposed = TRUE,
                                          !.toDispose = Reverse(adapter.held)]
    /\ UNCHANGED <<registered, refused, disposals, emitted, handled, request, hostTroubles>>

-----------------------------------------------------------------------------
(* registerV2Events: the loop hands one event at a time to handleEvent; a  *)
(* handler that throws ends it.                                            *)
Relevant(e) == e.type \in {"message.removed", "message.part.updated"}

HostEmits(type) ==
    /\ feed.controller = "open" /\ Len(emitted) < MaxHostEvents
    /\ LET e == [type |-> type, seq |-> Len(emitted) + 1]
       IN  /\ emitted' = Append(emitted, e)
           /\ feed' = [feed EXCEPT !.inbox = Append(@, e)]
    /\ UNCHANGED <<adapter, registered, refused, disposals, handled, closers, request, hostTroubles>>

\* Mutant: the handler is not awaited.
NotAwaited == TRUE
LoopIsFree == feed.handling = {}

LoopTakes ==
    /\ ~ feed.ended /\ LoopIsFree
    /\ \/ /\ feed.controller = "open" /\ feed.inbox # <<>>
          /\ LET e == Head(feed.inbox)
             IN  feed' = [feed EXCEPT !.inbox = Tail(@),
                                      !.handling = IF Relevant(e) THEN @ \union {e} ELSE @]
       \/ /\ feed.controller = "aborted"
          /\ feed' = [feed EXCEPT !.ended = TRUE, !.inbox = <<>>]
    /\ UNCHANGED <<adapter, registered, refused, disposals, emitted, handled, closers, request, hostTroubles>>

HandlerEnds(e) ==
    /\ e \in feed.handling
    /\ handled' = Append(handled, e)
    /\ \/ /\ feed' = [feed EXCEPT !.handling = @ \ {e}]
          /\ UNCHANGED hostTroubles
       \/ /\ Trouble
          /\ feed' = [feed EXCEPT !.handling = @ \ {e}, !.ended = TRUE]
    /\ UNCHANGED <<adapter, registered, refused, disposals, emitted, closers, request>>

-----------------------------------------------------------------------------
(* The context hook. Parts are pairs of a kind and a payload; an absent id *)
(* is "".                                                                  *)
Roles == {"system", "user", "assistant", "tool"}
LegacyPart(part) ==
    CASE part[1] = "text" -> part
      [] part[1] = "tool-call" -> <<"tool-invocation", part[2]>>
      [] OTHER -> <<part[1], "">>
v2ContextEvent(messages) ==
    [i \in DOMAIN messages |-> [messages[i] EXCEPT !.parts = [j \in DOMAIN @ |-> LegacyPart(@[j])]]]

TextParts(message) == SelectSeq(message.parts, LAMBDA part : part[1] = "text")
v2MessagesFromLegacy(messages) ==
    LET texts == [i \in DOMAIN messages |-> [messages[i] EXCEPT !.parts = TextParts(messages[i])]]
    IN  SelectSeq(texts, LAMBDA m : m.role \in Roles /\ m.parts # <<>>)

\* Mutant: the request is rebuilt from what the legacy layer made of it.
RebuiltFromLegacy(host, legacy) == v2MessagesFromLegacy(legacy)
v2MessagesWithInjected(host, legacy) ==
    LET known == {host[i].id : i \in DOMAIN host}
        added[n \in 0 .. Len(legacy)] ==
          IF n = 0 THEN <<>>
          ELSE IF legacy[n].id \in known THEN added[n - 1]
          ELSE Append(added[n - 1], legacy[n])
    IN  host \o v2MessagesFromLegacy(added[Len(legacy)])

ContextHook(host, pushed) ==
    /\ "context" \in registered /\ request.result = <<>>
    /\ request' = [host |-> host, pushed |-> pushed,
                   result |-> v2MessagesWithInjected(host, v2ContextEvent(host) \o pushed)]
    /\ UNCHANGED <<adapter, registered, refused, disposals, feed, emitted, handled, closers, hostTroubles>>

-----------------------------------------------------------------------------
HostInit ==
    /\ adapter \in {[phase |-> "setup", left |-> SetupSteps(offers), held |-> <<>>, toDispose |-> <<>>,
                     disposed |-> FALSE] : offers \in HostOffers}
    /\ registered = {} /\ refused = {}
    /\ disposals = [what \in Registrations \union {"runtime"} |-> 0]
    /\ feed = [controller |-> "none", ended |-> FALSE, inbox |-> <<>>, handling |-> {}]
    /\ emitted = <<>> /\ handled = <<>>
    /\ closers = [c \in Closer |-> "free"]
    /\ request = [host |-> <<>>, pushed |-> <<>>, result |-> <<>>]
    /\ hostTroubles = 0

HostNext ==
    \/ Register \/ SetupEnds \/ RegisterFails
    \/ \E i \in 1 .. Len(adapter.toDispose) : DisposeHeld(i)
    \/ DisposalEnds
    \/ \E c \in Closer : CleanupIsCalled(c)
    \/ \E type \in {"message.removed", "message.part.updated", "session.idle"} : HostEmits(type)
    \/ LoopTakes
    \/ \E e \in feed.handling : HandlerEnds(e)
    \/ \E host \in HostRequests, pushed \in Injected : ContextHook(host, pushed)

HostSpec == HostInit /\ [][HostNext]_hostVars

-----------------------------------------------------------------------------
(* Once setup has failed or the cleanup has ended, the host holds nothing  *)
(* of the plugin but what it refused to give up, no event is waited for,   *)
(* and the runtime was disposed of.                                        *)
NothingOutlivesThePlugin ==
    adapter.phase \in {"degraded", "closed"} =>
        /\ registered = refused
        /\ feed.controller # "open"
        /\ disposals["runtime"] = 1

(* However often the cleanup is called, nothing is disposed of twice, and  *)
(* exactly the call that found a registration refused is told of it.       *)
CleanedUpOnce ==
    /\ \A what \in DOMAIN disposals : disposals[what] <= 1
    /\ adapter.phase = "closed" =>
         Cardinality({c \in Closer : closers[c] = "failed"}) = (IF refused # {} THEN 1 ELSE 0)

(* Removals and updates of messages are handled one at a time, in the      *)
(* order in which the host emitted them, and none is skipped before one    *)
(* that is handled: what was handled before it is what of this kind was    *)
(* emitted before it.                                                      *)
EventsAreHandledInOrder ==
    \A i \in DOMAIN handled :
        LET e == handled[i]
        IN  /\ Relevant(e) /\ e = emitted[e.seq]
            /\ {handled[j].seq : j \in 1 .. (i - 1)}
                 = {k \in 1 .. (e.seq - 1) : Relevant(emitted[k])}

(* The host keeps every message of its request, tool calls and results     *)
(* included, followed by the text of exactly what the legacy layer pushed. *)
HostMessagesSurvive ==
    request.result # <<>> =>
        request.result = request.host \o v2MessagesFromLegacy(request.pushed)

(* The host is left as it was but for what it was told: registrations end  *)
(* with the plugin and once, its events are handled in their order, its    *)
(* messages survive.                                                       *)
HostIsLeftIntact ==
    NothingOutlivesThePlugin /\ CleanedUpOnce /\ EventsAreHandledInOrder /\ HostMessagesSurvive
=============================================================================
