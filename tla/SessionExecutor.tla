--------------------------- MODULE SessionExecutor ---------------------------
(***************************************************************************)
(* SessionExecutor (src/app/session-executor.ts): a call of run() finds    *)
(* the root of the conversation it is made in, waits for the calls before  *)
(* it on that root, and then loads the session, lets its action change it, *)
(* saves it if it did, and runs the effects deferred until then.           *)
(*                                                                         *)
(* One process.  WorkflowStore is the step SessionStore.tla shows it to    *)
(* be: a save writes its object if the revision on disk is the one it was  *)
(* loaded with, and is refused otherwise.  An action is a number of        *)
(* changes with awaits in between; the content of a session is the         *)
(* sequence of the changes saved in it.                                    *)
(***************************************************************************)
EXTENDS Naturals, Sequences, FiniteSets

CONSTANTS
    Node,       \* the host's sessions
    Parent,     \* the host's answer: a root is its own parent
    HasSession, \* the nodes that have a workflow session
    Call,       \* the calls made, each used once
    NodeOf,     \* the node a call is made in
    Parts,      \* how many changes the action of a call makes, if it makes any
    Outside,    \* calls that load and save without the queue, and change nothing
    Swallows,   \* the V1 host adapter: a failed lookup is answered with null
    MaxClears,  \* bound: calls of clear()
    None        \* undefined

ASSUME NodeAssumption ==
    /\ IsFiniteSet(Node)
    /\ Parent \in [Node -> Node]
    /\ NodeOf \in [Call -> Node]
ASSUME SessionAssumption == HasSession \subseteq {n \in Node : Parent[n] = n}
ASSUME PartsAssumption == Parts \in [Call -> Nat \ {0}]
ASSUME OutsideAssumption == Outside \subseteq Call
ASSUME NoneAssumption == None \notin Node /\ None \notin Call
ASSUME BoundAssumption == MaxClears \in Nat /\ Swallows \in BOOLEAN

\* The parents form no circle: in every set of nodes there is a root, or a
\* node whose parent is not in it.
Forest == \A nodes \in (SUBSET Node) \ {{}} :
             \E n \in nodes : Parent[n] = n \/ Parent[n] \notin nodes

VARIABLES
    cache,   \* parentCache
    tail,    \* queues: per root the last promise of its chain
    file,    \* per node: the session on disk, its revision and its changes
    pc,      \* per call: where it is
    walked,  \* per call: the nodes its walk has passed
    root,    \* per call: how far its walk has come; then the root it was given
    prev,    \* per call: the promise it waits for
    base,    \* per call: the session it loaded
    made,    \* per call: how many changes it has made to it
    effects, \* the calls whose deferred effects have run
    clears,  \* how often clear() was called
    joins,   \* history: how many calls have joined a queue
    era,     \* history: per call, `clears` when it joined
    place    \* history: per call, `joins` when it joined

vars == <<cache, tail, file, pc, walked, root, prev, base, made, effects, clears, joins, era, place>>

Settled == {"done", "failed", "untouched"}

\* Between the load and the end of the deferred effects.
Inside == {"acting", "saving", "deferring"}

PC == {"walking", "asking", "resolved", "queued"} \cup Inside \cup Settled

Init ==
    /\ cache = [n \in Node |-> None]
    /\ tail = [n \in Node |-> None]
    /\ file = [n \in Node |-> [rev |-> 0, log |-> <<>>]]
    /\ pc = [c \in Call |-> "walking"]
    /\ walked = [c \in Call |-> {NodeOf[c]}]
    /\ root = [c \in Call |-> NodeOf[c]]
    /\ prev = [c \in Call |-> None]
    /\ base = [c \in Call |-> [rev |-> 0, log |-> <<>>]]
    /\ made = [c \in Call |-> 0]
    /\ effects = {}
    /\ clears = 0
    /\ joins = 0
    /\ era = [c \in Call |-> 0]
    /\ place = [c \in Call |-> 0]

-----------------------------------------------------------------------------
(* resolveRoot(): from the node of the call up, a hop for each parent.     *)

resolving == <<tail, file, prev, base, made, effects, clears, joins, era, place>>

\* The parent p of the node the walk has reached is known: it goes on from
\* there.  If the walk has passed p, as it has when the node is a root, it is
\* over, and p is memoised as the root of every node it has passed.
Hop(c, p, known) ==
    \/ /\ p \notin walked[c]
       /\ pc' = [pc EXCEPT ![c] = "walking"]
       /\ root' = [root EXCEPT ![c] = p]
       /\ walked' = [walked EXCEPT ![c] = @ \cup {p}]
       /\ cache' = known
    \/ /\ p \in walked[c]
       /\ pc' = [pc EXCEPT ![c] = "resolved"]
       /\ root' = [root EXCEPT ![c] = p]
       /\ cache' = [n \in Node |-> IF n \in walked[c] THEN p ELSE known[n]]
       /\ UNCHANGED walked

\* Mutant: the host is not asked, and an undefined parent is followed.
WalkUndefined(c) ==
    /\ pc[c] = "walking"
    /\ Hop(c, cache[root[c]], cache)
    /\ UNCHANGED resolving

\* Cached hops are a step each; the code makes a run of them without await.
Walk(c) ==
    /\ pc[c] = "walking"
    /\ cache[root[c]] # None
    /\ Hop(c, cache[root[c]], cache)
    /\ UNCHANGED resolving

AskHost(c) ==
    /\ pc[c] = "walking"
    /\ cache[root[c]] = None
    /\ pc' = [pc EXCEPT ![c] = "asking"]
    /\ UNCHANGED <<cache, walked, root, resolving>>

\* What the host says is memoised over whatever was memoised meanwhile.
Told(c, p) == Hop(c, p, [cache EXCEPT ![root[c]] = p])

HostAnswers(c) ==
    /\ pc[c] = "asking"
    /\ Told(c, Parent[root[c]])
    /\ UNCHANGED resolving

\* Mutant: a failed lookup is memoised as a root.
FallbackMemoised(c) == Told(c, root[c])

\* A failed lookup makes the call's own node its root, for this once.
Fallback(c) ==
    /\ pc' = [pc EXCEPT ![c] = "resolved"]
    /\ root' = [root EXCEPT ![c] = NodeOf[c]]
    /\ UNCHANGED <<cache, walked>>

\* The V1 adapter answers null instead of failing, as it does for a root.
HostFails(c) ==
    /\ pc[c] = "asking"
    /\ IF Swallows THEN Told(c, root[c]) ELSE Fallback(c)
    /\ UNCHANGED resolving

-----------------------------------------------------------------------------
(* run().                                                                  *)

\* The call chains itself on the last promise of its root.
Join(c) ==
    /\ pc[c] = "resolved"
    /\ c \notin Outside
    /\ pc' = [pc EXCEPT ![c] = "queued"]
    /\ prev' = [prev EXCEPT ![c] = tail[root[c]]]
    /\ tail' = [tail EXCEPT ![root[c]] = c]
    /\ joins' = joins + 1
    /\ era' = [era EXCEPT ![c] = clears]
    /\ place' = [place EXCEPT ![c] = joins + 1]
    /\ UNCHANGED <<cache, file, walked, root, base, made, effects, clears>>

\* The promise settles; the chain forgets it when nothing was added since.
Settle(c, outcome) ==
    /\ pc' = [pc EXCEPT ![c] = outcome]
    /\ tail' = [tail EXCEPT ![root[c]] = IF @ = c THEN None ELSE @]

\* Mutant: the chain goes on only from an action that succeeded.
PrevSucceeded(c) == prev[c] # None => pc[prev[c]] \in {"done", "untouched"}

\* Mutant: nobody waits.
PrevIgnored(c) == TRUE

\* The one before has settled, and its failure is its own.
PrevSettled(c) == prev[c] # None => pc[prev[c]] \in Settled

\* Load and hand the session to the action; without one the action returns.
Load(c) ==
    /\ pc[c] = "queued"
    /\ PrevSettled(c)
    /\ IF root[c] \in HasSession
       THEN /\ pc' = [pc EXCEPT ![c] = "acting"]
            /\ base' = [base EXCEPT ![c] = file[root[c]]]
            /\ UNCHANGED tail
       ELSE /\ Settle(c, "untouched")
            /\ UNCHANGED base
    /\ UNCHANGED <<cache, file, walked, root, prev, made, effects, clears, joins, era, place>>

\* workflow-consent: load a copy, and save it where it is.
LoadOutside(c) ==
    /\ pc[c] = "resolved"
    /\ c \in Outside
    /\ pc' = [pc EXCEPT ![c] = IF root[c] \in HasSession THEN "saving" ELSE "untouched"]
    /\ base' = [base EXCEPT ![c] = file[root[c]]]
    /\ UNCHANGED <<cache, tail, file, walked, root, prev, made, effects, clears, joins, era, place>>

\* The action changes the object, and awaits.
Act(c) ==
    /\ pc[c] = "acting"
    /\ made[c] < Parts[c]
    /\ made' = [made EXCEPT ![c] = @ + 1]
    /\ UNCHANGED <<cache, tail, file, pc, walked, root, prev, base, effects, clears, joins, era, place>>

\* It returns: an object that changed is to be saved; any other is let go,
\* its deferred effects with it.
Return(c) ==
    /\ pc[c] = "acting"
    /\ \/ /\ made[c] = Parts[c]
          /\ pc' = [pc EXCEPT ![c] = "saving"]
          /\ UNCHANGED tail
       \/ /\ made[c] = 0
          /\ Settle(c, "untouched")
    /\ UNCHANGED <<cache, file, walked, root, prev, base, made, effects, clears, joins, era, place>>

\* Mutant: an action that throws has what it changed so far saved.
ThrowAndSave(c) ==
    /\ pc[c] = "acting"
    /\ pc' = [pc EXCEPT ![c] = "saving"]
    /\ UNCHANGED <<cache, tail, file, walked, root, prev, base, made, effects, clears, joins, era, place>>

\* The action throws (or the load before it), the store cannot write, or a
\* deferred effect rejects: the caller gets the error, and that is all.
Throw(c) ==
    /\ pc[c] \in Inside
    /\ Settle(c, "failed")
    /\ UNCHANGED <<cache, file, walked, root, prev, base, made, effects, clears, joins, era, place>>

Change(c) == [i \in 1..made[c] |-> [by |-> c, part |-> i]]

Fresh(c) == file[root[c]].rev = base[c].rev

Save(c) ==
    /\ pc[c] = "saving"
    /\ Fresh(c)
    /\ file' = [file EXCEPT ![root[c]] = [rev |-> base[c].rev + 1, log |-> base[c].log \o Change(c)]]
    /\ IF c \in Outside THEN Settle(c, "untouched")
       ELSE pc' = [pc EXCEPT ![c] = "deferring"] /\ UNCHANGED tail
    /\ UNCHANGED <<cache, walked, root, prev, base, made, effects, clears, joins, era, place>>

\* RevisionConflictError.
SaveRefused(c) ==
    /\ pc[c] = "saving"
    /\ ~ Fresh(c)
    /\ Settle(c, "failed")
    /\ UNCHANGED <<cache, file, walked, root, prev, base, made, effects, clears, joins, era, place>>

RunDeferred(c) ==
    /\ pc[c] = "deferring"
    /\ effects' = effects \cup {c}
    /\ Settle(c, "done")
    /\ UNCHANGED <<cache, file, walked, root, prev, base, made, clears, joins, era, place>>

\* dispose(): the calls under way go on, the next ones start a new chain.
Clear ==
    /\ clears < MaxClears
    /\ clears' = clears + 1
    /\ tail' = [n \in Node |-> None]
    /\ UNCHANGED <<cache, file, pc, walked, root, prev, base, made, effects, joins, era, place>>

-----------------------------------------------------------------------------

Step(c) ==
    \/ Walk(c)
    \/ AskHost(c)
    \/ HostAnswers(c)
    \/ HostFails(c)
    \/ Join(c)
    \/ Load(c)
    \/ LoadOutside(c)
    \/ Act(c)
    \/ Return(c)
    \/ Throw(c)
    \/ Save(c)
    \/ SaveRefused(c)
    \/ RunDeferred(c)

Next == (\E c \in Call : Step(c)) \/ Clear

Spec == Init /\ [][Next]_vars

\* The host answers or fails, and no action hangs.
FairSpec == Spec /\ \A c \in Call : WF_vars(Step(c))

-----------------------------------------------------------------------------
(* Properties.                                                             *)

SessionFile == [rev : Nat, log : Seq([by : Call, part : Nat])]

\* Every variable has the range its code representation has.
TypeOK ==
    /\ cache \in [Node -> Node \cup {None}]
    /\ tail \in [Node -> Call \cup {None}]
    /\ file \in [Node -> SessionFile]
    /\ pc \in [Call -> PC]
    /\ walked \in [Call -> SUBSET Node]
    /\ root \in [Call -> Node]
    /\ prev \in [Call -> Call \cup {None}]
    /\ base \in [Call -> SessionFile]
    /\ made \in [Call -> Nat]
    /\ effects \subseteq Call
    /\ clears \in Nat
    /\ joins \in Nat
    /\ era \in [Call -> Nat]
    /\ place \in [Call -> Nat]

\* run() is atomic: with lookups that fail, actions that throw half way, a
\* writer outside the queue and clear(), the calls change the sessions as if
\* each did all it does in one step.
Atomic == INSTANCE AtomicSession WITH
    history <- [n \in Node |-> file[n].log],
    told <- [c \in Call |-> IF pc[c] \in Settled THEN pc[c] ELSE "none"]

RunIsAtomic == Atomic!Spec

\* The calls of one root have their turns, from the load to the end of the
\* deferred effects, one after the other and in the order they came: only
\* clear() lets one in before another has finished.
SameQueue(c, d) == root[c] = root[d] /\ era[c] = era[d]

TurnsInOrder ==
    \A c, d \in Call \ Outside :
        pc[c] \in Inside /\ SameQueue(c, d) /\ place[d] \in 1..(place[c] - 1) => pc[d] \in Settled

\* A node is memoised as a root only if it is one, however the lookups of the
\* calls overlap and fail.
MemoisedRootIsRoot == \A n \in Node : cache[n] = n => Parent[n] = n

\* The memoised hops lead from n to r: r is in every set of nodes that has n
\* and, with a node, the one it was memoised to.
LeadTo(n, r) ==
    \A nodes \in SUBSET Node :
        n \in nodes /\ (\A m \in nodes : cache[m] # None => cache[m] \in nodes) => r \in nodes

\* A handler that calls run() again from inside its action gets the session it
\* holds, at once: no hop to its root is missing, so that it asks nobody, and
\* it never waits for the queue it is the head of.
NestedRunsAreInline ==
    \A c \in Call \ Outside : pc[c] = "acting" /\ NodeOf[c] # root[c]
        => LeadTo(NodeOf[c], root[c]) /\ cache[root[c]] = root[c]

\* Every call is answered: an action that fails, or is refused its save, does
\* not stop the ones behind it.
EveryCallIsTold == \A c \in Call : <>(pc[c] \in Settled)
=============================================================================
