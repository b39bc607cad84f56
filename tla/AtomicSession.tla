---------------------------- MODULE AtomicSession ----------------------------
(***************************************************************************)
(* What SessionExecutor promises its callers: each call has the session of *)
(* one conversation to itself.  All the changes of its action take effect  *)
(* in one step or none does, its deferred effects follow that step, and    *)
(* "done" is said of changes that are there, "untouched" of none.  A       *)
(* session is the sequence of the changes made to it.                      *)
(***************************************************************************)
EXTENDS Naturals, Sequences

CONSTANTS
    Node,   \* the host's sessions: a conversation's own and its subagents'
    Call,   \* the calls of run(), each used once
    Parts   \* how many changes the action of a call makes

VARIABLES
    history, \* per node: the changes its session was given, oldest first
    effects, \* the calls whose deferred effects have run
    told     \* per call: "none", or how its promise settled

vars == <<history, effects, told>>

\* The changes of a call, in the order its action makes them.
Entries(c) == [i \in 1..Parts[c] |-> [by |-> c, part |-> i]]

HasChanged(c) == \E n \in Node : \E i \in DOMAIN history[n] : history[n][i].by = c

Init ==
    /\ history = [n \in Node |-> <<>>]
    /\ effects = {}
    /\ told = [c \in Call |-> "none"]

\* All the changes of the action, at once and once.
Commit(c, n) ==
    /\ told[c] = "none"
    /\ ~ HasChanged(c)
    /\ history' = [history EXCEPT ![n] = @ \o Entries(c)]
    /\ UNCHANGED <<effects, told>>

\* The effects of a call whose changes are there.
RunEffects(c) ==
    /\ told[c] = "none"
    /\ HasChanged(c)
    /\ effects' = effects \cup {c}
    /\ told' = [told EXCEPT ![c] = "done"]
    /\ UNCHANGED history

\* A call that failed says so, its changes there or not; one whose action
\* changed nothing, for want of a session or of a reason, leaves no trace.
Answer(c, outcome) ==
    /\ told[c] = "none"
    /\ outcome = "untouched" => ~ HasChanged(c)
    /\ told' = [told EXCEPT ![c] = outcome]
    /\ UNCHANGED <<history, effects>>

Next ==
    \E c \in Call :
        \/ \E n \in Node : Commit(c, n)
        \/ RunEffects(c)
        \/ \E outcome \in {"failed", "untouched"} : Answer(c, outcome)

Spec == Init /\ [][Next]_vars
=============================================================================
