----------------------------- MODULE MatchedRules -----------------------------
(***************************************************************************)
(* The file that says which rules of a session have matched, as the hooks  *)
(* keep it (src/rules/matched-rules-state.ts): writes and merges that are  *)
(* asked for at any time and go through one queue per session.             *)
(***************************************************************************)
EXTENDS Integers, Sequences, SequencesExt, FiniteSets

CONSTANTS
    Session, Rule,
    MaxStores     \* bound: writes and merges

VARIABLES
    matched,     \* the file of each session: a set of rules, or NoState
    stores,      \* writeQueues: [kind, rules, read, base]
    expected,    \* ghost: what the file is to hold when the queue is empty
    storesBegun

matchedVars == <<matched, stores, expected, storesBegun>>

NoState == {"nostate"}
ASSUME RuleAssumption == "nostate" \notin Rule

\* What a file comes to hold when what is in its queue has been done: the last
\* write, if there is one, with all that is merged since.
Final(now, queue) ==
    LET writes == {i \in DOMAIN queue : queue[i].kind = "write"}
        stays == {i \in DOMAIN queue : \A w \in writes : w <= i}
        before == IF writes # {} \/ now = NoState THEN {} ELSE now
    IN  IF queue = <<>> THEN now ELSE before \union UNION {queue[i].rules : i \in stays}

-----------------------------------------------------------------------------
(* MatchedRulesStateStore: write and merge join the queue of the session.  *)
Enqueue(s, kind, new) ==
    /\ storesBegun < MaxStores
    /\ storesBegun' = storesBegun + 1
    /\ stores' = [stores EXCEPT ![s] = Append(@, [kind |-> kind, rules |-> new, read |-> FALSE, base |-> {}])]
    /\ expected' = [expected EXCEPT ![s] =
         IF kind = "merge" /\ @ # NoState THEN @ \union new ELSE new]
    /\ UNCHANGED matched

\* Mutant: operations do not wait for one another.
AnyTime(i) == TRUE
MayRun(i) == i = 1

\* A merge reads the file when its turn has come.
Compute(s, i) ==
    /\ i \in DOMAIN stores[s] /\ MayRun(i) /\ ~ stores[s][i].read
    /\ stores' = [stores EXCEPT ![s][i].read = TRUE,
         ![s][i].base = IF stores[s][i].kind = "merge" /\ matched[s] # NoState THEN matched[s] ELSE {}]
    /\ UNCHANGED <<matched, expected, storesBegun>>

\* doAtomicWrite: the new file takes the old one's place, or nothing happens and
\* nobody is told.
Put(s, i, ok) ==
    /\ i \in DOMAIN stores[s] /\ stores[s][i].read
    /\ stores' = [stores EXCEPT ![s] = RemoveAt(@, i)]
    /\ IF ok THEN matched' = [matched EXCEPT ![s] = stores[s][i].base \union stores[s][i].rules] /\ UNCHANGED expected
             ELSE expected' = [expected EXCEPT ![s] = Final(matched[s], stores'[s])] /\ UNCHANGED matched
    /\ UNCHANGED storesBegun

MatchedInit ==
    /\ matched \in [Session -> {NoState} \union SUBSET Rule]
    /\ stores = [s \in Session |-> <<>>]
    /\ expected = matched
    /\ storesBegun = 0

MatchedNext ==
    \E s \in Session :
        \/ \E kind \in {"write", "merge"}, new \in SUBSET Rule : Enqueue(s, kind, new)
        \/ \E i \in DOMAIN stores[s] : Compute(s, i) \/ \E ok \in BOOLEAN : Put(s, i, ok)

-----------------------------------------------------------------------------
(* Properties.                                                             *)

\* With the queue empty the file holds what was written last and all that was
\* merged since, but for what could not be stored ("concurrent merges cannot
\* interleave the read-modify-write").
MergesSurvive == \A s \in Session : stores[s] = <<>> => matched[s] = expected[s]
=============================================================================
