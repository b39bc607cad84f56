------------------------------ MODULE ChangeScope ------------------------------
(***************************************************************************)
(* What is recorded of what a call changed, and which commit counts as the *)
(* delivery of it: baselines and scopes (src/app/change-scope.ts), the     *)
(* list of a session (processScopeAndInvariants), the permit that is given *)
(* before a commit (change-enforcement.ts) and the receipt after it        *)
(* (workflow-lifecycle.ts).  Git is external.                              *)
(***************************************************************************)
EXTENDS Integers, FiniteSets

CONSTANTS
    Path,         \* the files of the project
    Move,         \* the calls that are in flight at one time
    MaxCommits,   \* bound: commits
    MaxCalls,     \* bound: calls
    MaxOperatorSteps  \* bound: edits and commits of the operator

VARIABLES
    files,         \* the content of every file
    head,          \* the content at HEAD
    commits,       \* which commit HEAD is
    headFiles,     \* the files of that commit
    changedFiles,  \* of the session
    deliveryPermit,\* of the session, or NoPermit
    move,          \* the calls in flight
    verdict,       \* what the last step said of a commit
    reported,      \* what the last step said a call changed
    ever, still,   \* ghosts: files that changed, or were committed, during a call;
                   \* files that calls changed and that were never clean since
    begun,         \* calls that began
    operator       \* edits and commits of the operator

changeVars == <<files, head, commits, headFiles, changedFiles, deliveryPermit, move,
                verdict, reported, ever, still, begun, operator>>

Contents == 0..1
NoPermit == [call |-> "none", preCommitHead |-> 0, expectedFiles |-> {}, least |-> {}, most |-> {}]
NoMove == [kind |-> "none"]
Silent == verdict' = "none" /\ reported' = [scope |-> {}, changed |-> {}]

-----------------------------------------------------------------------------
\* git status: what differs from HEAD.
dirtyPaths == {f \in Path : files[f] # head[f]}
changedAgainstHead == dirtyPaths
captureBaseline == [f \in dirtyPaths |-> files[f]]

\* Mutant: only what is dirty now is compared.
DirtyOnly(baseline) == dirtyPaths

Candidates(baseline) == dirtyPaths \union DOMAIN baseline
computeChangeScope(baseline) ==
    {f \in Candidates(baseline) : f \in DOMAIN baseline => baseline[f] # files[f]}

\* What is clean belongs to nobody's work any longer.
StillDirty(set) == {f \in set : files'[f] # head'[f]}

\* beginMutation, or the admission of a task.
BeginMove(k) ==
    /\ move[k] = NoMove /\ begun < MaxCalls
    /\ begun' = begun + 1
    /\ move' = [move EXCEPT ![k] = [kind |-> "move", baseline |-> captureBaseline,
                                    before |-> files, at |-> head]]
    /\ UNCHANGED <<files, head, commits, headFiles, changedFiles, deliveryPermit, ever, still, operator>>

\* What a call that is in flight writes.
WriteFile ==
    /\ \E k \in Move : move[k].kind = "move"
    /\ \E f \in Path, c \in Contents : files' = [files EXCEPT ![f] = c]
    /\ UNCHANGED <<head, commits, headFiles, changedFiles, deliveryPermit, move, ever, begun, operator>>
    /\ still' = StillDirty(still)

\* finishMutation: processScopeAndInvariants.
FinishMove(k) ==
    /\ move[k].kind = "move"
    /\ UNCHANGED <<files, head, commits, headFiles, deliveryPermit, begun, operator>>
    /\ LET scope == computeChangeScope(move[k].baseline)
           changed == {f \in Path : files[f] # move[k].before[f]}
       IN  /\ changedFiles' = changedAgainstHead \intersect (changedFiles \union scope)
           /\ reported' = [scope |-> {f \in scope : head[f] = move[k].at[f]},
                           changed |-> {f \in changed : head[f] = move[k].at[f]}]
           /\ ever' = ever \union changed \union {f \in Path : head[f] # move[k].at[f]}
           /\ still' = StillDirty(still \union changed)
    /\ move' = [move EXCEPT ![k] = NoMove]
    /\ verdict' = "none"

\* Mutant: the list of the session is expected as it is.
WholeList == changedFiles

ExpectedFiles == changedAgainstHead \intersect changedFiles

\* commitBefore: a second delivery takes the place of the first.  The last two
\* fields are of the ghosts.
CommitBefore(k) ==
    /\ move[k] = NoMove /\ begun < MaxCalls
    /\ begun' = begun + 1
    /\ deliveryPermit' = [call |-> k, preCommitHead |-> commits, expectedFiles |-> ExpectedFiles,
                          least |-> still \intersect dirtyPaths, most |-> ever \intersect dirtyPaths]
    /\ move' = [move EXCEPT ![k] = [kind |-> "delivery"]]
    /\ UNCHANGED <<files, head, commits, headFiles, changedFiles, ever, still, operator>>

\* git commit, of some of the files that differ.
GitCommit ==
    /\ commits < MaxCommits
    /\ commits' = commits + 1
    /\ headFiles' \in SUBSET dirtyPaths \ {{}}
    /\ head' = [f \in Path |-> IF f \in headFiles' THEN files[f] ELSE head[f]]
    /\ UNCHANGED <<files, changedFiles, deliveryPermit, ever>>
    /\ still' = StillDirty(still)
Deliver(k) ==
    /\ move[k].kind = "delivery"
    /\ GitCommit
    /\ UNCHANGED <<move, begun, operator>>

\* handleCommitTaskAfter
HandleCommitTaskAfter(k) ==
    /\ move[k].kind = "delivery"
    /\ LET own == deliveryPermit.call = k
           moved == deliveryPermit.preCommitHead # commits
       IN  /\ verdict' = CASE ~ own \/ ~ moved -> "none"
                           [] own /\ moved /\ headFiles = deliveryPermit.expectedFiles -> "receipt"
                           [] OTHER -> "rejected"
           /\ deliveryPermit' = CASE ~ own -> deliveryPermit
                                  [] own /\ moved -> [deliveryPermit EXCEPT !.call = "none"]
                                  [] OTHER -> [deliveryPermit EXCEPT !.call = "over"]
    /\ reported' = [scope |-> {}, changed |-> {}]
    /\ move' = [move EXCEPT ![k] = NoMove]
    /\ UNCHANGED <<files, head, commits, headFiles, changedFiles, ever, still, begun, operator>>

OperatorEdits ==
    /\ \E f \in Path, c \in Contents : files' = [files EXCEPT ![f] = c]
    /\ UNCHANGED <<head, commits, headFiles, changedFiles, deliveryPermit, ever>>
    /\ still' = StillDirty(still)
Operator ==
    /\ operator < MaxOperatorSteps
    /\ operator' = operator + 1
    /\ OperatorEdits \/ GitCommit
    /\ UNCHANGED <<move, begun>>

ChangeInit ==
    /\ files = [f \in Path |-> 0]
    /\ head = files
    /\ commits = 0
    /\ headFiles = {}
    /\ changedFiles = {}
    /\ deliveryPermit = NoPermit
    /\ move = [k \in Move |-> NoMove]
    /\ verdict = "none"
    /\ reported = [scope |-> {}, changed |-> {}]
    /\ ever = {}
    /\ still = {}
    /\ begun = 0
    /\ operator = 0

ChangeNext ==
    \/ \E k \in Move : FinishMove(k) \/ HandleCommitTaskAfter(k)
    \/ /\ Silent
       /\ \/ \E k \in Move : BeginMove(k) \/ CommitBefore(k) \/ Deliver(k)
          \/ WriteFile \/ Operator

ChangeSpec == ChangeInit /\ [][ChangeNext]_changeVars

-----------------------------------------------------------------------------
(* Properties.                                                             *)

\* The scope of a call is what changed while it was in flight, also what it put
\* back to HEAD (change-scope.ts:82); what was committed meanwhile is excepted.
ChangesAreReported == reported.scope = reported.changed

\* A receipt is for a commit of nothing but files that calls changed, and of all
\* that still differed when it was permitted; and a commit of just those files
\* is not refused (changedAgainstHead: "a right commit was rejected").
RightCommitsAreReceipted ==
    /\ verdict = "receipt" => deliveryPermit.least \subseteq headFiles /\ headFiles \subseteq deliveryPermit.most
    /\ verdict = "rejected" => ~ (headFiles = deliveryPermit.least /\ headFiles = deliveryPermit.most)

(* What is said of a call is what it did: its scope is what it changed,    *)
(* and a receipt is for a commit of what was to be committed.              *)
ScopesAndReceiptsAreTrue == ChangesAreReported /\ RightCommitsAreReceipted
=============================================================================
