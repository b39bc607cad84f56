--------------------------- MODULE Components_proofs ---------------------------
(***************************************************************************)
(* Theorems about five components that run on their own.  Two are about    *)
(* the authorisations on record: the approvals the operator grants         *)
(* (Consent) and the permits and receipts of a delivery (ChangeScope).  An *)
(* approval is one for a type, and granted by the operator's own answer    *)
(* about the documents as they were when they were asked about; the list   *)
(* of the session lies between what is certainly the work of calls and     *)
(* what may be, and a permit keeps it there until the commit is judged.    *)
(* The third is about the directory that the sync of the profiles' agents  *)
(* shares with the user (ProfileAgents), the fourth about what the plugin  *)
(* leaves behind in a V2 host (V2Host), the fifth about the lists of tasks *)
(* of a session and the runs that work on them (TaskCycles).               *)
(***************************************************************************)
EXTENDS Consent, ChangeScope, ProfileAgents, V2Host, TaskCycles,
        SequenceTheorems, FiniteSetTheorems, WellFoundedInduction, TLAPS

-----------------------------------------------------------------------------
(* Approvals.                                                              *)
\* An approval is about what its question asked for.
AsAsked ==
    \A a \in approvals : /\ a.call \in Question
                         /\ a.type = RequestOf[a.call].type
                         /\ a.files = RequestOf[a.call].files
                         /\ DOMAIN a = {"type", "call", "status", "evidence", "files"}

\* The answer d to the question of a grants it, on texts it had been put on.
GrantedBy(a, d) ==
    /\ Len(d.answer) = 1
    /\ ~ IsPrefix(RequestOf[a.call].decline, d.answer[1])
    /\ IsPrefix(RequestOf[a.call].grant, d.answer[1])
    /\ LET asked == RequestOf[a.call].files
       IN  a.evidence = [i \in DOMAIN asked |-> <<asked[i], d.texts[i]>>]

\* What was answered to a question stands as long as the grant it gave.
Grants ==
    ~ AutoApprove =>
    \A a \in approvals : a.status = "granted" => GrantedBy(a, decisions[a.call])

ConsentInv ==
    /\ AsAsked
    /\ OneApprovalPerType
    /\ decisions = [q \in Question |-> decisions[q]]
    /\ Grants

\* At first nothing is approved.
LEMMA ConsentInvInit == ConsentInit => ConsentInv
BY DEF ConsentInit, ConsentInv, AsAsked, OneApprovalPerType, Grants

\* A question is recorded: it takes the place of what was decided for its type.
LEMMA RecordStep ==
    ASSUME ConsentInv, NEW q \in Question, Record(q)
    PROVE  ConsentInv'
<1>1. decisions' = decisions
    BY DEF Record
<1>2. CASE approvals' = approvals
    BY <1>1, <1>2 DEF ConsentInv, AsAsked, OneApprovalPerType, Grants
<1>3. CASE approvals' # approvals
    <2> DEFINE new == Approval(q, IF AutoApprove THEN "granted" ELSE "pending", question[q].evidence)
    <2>1. approvals' = (approvals \ OfType(RequestOf[q].type)) \union {new}
        BY <1>3 DEF Record, Withdrawn, consentTypeOf
    <2>2. /\ new.call = q /\ new.type = RequestOf[q].type /\ new.files = RequestOf[q].files
          /\ ~ AutoApprove => new.status = "pending"
          /\ DOMAIN new = {"type", "call", "status", "evidence", "files"}
        BY DEF Approval, consentTypeOf
    <2> HIDE DEF new
    <2>3. AsAsked'
        BY <2>1, <2>2 DEF ConsentInv, AsAsked
    <2>4. OneApprovalPerType'
        BY <2>1, <2>2 DEF ConsentInv, OneApprovalPerType, OfType
    <2>5. Grants'
        BY <1>1, <2>1, <2>2 DEF ConsentInv, Grants
    <2> QED
        BY <1>1, <2>3, <2>4, <2>5 DEF ConsentInv
<1> QED
    BY <1>2, <1>3

\* A question is answered.  Its approval was the only one of its type, so what
\* is noted of the answer is never noted over the grant of another.
LEMMA AnswerStep ==
    ASSUME ConsentInv, NEW q \in Question, NEW answer \in Answers, Answer(q, answer)
    PROVE  ConsentInv'
<1>1. CASE Open(q) = {}
    <2>1. approvals' = approvals /\ decisions' = decisions
        BY <1>1 DEF Answer, findOpenApproval, ConsentInv
    <2> QED
        BY <2>1 DEF ConsentInv, AsAsked, OneApprovalPerType, Grants
<1>2. CASE Open(q) # {}
    <2> DEFINE a == CHOOSE b \in Open(q) : TRUE
               d == [answer |-> answer, texts |-> TextsOf(q)]
    <2>1. /\ a \in approvals /\ a.call = q /\ a.status = "pending"
          /\ Decide(q, answer, a) /\ decisions' = [decisions EXCEPT ![q] = d]
        BY <1>2 DEF Answer, findOpenApproval, Open
    <2> HIDE DEF a
    <2>2. a.type = RequestOf[q].type /\ a.files = RequestOf[q].files
        BY <2>1 DEF ConsentInv, AsAsked
    <2>3. \A b \in approvals : b # a => b.type # a.type /\ b.call # q
        BY <2>1, <2>2 DEF ConsentInv, AsAsked, OneApprovalPerType
    <2>4. /\ decisions' = [p \in Question |-> decisions'[p]] /\ decisions'[q] = d
          /\ \A p \in Question : p # q => decisions'[p] = decisions[p]
        BY <2>1 DEF ConsentInv
    <2>5. CASE approvals' = approvals \ {a}
        <3>1. AsAsked' /\ OneApprovalPerType'
            BY <2>5 DEF ConsentInv, AsAsked, OneApprovalPerType
        <3>2. Grants'
            BY <2>3, <2>4, <2>5 DEF ConsentInv, AsAsked, Grants
        <3> QED
            BY <2>4, <3>1, <3>2 DEF ConsentInv
    <2>6. CASE approvals' # approvals \ {a}
        <3> DEFINE granted == [a EXCEPT !.status = "granted", !.call = q]
        <3>1. /\ classifyConsentAnswer(answer, q) = "grant" /\ verifyPlanEvidenceAtDecision(a)
              /\ approvals' = (approvals \ OfType(a.type)) \union {granted}
            BY <2>1, <2>6 DEF Decide
        <3>2. /\ DOMAIN granted = {"type", "call", "status", "evidence", "files"}
              /\ granted.call = q /\ granted.type = a.type /\ granted.files = a.files
              /\ granted.evidence = a.evidence
            BY <2>1 DEF ConsentInv, AsAsked
        <3>3. /\ Len(answer) = 1 /\ ~ IsPrefix(RequestOf[q].decline, answer[1])
              /\ IsPrefix(RequestOf[q].grant, answer[1])
            BY <3>1 DEF classifyConsentAnswer
        <3>4. a.evidence = [i \in DOMAIN RequestOf[q].files |->
                              <<RequestOf[q].files[i], TextsOf(q)[i]>>]
            BY <2>2, <3>1 DEF verifyPlanEvidenceAtDecision, calculateDocumentSetEvidence,
                              canonicalizePlan, TextsOf
        <3>5. GrantedBy(granted, d)
            BY <3>2, <3>3, <3>4 DEF GrantedBy
        <3> HIDE DEF granted, d
        <3>6. AsAsked'
            BY <2>2, <3>1, <3>2 DEF ConsentInv, AsAsked
        <3>7. OneApprovalPerType'
            BY <3>1, <3>2 DEF ConsentInv, OneApprovalPerType, OfType
        <3>8. Grants'
            BY <2>1, <2>3, <2>4, <3>1, <3>2, <3>5 DEF ConsentInv, AsAsked, Grants, OfType
        <3> QED
            BY <2>4, <3>6, <3>7, <3>8 DEF ConsentInv
    <2> QED
        BY <2>5, <2>6
<1> QED
    BY <1>1, <1>2

\* Every step keeps the invariant: only these two touch what is approved.
LEMMA ConsentInvStep == ConsentInv /\ [ConsentNext]_consentVars => ConsentInv'
<1> SUFFICES ASSUME ConsentInv, [ConsentNext]_consentVars
             PROVE  ConsentInv'
    OBVIOUS
<1>1. ASSUME UNCHANGED <<approvals, decisions>>
      PROVE  ConsentInv'
    BY <1>1 DEF ConsentInv, AsAsked, OneApprovalPerType, Grants
<1>2. ASSUME NEW q \in Question, Record(q) \/ \E answer \in Answers : Answer(q, answer)
      PROVE  ConsentInv'
    BY <1>2, RecordStep, AnswerStep
<1>3. ASSUME NEW q \in Question,
             Prepare(q) \/ (\E known \in BOOLEAN : Ask(q, known)) \/ SaveRefused(q) \/ AskAgain(q)
      PROVE  UNCHANGED <<approvals, decisions>>
    BY <1>3 DEF Prepare, Ask, SaveRefused, AskAgain
<1>4. ASSUME NEW d \in Document, NEW content \in Content \union {Missing}, Edit(d, content)
      PROVE  UNCHANGED <<approvals, decisions>>
    BY <1>4 DEF Edit
<1> QED
    BY <1>1, <1>2, <1>3, <1>4 DEF ConsentNext, consentVars

\* An approval stands for what the operator was shown and said last, however
\* questions of one type overlap, are shown again, fail to be saved or have
\* their documents edited under them.
THEOREM ConsentIsAlwaysOfWhatWasShown == ConsentSpec => []ConsentIsOfWhatWasShown
<1>1. ASSUME ConsentInv
      PROVE  GrantIsTheOperators
    <2> SUFFICES ASSUME ~ AutoApprove, NEW a \in approvals, a.status = "granted"
                 PROVE  /\ decisions[a.call] # Undecided
                        /\ RequestOf[a.call].type = a.type
                        /\ GrantedBy(a, decisions[a.call])
        BY DEF GrantIsTheOperators, GrantedBy
    <2>1. GrantedBy(a, decisions[a.call]) /\ RequestOf[a.call].type = a.type
        BY <1>1 DEF ConsentInv, Grants, AsAsked
    <2>2. Len(Undecided.answer) # 1
        BY DEF Undecided
    <2> QED
        BY <2>1, <2>2 DEF GrantedBy
<1>2. ConsentInv => ConsentIsOfWhatWasShown
    BY <1>1 DEF ConsentInv, ConsentIsOfWhatWasShown
<1> QED
    BY <1>2, ConsentInvInit, ConsentInvStep, PTL DEF ConsentSpec

-----------------------------------------------------------------------------
(* Scopes, permits and receipts.                                           *)
\* The baseline of a call is what differed from HEAD when it began.
BaselineOf(m) == m.baseline = [f \in {g \in Path : m.before[g] # m.at[g]} |-> m.before[f]]

\* What calls changed and nobody cleaned is in the list of the session, and
\* what is in the list was changed, or committed, during a call.
ListIsBetween ==
    /\ still \subseteq Path
    /\ still \subseteq changedFiles
    /\ changedFiles \subseteq ever

\* So it is with what a permit expects.
PermitIsBetween ==
    /\ deliveryPermit.least \subseteq deliveryPermit.expectedFiles
    /\ deliveryPermit.expectedFiles \subseteq deliveryPermit.most

\* A commit is judged by what its permit expects.
JudgedByThePermit ==
    /\ verdict = "receipt" => headFiles = deliveryPermit.expectedFiles
    /\ verdict = "rejected" => headFiles # deliveryPermit.expectedFiles

ChangeInv ==
    /\ move = [k \in Move |-> move[k]]
    /\ \A k \in Move : move[k].kind = "move" => BaselineOf(move[k])
    /\ files = [f \in Path |-> files[f]]
    /\ DOMAIN deliveryPermit = {"call", "preCommitHead", "expectedFiles", "least", "most"}
    /\ ListIsBetween
    /\ PermitIsBetween
    /\ JudgedByThePermit
    /\ ChangesAreReported

-----------------------------------------------------------------------------
\* What a call changed while HEAD stood still is its scope, what it put back
\* to HEAD included; and of what differs from HEAD the scope misses nothing.
LEMMA ScopeIsTheChange ==
    ASSUME NEW m, BaselineOf(m),
           NEW f \in Path
    PROVE  LET inScope == f \in computeChangeScope(m.baseline)
           IN  /\ head[f] = m.at[f] => (inScope <=> files[f] # m.before[f])
               /\ files[f] # head[f] /\ files[f] # m.before[f] => inScope
               /\ inScope => files[f] # m.before[f] \/ head[f] # m.at[f]
BY DEF BaselineOf, computeChangeScope, Candidates, dirtyPaths

\* A scope is made of files of the project.
LEMMA ScopeIsOfPaths ==
    ASSUME NEW m, BaselineOf(m)
    PROVE  computeChangeScope(m.baseline) \subseteq Path
BY DEF BaselineOf, computeChangeScope, Candidates, dirtyPaths

\* The list and the permit stand between the same bounds as long as files are
\* only dirtied, cleaned and committed.
LEMMA BetweenWhileFilesChange ==
    ASSUME ChangeInv, still' = StillDirty(still),
           UNCHANGED <<changedFiles, ever, deliveryPermit>>, verdict' = "none"
    PROVE  ListIsBetween' /\ PermitIsBetween' /\ JudgedByThePermit'
BY DEF ChangeInv, StillDirty, ListIsBetween, PermitIsBetween, JudgedByThePermit

-----------------------------------------------------------------------------
\* A call begins with the baseline of the files as they are.
LEMMA BeginMoveStep ==
    ASSUME ChangeInv, Silent, NEW k \in Move, BeginMove(k)
    PROVE  ChangeInv'
<1> DEFINE m == [kind |-> "move", baseline |-> captureBaseline, before |-> files, at |-> head]
<1>1. BaselineOf(m)
    BY DEF BaselineOf, captureBaseline, dirtyPaths
<1>2. \A j \in Move : move'[j].kind = "move" => BaselineOf(move'[j])
    <2> HIDE DEF m
    <2>1. move' = [move EXCEPT ![k] = m]
        BY DEF BeginMove, m
    <2> QED BY <1>1, <2>1 DEF ChangeInv
<1>3. \A j \in Move : (BaselineOf(move[j]))' <=> BaselineOf(move'[j])
    BY DEF BaselineOf
<1> QED BY <1>2, <1>3 DEF ChangeInv, BeginMove, Silent, ListIsBetween, PermitIsBetween, JudgedByThePermit, ChangesAreReported

\* A call writes, or the operator does, or something is committed.
LEMMA FilesStep ==
    ASSUME ChangeInv, Silent, still' = StillDirty(still),
           UNCHANGED <<changedFiles, ever, deliveryPermit, move>>,
           files' = [f \in Path |-> files'[f]]
    PROVE  ChangeInv'
<1>1. ListIsBetween' /\ PermitIsBetween' /\ JudgedByThePermit'
    BY BetweenWhileFilesChange DEF Silent
<1>2. \A j \in Move : (BaselineOf(move[j]))' <=> BaselineOf(move[j])
    BY DEF BaselineOf
<1> QED BY <1>1, <1>2 DEF ChangeInv, Silent, ChangesAreReported

\* A call ends: its scope joins the list.
LEMMA FinishMoveStep ==
    ASSUME ChangeInv, NEW k \in Move, FinishMove(k)
    PROVE  ChangeInv'
<1> DEFINE m == move[k]
           scope == computeChangeScope(m.baseline)
           dirtied == {f \in Path : files[f] # m.before[f]}
<1>1. BaselineOf(m)
    BY DEF ChangeInv, FinishMove
<1>2. /\ changedFiles' = dirtyPaths \intersect (changedFiles \union scope)
      /\ reported' = [scope |-> {f \in scope : head[f] = m.at[f]},
                      changed |-> {f \in dirtied : head[f] = m.at[f]}]
      /\ ever' = ever \union dirtied \union {f \in Path : head[f] # m.at[f]}
      /\ still' = {f \in still \union dirtied : files[f] # head[f]}
      /\ move' = [move EXCEPT ![k] = NoMove]
      /\ verdict' = "none"
      /\ UNCHANGED <<files, head, deliveryPermit>>
    BY DEF FinishMove, changedAgainstHead, StillDirty
<1>3. /\ scope \subseteq Path
      /\ \A f \in Path : /\ head[f] = m.at[f] => (f \in scope <=> f \in dirtied)
                         /\ files[f] # head[f] /\ f \in dirtied => f \in scope
                         /\ f \in scope => f \in dirtied \/ head[f] # m.at[f]
    BY <1>1, ScopeIsTheChange, ScopeIsOfPaths
<1> HIDE DEF scope, dirtied, m
<1>4. ChangesAreReported'
    BY <1>2, <1>3 DEF ChangesAreReported, dirtied
<1>5. changedFiles' \subseteq ever'
    BY <1>2, <1>3 DEF ChangeInv, ListIsBetween
<1>6. still' \subseteq changedFiles'
    <2> SUFFICES ASSUME NEW f \in still' PROVE f \in changedFiles'
        OBVIOUS
    <2>1. files[f] # head[f] /\ (f \in still \/ f \in dirtied)
        BY <1>2
    <2>2. CASE f \in dirtied
        BY <1>2, <1>3, <2>1, <2>2 DEF dirtyPaths, dirtied
    <2>3. CASE f \in still
        BY <1>2, <2>1, <2>3 DEF ChangeInv, ListIsBetween, dirtyPaths
    <2> QED BY <2>1, <2>2, <2>3
<1>7. \A j \in Move : move'[j].kind = "move" => (BaselineOf(move[j]))'
    <2>1. \A j \in Move : (BaselineOf(move[j]))' <=> BaselineOf(move'[j])
        BY DEF BaselineOf
    <2> QED BY <1>2, <2>1 DEF ChangeInv, NoMove
<1>8. still' \subseteq Path
    BY <1>2 DEF ChangeInv, ListIsBetween, dirtied
<1> QED BY <1>2, <1>4, <1>5, <1>6, <1>7, <1>8 DEF ChangeInv, ListIsBetween, PermitIsBetween, JudgedByThePermit

\* A delivery is permitted: the expectation lies between the bounds.
LEMMA CommitBeforeStep ==
    ASSUME ChangeInv, Silent, NEW k \in Move, CommitBefore(k)
    PROVE  ChangeInv'
<1>1. /\ deliveryPermit' = [call |-> k, preCommitHead |-> commits, expectedFiles |-> dirtyPaths \intersect changedFiles,
                            least |-> still \intersect dirtyPaths, most |-> ever \intersect dirtyPaths]
      /\ move' = [move EXCEPT ![k] = [kind |-> "delivery"]]
    BY DEF CommitBefore, ExpectedFiles, changedAgainstHead
<1>2. PermitIsBetween'
    BY <1>1 DEF ChangeInv, ListIsBetween, PermitIsBetween
<1>3. \A j \in Move : move'[j].kind = "move" => (BaselineOf(move[j]))'
    <2>1. \A j \in Move : (BaselineOf(move[j]))' <=> BaselineOf(move'[j])
        BY DEF BaselineOf
    <2> QED BY <1>1, <2>1 DEF ChangeInv
<1>4. DOMAIN deliveryPermit' = {"call", "preCommitHead", "expectedFiles", "least", "most"}
    BY <1>1
<1> QED BY <1>1, <1>2, <1>3, <1>4 DEF ChangeInv, CommitBefore, Silent, ListIsBetween, JudgedByThePermit, ChangesAreReported

\* A delivery ends: the commit is judged, and the permit keeps its bounds.
LEMMA HandleCommitStep ==
    ASSUME ChangeInv, NEW k \in Move, HandleCommitTaskAfter(k)
    PROVE  ChangeInv'
<1>1. /\ deliveryPermit'.expectedFiles = deliveryPermit.expectedFiles
      /\ deliveryPermit'.least = deliveryPermit.least
      /\ deliveryPermit'.most = deliveryPermit.most
      /\ DOMAIN deliveryPermit' = DOMAIN deliveryPermit
    BY DEF ChangeInv, HandleCommitTaskAfter
<1>2. /\ verdict' = "receipt" => headFiles = deliveryPermit.expectedFiles
      /\ verdict' = "rejected" => headFiles # deliveryPermit.expectedFiles
    BY DEF HandleCommitTaskAfter
<1>3. \A j \in Move : move'[j].kind = "move" => (BaselineOf(move[j]))'
    <2>1. \A j \in Move : (BaselineOf(move[j]))' <=> BaselineOf(move'[j])
        BY DEF BaselineOf
    <2> QED BY <2>1 DEF ChangeInv, HandleCommitTaskAfter, NoMove
<1> QED BY <1>1, <1>2, <1>3 DEF ChangeInv, HandleCommitTaskAfter, ListIsBetween, PermitIsBetween, JudgedByThePermit, ChangesAreReported

-----------------------------------------------------------------------------
\* At first nothing has changed and nothing is permitted.
LEMMA ChangeInvInit == ChangeInit => ChangeInv
BY DEF ChangeInit, ChangeInv, NoMove, NoPermit, ListIsBetween, PermitIsBetween, JudgedByThePermit, ChangesAreReported

\* Every step keeps the list, the permit and the judgements.
LEMMA ChangeInvStep == ChangeInv /\ [ChangeNext]_changeVars => ChangeInv'
<1> SUFFICES ASSUME ChangeInv, [ChangeNext]_changeVars PROVE ChangeInv'
    OBVIOUS
<1>1. CASE \E k \in Move : FinishMove(k)
    BY <1>1, FinishMoveStep
<1>2. CASE \E k \in Move : HandleCommitTaskAfter(k)
    BY <1>2, HandleCommitStep
<1>3. CASE Silent /\ \E k \in Move : BeginMove(k)
    BY <1>3, BeginMoveStep
<1>4. CASE Silent /\ \E k \in Move : CommitBefore(k)
    BY <1>4, CommitBeforeStep
<1>5. CASE Silent /\ \E k \in Move : Deliver(k)
    <2>1. files' = [f \in Path |-> files'[f]]
        BY <1>5 DEF Deliver, GitCommit, ChangeInv
    <2> QED BY <1>5, <2>1, FilesStep DEF Deliver, GitCommit
<1>6. CASE Silent /\ WriteFile
    <2>1. files' = [f \in Path |-> files'[f]]
        BY <1>6 DEF WriteFile, ChangeInv
    <2> QED BY <1>6, <2>1, FilesStep DEF WriteFile
<1>7. CASE Silent /\ Operator
    <2>1. files' = [f \in Path |-> files'[f]]
        BY <1>7 DEF Operator, OperatorEdits, GitCommit, ChangeInv
    <2> QED BY <1>7, <2>1, FilesStep DEF Operator, OperatorEdits, GitCommit
<1>8. CASE UNCHANGED changeVars
    <2>1. \A j \in Move : (BaselineOf(move[j]))' <=> BaselineOf(move[j])
        BY <1>8 DEF BaselineOf, changeVars
    <2> QED BY <1>8, <2>1 DEF changeVars, ChangeInv, ListIsBetween, PermitIsBetween, JudgedByThePermit, ChangesAreReported
<1> QED BY <1>1, <1>2, <1>3, <1>4, <1>5, <1>6, <1>7, <1>8 DEF ChangeNext

(* However calls, commits and edits of the operator interleave, the scope  *)
(* of a call is what it changed, a receipt is for a commit of nothing but  *)
(* the work of calls and all of it, and the right commit is not refused.   *)
THEOREM ScopesAndReceiptsAreAlwaysTrue == ChangeSpec => []ScopesAndReceiptsAreTrue
<1>1. ChangeInv => ScopesAndReceiptsAreTrue
    BY DEF ChangeInv, PermitIsBetween, JudgedByThePermit, ChangesAreReported,
           ScopesAndReceiptsAreTrue, RightCommitsAreReceipted
<1> QED BY <1>1, ChangeInvInit, ChangeInvStep, PTL DEF ChangeSpec

-----------------------------------------------------------------------------
(* The agents of the profiles.  While nobody else touches the disk, what   *)
(* the sync has still to do for the profile in hand, and nothing else, is  *)
(* what its directory lacks; profiles that are done stay as they were      *)
(* left, where no id begins as another does.                               *)
USE AgentNamesAssumption

Working == {"sweep", "unlink", "write", "fill"}
FileNames == Seq(STRING)
Targets(id) == TargetsOf(id, OnRoster(id))
\* Its own names, and those a failed read made it take for its own or not.
Own(id) == Targets(id) \union swallowed.agents

Fates == {"synced", "removed", "collisions", "errors"}
SyncParts == {"at", "left", "id", "stale", "sources", "name", "content"}
AFile == {"marker", "text"}
KindsSwallowed == {"agents", "ignore", "updates"}

\* What each variable holds.
AgentTypes ==
    /\ DOMAIN profiles = ProfileId
    /\ \A id \in ProfileId :
         /\ DOMAIN profiles[id] = {"json", "agents", "files"}
         /\ profiles[id].json \in {"ok", "broken", "none"}
         /\ DOMAIN profiles[id].files \subseteq AgentName
    /\ DOMAIN targets \subseteq FileNames
    /\ DOMAIN outcome = ProfileId
    /\ \A id \in ProfileId : DOMAIN outcome[id] = Fates
    /\ DOMAIN swallowed = KindsSwallowed
    /\ DOMAIN sync = SyncParts /\ sync.left \subseteq ProfileId
    /\ sync.stale \subseteq FileNames /\ sync.sources \subseteq AgentName
    /\ sync.at \in {"idle", "profiles", "registered"} \union Working
    /\ sync.at \in Working => sync.id \in sync.left
    /\ sync.at \in {"write", "fill"} => sync.name \in FileNames
    /\ sync.at \in {"idle", "registered"} => sync.left = {}
    /\ \A id \in sync.left : profiles[id].json # "none"

\* No file of the user has the marker, nor does what the sync holds come of one.
NothingOfTheUser ==
    /\ \A id \in ProfileId : \A n \in DOMAIN profiles[id].files :
         DOMAIN profiles[id].files[n] = AFile /\ profiles[id].files[n].text # "mine"
    /\ \A t \in DOMAIN targets :
         DOMAIN targets[t] = AFile /\ (isOwned(targets[t]) => targets[t].text # "mine")
    /\ sync.at \in {"write", "fill"} => DOMAIN sync.content = AFile /\ sync.content.text # "mine"
    /\ UsersFilesAreKept

\* The agent n of a profile is there as the profile has it, or reported, or excepted.
Placed(id, n) ==
    \/ /\ targetNameOf(id, n) \in DOMAIN targets
       /\ targets[targetNameOf(id, n)] = injectManagedMarker(profiles[id].files[n])
    \/ targetNameOf(id, n) \in Accounted(id)
Told(id, n) == targetNameOf(id, n) \in outcome[id].synced \union Accounted(id)

\* What is left to do for the profile in hand is what is not done yet.
BeingWritten(n) == sync.at \in {"write", "fill"} /\ sync.name = targetNameOf(sync.id, n)
OneInHand ==
    calm /\ sync.at \in Working =>
        /\ \A t \in sync.stale :
             InProfile(t, sync.id) /\ (t \notin Targets(sync.id) \/ t \in swallowed.agents)
        /\ sync.sources \subseteq DOMAIN profiles[sync.id].files
        /\ TargetsOf(sync.id, sync.sources) \subseteq Own(sync.id)
        /\ sync.at = "unlink" => sync.name \in sync.stale
        /\ sync.at \in {"write", "fill"} =>
             \E n \in DOMAIN profiles[sync.id].files :
               /\ sync.name = targetNameOf(sync.id, n) /\ sync.name \in Own(sync.id)
               /\ sync.content = injectManagedMarker(profiles[sync.id].files[n])
        /\ \A n \in OnRoster(sync.id) :
             /\ n \in sync.sources \/ BeingWritten(n) \/ Placed(sync.id, n)
             /\ n \in sync.sources \/ BeingWritten(n) \/ Told(sync.id, n)
        /\ ExistingTargets(sync.id) \intersect Managed
             \subseteq sync.stale \union Targets(sync.id) \union Accounted(sync.id)

\* A profile that could be read and that the sync is done with.
Done(id) == profiles[id].json # "none" /\ id \notin sync.left /\ Unreadable \notin Reported(id)
LeftInOrder(id) ==
    /\ \A n \in OnRoster(id) : Told(id, n)
    /\ Apart(id) =>
         /\ \A n \in OnRoster(id) : Placed(id, n)
         /\ ExistingTargets(id) \intersect Managed \subseteq Targets(id) \union Accounted(id)
DoneStaysDone ==
    calm /\ sync.at # "idle" => \A id \in ProfileId : Done(id) => LeftInOrder(id)

\* Between two profiles the list is of what is there, once there was one to list for.
ListIsUpToDate ==
    /\ (\A id \in ProfileId : profiles[id].json = "none") => ignore.whose # "plugin"
    /\ calm /\ sync.at \in {"profiles", "registered"} /\ ignore.whose = "plugin"
         /\ IgnoreFile \notin swallowed.ignore
         /\ (\A id \in ProfileId : {IgnoreFile, Unreadable} \intersect outcome[id].errors = {})
         /\ (\E id \in ProfileId : profiles[id].json # "none" /\ id \notin sync.left)
       => ignore.list \subseteq Managed /\ Managed \ ignore.list \subseteq swallowed.ignore

AgentInv ==
    AgentTypes /\ NothingOfTheUser /\ OneInHand /\ DoneStaysDone /\ ListIsUpToDate /\ RegisteredWasPlaced

-----------------------------------------------------------------------------
(* Names.                                                                  *)
\* What is joined to an id begins with the id and goes on.
LEMMA NamesBeginWithTheId ==
    ASSUME NEW id \in ProfileId, NEW n \in AgentName
    PROVE  targetNameOf(id, n) \in FileNames /\ InProfile(targetNameOf(id, n), id)
<1>1. id \in Seq(STRING) /\ n \in Seq(STRING) /\ n # <<>>
    OBVIOUS
<1>2. id \o n \in Seq(STRING) /\ Len(id \o n) = Len(id) + Len(n) /\ Len(n) > 0
    BY <1>1
<1>3. SubSeq(id, 1, Len(id)) = id
    BY <1>1
<1>4. SubSeq(id \o n, 1, Len(id)) = id
    BY <1>1, <1>2
<1> QED
    BY <1>1, <1>2, <1>3, <1>4 DEF targetNameOf, InProfile, IsPrefix, FileNames

\* Two agents of a profile have two files.
LEMMA NamesGoOnAsTheAgent ==
    ASSUME NEW id \in ProfileId, NEW n \in AgentName, NEW m \in AgentName,
           targetNameOf(id, n) = targetNameOf(id, m)
    PROVE  n = m
<1>1. id \in Seq(STRING) /\ n \in Seq(STRING) /\ m \in Seq(STRING) /\ id \o n = id \o m
    BY DEF targetNameOf
<1>2. Len(n) = Len(m)
    BY <1>1
<1>3. ASSUME NEW i \in 1..Len(n) PROVE n[i] = m[i]
    <2>1. (id \o n)[Len(id) + i] = n[i] /\ (id \o m)[Len(id) + i] = m[i]
        BY <1>1, <1>2
    <2> QED
        BY <2>1, <1>1
<1> QED
    BY <1>1, <1>2, <1>3, SeqEqual

\* Of two ids that a name begins with, one begins with the other.
LEMMA TwoFrontsOfOneName ==
    ASSUME NEW t \in FileNames, NEW id \in ProfileId, NEW other \in ProfileId,
           InProfile(t, id), InProfile(t, other)
    PROVE  IsPrefix(id, other) \/ IsPrefix(other, id)
<1> DEFINE front(s) == \A i \in 1..Len(s) : s[i] = t[i]
<1>1. ASSUME NEW s \in ProfileId, InProfile(t, s) PROVE front(s) /\ Len(s) <= Len(t)
    <2>1. s \in Seq(STRING) /\ t \in Seq(STRING) /\ Len(s) < Len(t)
          /\ SubSeq(s, 1, Len(s)) = SubSeq(t, 1, Len(s))
        BY <1>1 DEF InProfile, IsPrefix, FileNames
    <2>2. ASSUME NEW i \in 1..Len(s) PROVE s[i] = t[i]
        <3>1. SubSeq(s, 1, Len(s))[i] = s[i] /\ SubSeq(t, 1, Len(s))[i] = t[i]
            BY <2>1
        <3> QED
            BY <2>1, <3>1
    <2> QED
        BY <2>1, <2>2
<1>2. ASSUME NEW a \in ProfileId, NEW b \in ProfileId, front(a), front(b), Len(a) <= Len(b)
      PROVE  IsPrefix(a, b)
    <2>1. a \in Seq(STRING) /\ b \in Seq(STRING)
        OBVIOUS
    <2>2. SubSeq(a, 1, Len(a)) \in Seq(STRING) /\ SubSeq(b, 1, Len(a)) \in Seq(STRING)
          /\ Len(SubSeq(a, 1, Len(a))) = Len(a) /\ Len(SubSeq(b, 1, Len(a))) = Len(a)
        BY <2>1, <1>2
    <2>3. ASSUME NEW i \in 1..Len(a) PROVE SubSeq(a, 1, Len(a))[i] = SubSeq(b, 1, Len(a))[i]
        BY <2>1, <1>2
    <2>4. SubSeq(a, 1, Len(a)) = SubSeq(b, 1, Len(a))
        <3> HIDE DEF front
        <3> QED BY <2>2, <2>3, SeqEqual
    <2> QED
        BY <2>1, <1>2, <2>4 DEF IsPrefix
<1> HIDE DEF front
<1>3. Len(id) \in Nat /\ Len(other) \in Nat
    <2>1. id \in Seq(STRING) /\ other \in Seq(STRING)
        OBVIOUS
    <2> QED BY <2>1
<1> QED
    BY <1>1, <1>2, <1>3

-----------------------------------------------------------------------------
(* One profile is in hand, the others are not touched.                     *)
SameFile(t) ==
    /\ t \in DOMAIN targets' <=> t \in DOMAIN targets
    /\ t \in DOMAIN targets => targets'[t] = targets[t]

\* What happens to the names of one profile leaves another that is done in order.
LEMMA OthersStay ==
    ASSUME AgentTypes, DoneStaysDone, calm, sync.at \in Working, profiles' = profiles,
           sync.left' \in {sync.left, sync.left \ {sync.id}},
           \A id \in ProfileId \ {sync.id} : outcome[id]' = outcome[id],
           \A t \in FileNames : InProfile(t, sync.id) \/ SameFile(t),
           DOMAIN targets' \subseteq FileNames, swallowed.agents \subseteq swallowed'.agents,
           NEW id \in ProfileId \ {sync.id}, Done(id)'
    PROVE  LeftInOrder(id)'
<1>1. sync.id \in ProfileId /\ id \in ProfileId
    BY DEF AgentTypes
<1>2. outcome[id]' = outcome[id] /\ Reported(id)' = Reported(id) /\ Accounted(id) \subseteq Accounted(id)'
    BY DEF Reported, Accounted
<1>3. LeftInOrder(id)
    BY <1>2 DEF Done, DoneStaysDone, Working
<1>4. OnRoster(id)' = OnRoster(id) /\ Targets(id)' = Targets(id) /\ Apart(id)' = Apart(id)
      /\ OnRoster(id) \subseteq AgentName
    BY <1>1 DEF OnRoster, RosterAsRead, listProfileAgents, Targets, TargetsOf, Apart, AgentTypes
<1>5. \A n \in OnRoster(id) : Told(id, n)'
    BY <1>2, <1>3, <1>4 DEF LeftInOrder, Told
<1>6. ASSUME Apart(id), NEW t \in FileNames, InProfile(t, id)
      PROVE  SameFile(t)
    <2>1. ~ InProfile(t, sync.id)
        BY <1>1, <1>6, TwoFrontsOfOneName DEF Apart
    <2> QED
        BY <2>1
<1>7. ASSUME Apart(id), NEW n \in OnRoster(id)
      PROVE  Placed(id, n)'
    <2>1. targetNameOf(id, n) \in FileNames /\ InProfile(targetNameOf(id, n), id)
        BY <1>1, <1>4, NamesBeginWithTheId
    <2>2. Placed(id, n)
        BY <1>3, <1>7 DEF LeftInOrder
    <2> QED
        BY <1>2, <1>6, <1>7, <2>1, <2>2 DEF Placed, SameFile
<1>8. ASSUME Apart(id)
      PROVE  (ExistingTargets(id) \intersect Managed)' \subseteq Targets(id) \union Accounted(id)'
    <2>1. ExistingTargets(id) \intersect Managed \subseteq Targets(id) \union Accounted(id)'
        BY <1>2, <1>3, <1>8 DEF LeftInOrder
    <2>2. ASSUME NEW t \in (ExistingTargets(id) \intersect Managed)'
          PROVE  t \in ExistingTargets(id) \intersect Managed
        <3>1. t \in DOMAIN targets' /\ InProfile(t, id) /\ isOwned(targets'[t])
            BY DEF ExistingTargets, Managed
        <3>2. t \in DOMAIN targets /\ targets'[t] = targets[t]
            BY <1>6, <1>8, <3>1 DEF SameFile
        <3> QED
            BY <3>1, <3>2 DEF ExistingTargets, Managed
    <2> QED
        BY <2>1, <2>2
<1> QED
    BY <1>2, <1>4, <1>5, <1>7, <1>8 DEF LeftInOrder

\* While one is in hand it is not done, and between two nothing is due.
LEMMA OneStaysInHand ==
    ASSUME AgentTypes, DoneStaysDone, ListIsUpToDate, calm' = calm, sync.at \in Working,
           profiles' = profiles, ignore' = ignore,
           sync.at' \in Working, sync.left' = sync.left, sync.id' = sync.id,
           \A id \in ProfileId \ {sync.id} : outcome[id]' = outcome[id],
           calm => \A t \in FileNames : InProfile(t, sync.id) \/ SameFile(t),
           DOMAIN targets' \subseteq FileNames, swallowed.agents \subseteq swallowed'.agents
    PROVE  DoneStaysDone' /\ ListIsUpToDate' /\ RegisteredWasPlaced'
<1>1. sync.left' = sync.left /\ sync.id \in sync.left /\ sync'.at \in Working
      /\ sync'.at \notin {"idle", "profiles", "registered"}
    BY DEF AgentTypes, Working
<1>2. DoneStaysDone'
    <2> SUFFICES ASSUME calm, NEW id \in ProfileId, Done(id)' PROVE LeftInOrder(id)'
        BY DEF DoneStaysDone
    <2>1. id # sync.id
        BY <1>1 DEF Done
    <2> QED
        BY <1>1, <2>1, OthersStay
<1>3. ListIsUpToDate'
    BY <1>1 DEF ListIsUpToDate
<1>4. RegisteredWasPlaced'
    BY <1>1 DEF RegisteredWasPlaced
<1> QED
    BY <1>2, <1>3, <1>4

-----------------------------------------------------------------------------
(* The steps.                                                              *)
\* At first nothing is under way, and the files are the first ones.
LEMMA AgentInvInit == AgentInit => AgentInv
<1> SUFFICES ASSUME AgentInit PROVE AgentInv
    OBVIOUS
<1>1. AgentTypes
    BY FirstProfilesAssumption, FirstTargetsAssumption
       DEF AgentInit, AgentTypes, FileNames, Idle, NoOutcome, Working, Fates, SyncParts,
           NothingSwallowed, KindsSwallowed
<1> USE DEF AgentInit, Idle, Working
<1>2. NothingOfTheUser
    BY FirstProfilesAssumption, FirstTargetsAssumption
       DEF NothingOfTheUser, UsersFilesAreKept, isOwned, AFile
<1>3. OneInHand /\ DoneStaysDone /\ ListIsUpToDate /\ RegisteredWasPlaced
    BY DEF OneInHand, DoneStaysDone, ListIsUpToDate, RegisteredWasPlaced, NoIgnore
<1> QED
    BY <1>1, <1>2, <1>3 DEF AgentInv

\* When a sync starts all of what is there is left to do.
LEMMA StartSyncStep ==
    ASSUME AgentInv, StartSync
    PROVE  AgentInv'
<1>1. AgentTypes'
    BY DEF AgentInv, StartSync, AgentTypes, Idle, NoOutcome, Working, Fates, SyncParts,
           NothingSwallowed, KindsSwallowed
<1> USE DEF StartSync, Idle, Working
<1>2. NothingOfTheUser'
    BY DEF AgentInv, NothingOfTheUser, UsersFilesAreKept
<1>3. \A id \in ProfileId : profiles'[id].json # "none" => id \in sync'.left
    OBVIOUS
<1>4. OneInHand' /\ DoneStaysDone' /\ RegisteredWasPlaced'
    BY <1>3 DEF OneInHand, DoneStaysDone, Done, RegisteredWasPlaced
<1>5. ListIsUpToDate'
    BY <1>3 DEF AgentInv, ListIsUpToDate
<1> QED
    BY <1>1, <1>2, <1>4, <1>5 DEF AgentInv

\* A profile is given up, which is reported, or taken in hand with all there is to do.
LEMMA BeginProfileStep ==
    ASSUME AgentInv, NEW id \in ProfileId, NEW failed, BeginProfile(id, failed)
    PROVE  AgentInv'
<1>0. /\ sync.at = "profiles" /\ id \in sync.left /\ AgentTypes
      /\ profiles' = profiles /\ targets' = targets /\ ignore' = ignore /\ updates' = updates
      /\ calm' = calm /\ seen' = seen
    BY DEF BeginProfile, AgentInv
<1>1. CASE profiles[id].json = "broken" \/ "profile" \in failed
    <2>1. /\ outcome' = [outcome EXCEPT ![id].errors = {Unreadable}]
          /\ sync' = [sync EXCEPT !.left = @ \ {id}] /\ swallowed' = swallowed
        BY <1>1 DEF BeginProfile
    <2>2. AgentTypes'
        BY <1>0, <2>1 DEF AgentTypes, Working, Fates, SyncParts
    <2>3. Unreadable \in outcome'[id].errors
        BY <1>0, <2>1 DEF AgentTypes, Fates
    <2>4. \A other \in ProfileId \ {id} : outcome'[other] = outcome[other]
        BY <1>0, <2>1 DEF AgentTypes
    <2>5. sync'.at = "profiles" /\ sync'.left = sync.left \ {id}
        BY <1>0, <2>1 DEF AgentTypes, SyncParts
    <2>6. NothingOfTheUser'
        BY <1>0, <2>5 DEF AgentInv, NothingOfTheUser, UsersFilesAreKept
    <2>7. OneInHand' /\ RegisteredWasPlaced'
        BY <2>5 DEF OneInHand, RegisteredWasPlaced, Working
    <2>8. DoneStaysDone'
        <3> SUFFICES ASSUME calm, NEW other \in ProfileId, Done(other)'
                     PROVE  LeftInOrder(other)'
            BY <1>0 DEF DoneStaysDone
        <3>1. other # id
            BY <2>3 DEF Done, Reported
        <3>2. outcome'[other] = outcome[other] /\ Done(other)
            BY <1>0, <2>4, <2>5, <3>1 DEF Done, Reported
        <3>3. LeftInOrder(other)
            BY <1>0, <3>2 DEF AgentInv, DoneStaysDone
        <3> QED
            BY <1>0, <2>1, <3>2, <3>3
               DEF LeftInOrder, Told, Placed, Reported, Accounted, OnRoster, RosterAsRead,
                   listProfileAgents, Targets, TargetsOf, ExistingTargets, Managed, Apart
    <2>9. ListIsUpToDate'
        BY <1>0, <2>3 DEF AgentInv, ListIsUpToDate
    <2> QED
        BY <2>2, <2>6, <2>7, <2>8, <2>9 DEF AgentInv
<1>2. CASE ~ (profiles[id].json = "broken" \/ "profile" \in failed)
    <2> DEFINE roster == RosterAsRead(id, failed)
               looked == TargetsAsRead(id, failed)
    <2>1. /\ sync' = [sync EXCEPT !.at = "sweep", !.id = id, !.sources = roster,
                         !.stale = looked \ TargetsOf(id, roster)]
          /\ swallowed' = [swallowed EXCEPT !.agents = @ \union Misread(id, failed)]
          /\ outcome' = outcome
        BY <1>2 DEF BeginProfile
    <2>2. /\ roster \subseteq DOMAIN profiles[id].files /\ roster \subseteq AgentName
          /\ looked \subseteq ExistingTargets(id) /\ ExistingTargets(id) \subseteq FileNames
        BY <1>0 DEF AgentTypes, RosterAsRead, TargetsAsRead, ExistingTargets
    <2>3. Misread(id, failed) =
            TargetsOf(id, (OnRoster(id) \ roster) \union (roster \ OnRoster(id)))
              \union ((ExistingTargets(id) \ looked) \ TargetsOf(id, roster))
        BY DEF Misread
    <2> HIDE DEF roster, looked
    <2>4. /\ sync'.at = "sweep" /\ sync'.id = id /\ sync'.sources = roster
          /\ sync'.stale = looked \ TargetsOf(id, roster) /\ sync'.left = sync.left
          /\ swallowed'.agents = swallowed.agents \union Misread(id, failed)
          /\ DOMAIN swallowed' = KindsSwallowed
          /\ AgentTypes'
        BY <1>0, <2>1, <2>2 DEF AgentTypes, SyncParts, Working, KindsSwallowed
    <2>5. NothingOfTheUser'
        BY <1>0, <2>4 DEF AgentInv, NothingOfTheUser, UsersFilesAreKept
    <2>6. OneInHand'
        <3>1. OnRoster(id)' = OnRoster(id) /\ Targets(id)' = Targets(id)
              /\ (ExistingTargets(id) \intersect Managed)' = ExistingTargets(id) \intersect Managed
            BY <1>0 DEF OnRoster, RosterAsRead, listProfileAgents, Targets, TargetsOf, ExistingTargets, Managed
        <3>2. \A n \in roster : targetNameOf(id, n) \in Targets(id) \union Misread(id, failed)
            BY <2>3 DEF Targets, TargetsOf
        <3>3. \A n \in OnRoster(id) \ roster : targetNameOf(id, n) \in Misread(id, failed)
            BY <2>3 DEF TargetsOf
        <3>4. ASSUME NEW t \in sync'.stale
              PROVE  InProfile(t, id) /\ (t \notin Targets(id) \/ t \in Misread(id, failed))
            <4>1. t \in ExistingTargets(id) /\ t \notin TargetsOf(id, roster)
                BY <2>2, <2>4
            <4>2. ASSUME t \in Targets(id) PROVE t \in Misread(id, failed)
                <5>1. PICK n \in OnRoster(id) : t = targetNameOf(id, n)
                    BY <4>2 DEF Targets, TargetsOf
                <5>2. n \notin roster
                    BY <4>1, <5>1 DEF TargetsOf
                <5> QED
                    BY <3>3, <5>1, <5>2
            <4> QED
                BY <4>1, <4>2 DEF ExistingTargets
        <3>5. TargetsOf(id, roster) \subseteq Targets(id) \union Misread(id, failed)
            BY <3>2 DEF TargetsOf
        <3>6. ExistingTargets(id) \subseteq sync'.stale \union Targets(id) \union Misread(id, failed)
            BY <2>3, <2>4, <3>5
        <3>7. \A n \in OnRoster(id) : n \in sync'.sources \/ targetNameOf(id, n) \in swallowed'.agents
            BY <2>4, <3>3
        <3>8. swallowed'.agents \subseteq Accounted(id)' /\ Misread(id, failed) \subseteq swallowed'.agents
            BY <2>4 DEF Accounted
        <3>9. /\ \A n \in OnRoster(id) : n \in sync'.sources \/ Placed(id, n)'
              /\ \A n \in OnRoster(id) : n \in sync'.sources \/ Told(id, n)'
            BY <3>7, <3>8 DEF Placed, Told
        <3> QED
            BY <1>0, <2>2, <2>4, <3>1, <3>4, <3>5, <3>6, <3>8, <3>9 DEF OneInHand, Own
    <2>7. RegisteredWasPlaced' /\ ListIsUpToDate'
        BY <1>0, <2>4 DEF AgentInv, RegisteredWasPlaced, ListIsUpToDate
    <2>8. DoneStaysDone'
        <3> SUFFICES ASSUME calm, NEW other \in ProfileId, Done(other)'
                     PROVE  LeftInOrder(other)'
            BY <1>0 DEF DoneStaysDone
        <3>1. LeftInOrder(other)
            BY <1>0, <2>1, <2>4 DEF AgentInv, DoneStaysDone, Done, Reported
        <3>2. Accounted(other) \subseteq Accounted(other)'
            BY <2>1, <2>4 DEF Accounted, Reported
        <3> QED
            BY <1>0, <2>1, <3>1, <3>2
               DEF LeftInOrder, Told, Placed, OnRoster, RosterAsRead, listProfileAgents, Targets,
                   TargetsOf, ExistingTargets, Managed, Apart
    <2> QED
        BY <2>4, <2>5, <2>6, <2>7, <2>8 DEF AgentInv
<1> QED
    BY <1>1, <1>2

\* What the profile in hand ships does not change, nor whether it can be read.
LEMMA SameRoster ==
    ASSUME profiles' = profiles, sync.id' = sync.id
    PROVE  OnRoster(sync.id)' = OnRoster(sync.id) /\ Targets(sync.id)' = Targets(sync.id)
BY DEF OnRoster, RosterAsRead, listProfileAgents, Targets, TargetsOf

\* A file that is looked at before it is removed is not there, cannot be
\* read, is not the plugin's, or is in hand.
LEMMA LookAtStaleStep ==
    ASSUME AgentInv, NEW t \in sync.stale, NEW read, LookAtStale(t, read)
    PROVE  AgentInv'
<1> DEFINE c == sync.id
<1>0. /\ sync.at = "sweep" /\ AgentTypes /\ c \in ProfileId
      /\ profiles' = profiles /\ targets' = targets /\ ignore' = ignore /\ calm' = calm
    BY DEF LookAtStale, AgentInv, AgentTypes, Working
<1>1. \/ /\ t \notin DOMAIN targets \/ ~ read
         /\ outcome' = outcome /\ seen' = seen
         /\ sync' = [sync EXCEPT !.stale = @ \ {t}]
         /\ swallowed' = [swallowed EXCEPT !.agents = @ \union (DOMAIN targets \intersect {t})]
      \/ /\ t \in DOMAIN targets /\ ~ isOwned(targets[t]) /\ seen' = seen /\ swallowed' = swallowed
         /\ sync' = [sync EXCEPT !.stale = @ \ {t}]
         /\ outcome' = [outcome EXCEPT ![c].collisions = @ \union {t}]
      \/ /\ t \in DOMAIN targets /\ isOwned(targets[t]) /\ outcome' = outcome /\ swallowed' = swallowed
         /\ sync' = [sync EXCEPT !.at = "unlink", !.name = t] /\ seen' = targets[t]
    BY DEF LookAtStale
<1>2. /\ sync.left' = sync.left /\ sync.id' = c /\ sync.sources' = sync.sources
      /\ sync.content' = sync.content /\ DOMAIN sync' = SyncParts
      /\ swallowed.agents \subseteq swallowed'.agents /\ DOMAIN swallowed' = KindsSwallowed
      /\ \/ /\ sync.at' = "sweep" /\ sync.stale' = sync.stale \ {t}
            /\ t \notin Managed \/ t \in swallowed'.agents
         \/ /\ sync.at' = "unlink" /\ sync.stale' = sync.stale /\ sync.name' = t
            /\ isOwned(targets[t]) /\ t \in DOMAIN targets /\ seen' = targets[t]
    <2>1. DOMAIN sync = SyncParts /\ DOMAIN swallowed = KindsSwallowed
        BY <1>0 DEF AgentTypes
    <2>2. ASSUME sync' = [sync EXCEPT !.stale = @ \ {t}]
          PROVE  /\ sync'.left = sync.left /\ sync'.id = c /\ sync'.sources = sync.sources
                 /\ sync'.content = sync.content /\ DOMAIN sync' = SyncParts
                 /\ sync'.at = "sweep" /\ sync'.stale = sync.stale \ {t}
        BY <1>0, <2>1, <2>2 DEF SyncParts
    <2>3. CASE /\ t \notin DOMAIN targets \/ ~ read
               /\ sync' = [sync EXCEPT !.stale = @ \ {t}]
               /\ swallowed' = [swallowed EXCEPT !.agents = @ \union (DOMAIN targets \intersect {t})]
        <3>1. /\ swallowed'.agents = swallowed.agents \union (DOMAIN targets \intersect {t})
              /\ DOMAIN swallowed' = KindsSwallowed
            BY <2>1, <2>3 DEF KindsSwallowed
        <3>2. t \notin Managed \/ t \in swallowed'.agents
            BY <3>1 DEF Managed
        <3> QED
            BY <2>2, <2>3, <3>1, <3>2
    <2>4. CASE /\ ~ isOwned(targets[t]) /\ swallowed' = swallowed
               /\ sync' = [sync EXCEPT !.stale = @ \ {t}]
        <3>1. t \notin Managed
            BY <2>4 DEF Managed
        <3> QED
            BY <2>1, <2>2, <2>4, <3>1
    <2>5. CASE /\ t \in DOMAIN targets /\ isOwned(targets[t]) /\ swallowed' = swallowed
               /\ sync' = [sync EXCEPT !.at = "unlink", !.name = t] /\ seen' = targets[t]
        BY <1>0, <2>1, <2>5 DEF SyncParts
    <2> QED
        BY <1>1, <2>3, <2>4, <2>5
<1>3. /\ DOMAIN outcome' = ProfileId
      /\ \A id \in ProfileId : DOMAIN outcome'[id] = Fates
      /\ \A id \in ProfileId \ {c} : outcome'[id] = outcome[id]
      /\ outcome'[c].synced = outcome[c].synced /\ outcome'[c].errors = outcome[c].errors
      /\ outcome[c].collisions \subseteq outcome'[c].collisions
    <2>1. CASE outcome' = outcome
        BY <1>0, <1>1, <2>1 DEF AgentTypes
    <2>2. CASE outcome' = [outcome EXCEPT ![c].collisions = @ \union {t}]
        BY <1>0, <2>2 DEF AgentTypes, Fates
    <2> QED
        BY <1>1, <2>1, <2>2
<1>4. AgentTypes'
    BY <1>0, <1>2, <1>3 DEF AgentTypes, Working
<1>5. NothingOfTheUser'
    <2>1. sync.at' = "unlink" => seen'.text # "mine"
        BY <1>2 DEF AgentInv, NothingOfTheUser
    <2> QED
        BY <1>0, <1>2, <2>1 DEF AgentInv, NothingOfTheUser, UsersFilesAreKept
<1>6. DoneStaysDone' /\ ListIsUpToDate' /\ RegisteredWasPlaced'
    BY <1>0, <1>2, <1>3, OneStaysInHand DEF AgentInv, Working, AgentTypes, SameFile
<1>7. OneInHand'
    <2> SUFFICES ASSUME calm PROVE OneInHand'
        BY <1>0 DEF OneInHand
    <2>1. /\ OnRoster(c)' = OnRoster(c) /\ Targets(c)' = Targets(c) /\ Managed' = Managed
          /\ ExistingTargets(c)' = ExistingTargets(c)
        BY <1>0, <1>2, SameRoster DEF Managed, ExistingTargets
    <2>2. /\ Accounted(c) \subseteq Accounted(c)' /\ Own(c) \subseteq Own(c)'
          /\ swallowed'.agents \subseteq Accounted(c)'
        BY <1>2, <1>3, <2>1 DEF Accounted, Reported, Own
    <2>3. (ExistingTargets(c) \intersect Managed)' \subseteq
            sync'.stale \union Targets(c) \union Accounted(c)'
        <3>1. ExistingTargets(c) \intersect Managed \subseteq sync.stale \union Targets(c) \union Accounted(c)
            BY <1>0 DEF AgentInv, OneInHand, Working
        <3> QED
            BY <1>2, <2>1, <2>2, <3>1
    <2>5. \A n \in OnRoster(c) : (n \in sync.sources \/ Placed(c, n)') /\ (n \in sync.sources \/ Told(c, n)')
        BY <1>0, <1>2, <1>3, <2>2 DEF AgentInv, OneInHand, BeingWritten, Placed, Told, Working
    <2>6. /\ \A u \in sync'.stale : InProfile(u, c) /\ (u \notin Targets(c) \/ u \in swallowed'.agents)
          /\ TargetsOf(c, sync'.sources) \subseteq Own(c)'
          /\ sync'.at = "unlink" => sync'.name \in sync'.stale
        BY <1>0, <1>2, <2>2 DEF AgentInv, OneInHand, Working
    <2>7. sync'.sources \subseteq DOMAIN profiles'[c].files
        BY <1>0, <1>2 DEF AgentInv, OneInHand, Working
    <2> QED
        BY <1>0, <1>2, <2>1, <2>3, <2>5, <2>6, <2>7 DEF OneInHand, Working
<1> QED
    BY <1>4, <1>5, <1>6, <1>7 DEF AgentInv

\* A stale file goes, or its name is reported.
LEMMA UnlinkStaleStep ==
    ASSUME AgentInv, NEW ok \in BOOLEAN, UnlinkStale(ok)
    PROVE  AgentInv'
<1> DEFINE c == sync.id
           t == sync.name
<1>0. /\ sync.at = "unlink" /\ AgentTypes /\ c \in ProfileId
      /\ profiles' = profiles /\ ignore' = ignore /\ calm' = calm /\ seen' = seen
      /\ sync' = [sync EXCEPT !.at = "sweep", !.stale = @ \ {t}] /\ swallowed' = swallowed
    BY DEF UnlinkStale, AgentInv, AgentTypes, Working
<1>1. \/ /\ targets' = [u \in DOMAIN targets \ {t} |-> targets[u]]
         /\ outcome' = [outcome EXCEPT ![c].removed = @ \union {t}]
      \/ /\ targets' = targets
         /\ outcome' = [outcome EXCEPT ![c].errors = @ \union {t}]
    BY DEF UnlinkStale, DropTarget
<1>2. /\ sync.left' = sync.left /\ sync.id' = c /\ sync.sources' = sync.sources
      /\ DOMAIN sync' = SyncParts /\ sync.at' = "sweep" /\ sync.stale' = sync.stale \ {t}
    BY <1>0 DEF AgentTypes, SyncParts
<1>3. /\ DOMAIN outcome' = ProfileId
      /\ \A id \in ProfileId : DOMAIN outcome'[id] = Fates
      /\ \A id \in ProfileId \ {c} : outcome'[id] = outcome[id]
      /\ outcome'[c].synced = outcome[c].synced
      /\ outcome[c].errors \subseteq outcome'[c].errors
      /\ outcome'[c].collisions = outcome[c].collisions
    BY <1>0, <1>1 DEF AgentTypes, Fates
<1>4. /\ DOMAIN targets' \subseteq DOMAIN targets
      /\ \A u \in DOMAIN targets' : targets'[u] = targets[u]
      /\ \A u \in DOMAIN targets : u = t \/ u \in DOMAIN targets'
    BY <1>1
<1>5. AgentTypes'
    BY <1>0, <1>2, <1>3, <1>4 DEF AgentTypes, Working
<1>6. NothingOfTheUser'
    BY <1>0, <1>2, <1>4 DEF AgentInv, NothingOfTheUser, UsersFilesAreKept
<1>7. calm => t \in sync.stale /\ InProfile(t, c) /\ (t \notin Targets(c) \/ t \in swallowed.agents)
    BY <1>0 DEF AgentInv, OneInHand, Working
<1>8. DoneStaysDone' /\ ListIsUpToDate' /\ RegisteredWasPlaced'
    <2>1. calm => \A u \in FileNames : InProfile(u, c) \/ SameFile(u)
        <3>1. \A u : u = t \/ SameFile(u)
            BY <1>4 DEF SameFile
        <3> QED
            BY <1>7, <3>1
    <2> QED
        BY <1>0, <1>2, <1>3, <1>5, <2>1, OneStaysInHand DEF AgentInv, Working, AgentTypes
<1>9. OneInHand'
    <2> SUFFICES ASSUME calm PROVE OneInHand'
        BY <1>0 DEF OneInHand
    <2>1. OnRoster(c)' = OnRoster(c) /\ Targets(c)' = Targets(c)
        BY <1>0, <1>2, SameRoster
    <2>2. Accounted(c) \subseteq Accounted(c)' /\ swallowed.agents \subseteq Accounted(c)'
        BY <1>0, <1>2, <1>3 DEF Accounted, Reported
    <2>3. (ExistingTargets(c) \intersect Managed)' \subseteq
            (sync.stale \ {t}) \union Targets(c) \union Accounted(c)'
        <3> SUFFICES ASSUME NEW u \in (ExistingTargets(c) \intersect Managed)'
                     PROVE  u \in sync.stale \ {t} \/ u \in Targets(c) \/ u \in Accounted(c)'
            OBVIOUS
        <3>1. u \in ExistingTargets(c) \intersect Managed
            BY <1>2, <1>4 DEF ExistingTargets, Managed
        <3>2. u \in sync.stale \/ u \in Targets(c) \/ u \in Accounted(c)
            BY <1>0, <3>1 DEF AgentInv, OneInHand, Working
        <3>3. u = t => t \in Accounted(c)'
            BY <1>0, <1>1, <1>2 DEF ExistingTargets, Accounted, Reported, AgentTypes, Fates
        <3> QED
            BY <2>2, <3>2, <3>3
    <2>4. \A n \in OnRoster(c) : (n \in sync.sources \/ Placed(c, n)') /\ (n \in sync.sources \/ Told(c, n)')
        <3> SUFFICES ASSUME NEW n \in OnRoster(c), n \notin sync.sources
                     PROVE  Placed(c, n)' /\ Told(c, n)'
            OBVIOUS
        <3>1. Placed(c, n) /\ Told(c, n)
            BY <1>0 DEF AgentInv, OneInHand, BeingWritten, Working
        <3>2. CASE targetNameOf(c, n) = t
            <4>1. t \in Targets(c)
                BY <3>2 DEF Targets, TargetsOf
            <4>2. t \in Accounted(c)'
                BY <1>7, <2>2, <4>1
            <4> QED
                BY <1>2, <3>2, <4>2 DEF Placed, Told
        <3>3. CASE targetNameOf(c, n) # t
            <4>1. Told(c, n)'
                BY <1>2, <1>3, <2>2, <3>1 DEF Told
            <4>2. targetNameOf(c, n) \in DOMAIN targets =>
                    /\ targetNameOf(c, n) \in DOMAIN targets'
                    /\ targets'[targetNameOf(c, n)] = targets[targetNameOf(c, n)]
                BY <1>4, <3>3
            <4> QED
                BY <1>0, <1>2, <2>2, <3>1, <4>1, <4>2 DEF Placed
        <3> QED
            BY <3>2, <3>3
    <2>5. /\ \A u \in sync'.stale : InProfile(u, c) /\ (u \notin Targets(c) \/ u \in swallowed'.agents)
          /\ sync'.sources \subseteq DOMAIN profiles'[c].files
          /\ TargetsOf(c, sync'.sources) \subseteq Own(c) /\ Own(c)' = Own(c)
        BY <1>0, <1>2, <2>1 DEF AgentInv, OneInHand, Working, Own
    <2> QED
        BY <1>0, <1>2, <2>1, <2>3, <2>4, <2>5 DEF OneInHand, Working
<1> QED
    BY <1>5, <1>6, <1>8, <1>9 DEF AgentInv

\* The marker does not make a text another.
LEMMA MarkingKeepsTheText ==
    ASSUME NEW content, DOMAIN content = AFile
    PROVE  /\ DOMAIN injectManagedMarker(content) = AFile
           /\ injectManagedMarker(content).text = content.text
BY DEF injectManagedMarker, AFile

\* An agent that is looked at is reported, or in hand to be written.
LEMMA LookAtTargetStep ==
    ASSUME AgentInv, NEW n \in AgentName, NEW sourceRead \in BOOLEAN, NEW targetRead \in BOOLEAN,
           LookAtTarget(n, sourceRead, targetRead)
    PROVE  AgentInv'
<1> DEFINE c == sync.id
           t == targetNameOf(c, n)
           there == targetRead /\ t \in DOMAIN targets
<1>0. /\ sync.at = "sweep" /\ sync.stale = {} /\ n \in sync.sources /\ AgentTypes /\ c \in ProfileId
      /\ profiles' = profiles /\ targets' = targets /\ ignore' = ignore /\ calm' = calm
      /\ swallowed' = swallowed
    BY DEF LookAtTarget, AgentInv, AgentTypes, Working
<1>1. \/ \E fate \in {"errors", "collisions"} :
           /\ sync' = [sync EXCEPT !.sources = @ \ {n}] /\ seen' = seen
           /\ outcome' = [outcome EXCEPT ![c][fate] = @ \union {t}]
      \/ /\ n \in DOMAIN profiles[c].files /\ (there => isOwned(targets[t])) /\ outcome' = outcome
         /\ sync' = [sync EXCEPT !.at = "write", !.name = t, !.sources = @ \ {n},
                                 !.content = injectManagedMarker(profiles[c].files[n])]
         /\ seen' = IF there THEN targets[t] ELSE NoContent
    BY DEF LookAtTarget, SkipSource
<1> HIDE DEF there
<1>2. /\ sync.left' = sync.left /\ sync.id' = c /\ sync.sources' = sync.sources \ {n}
      /\ sync.stale' = {} /\ DOMAIN sync' = SyncParts
    BY <1>0, <1>1 DEF AgentTypes, SyncParts
<1>3. \/ sync'.at = "sweep" /\ t \in outcome'[c].errors \union outcome'[c].collisions
      \/ /\ sync'.at = "write" /\ sync'.name = t /\ n \in DOMAIN profiles[c].files
         /\ sync'.content = injectManagedMarker(profiles[c].files[n])
         /\ there => isOwned(targets[t])
         /\ seen' = IF there THEN targets[t] ELSE NoContent
    <2>1. ASSUME NEW fate \in {"errors", "collisions"},
                 sync' = [sync EXCEPT !.sources = @ \ {n}],
                 outcome' = [outcome EXCEPT ![c][fate] = @ \union {t}]
          PROVE  sync'.at = "sweep" /\ t \in outcome'[c].errors \union outcome'[c].collisions
        <3>1. sync'.at = "sweep"
            BY <1>0, <2>1 DEF AgentTypes, SyncParts
        <3>2. t \in outcome'[c][fate]
            BY <1>0, <2>1 DEF AgentTypes, Fates
        <3> QED
            BY <3>1, <3>2
    <2>2. ASSUME sync' = [sync EXCEPT !.at = "write", !.name = t, !.sources = @ \ {n},
                                     !.content = injectManagedMarker(profiles[c].files[n])]
          PROVE  /\ sync'.at = "write" /\ sync'.name = t
                 /\ sync'.content = injectManagedMarker(profiles[c].files[n])
        BY <1>0, <2>2 DEF AgentTypes, SyncParts
    <2> QED
        BY <1>1, <2>1, <2>2
<1>4. /\ DOMAIN outcome' = ProfileId
      /\ \A id \in ProfileId : DOMAIN outcome'[id] = Fates
      /\ \A id \in ProfileId \ {c} : outcome'[id] = outcome[id]
      /\ outcome'[c].synced = outcome[c].synced
      /\ outcome[c].errors \subseteq outcome'[c].errors
      /\ outcome[c].collisions \subseteq outcome'[c].collisions
    <2>1. CASE outcome' = outcome
        BY <1>0, <2>1 DEF AgentTypes
    <2>2. CASE \E fate \in {"errors", "collisions"} : outcome' = [outcome EXCEPT ![c][fate] = @ \union {t}]
        BY <1>0, <2>2 DEF AgentTypes, Fates
    <2> QED
        BY <1>1, <2>1, <2>2
<1>5. AgentTypes'
    <2>1. t \in FileNames
        BY <1>0, NamesBeginWithTheId
    <2> QED
        BY <1>0, <1>2, <1>3, <1>4, <2>1 DEF AgentTypes, Working
<1>6. NothingOfTheUser'
    <2>1. sync'.at = "write" => DOMAIN sync'.content = AFile /\ sync'.content.text # "mine"
        BY <1>0, <1>3, MarkingKeepsTheText DEF AgentInv, NothingOfTheUser
    <2>2. sync'.at = "write" => seen'.text # "mine"
        BY <1>3 DEF AgentInv, NothingOfTheUser, there, NoContent
    <2> QED
        BY <1>0, <1>3, <2>1, <2>2 DEF AgentInv, NothingOfTheUser, UsersFilesAreKept
<1>7. DoneStaysDone' /\ ListIsUpToDate' /\ RegisteredWasPlaced'
    BY <1>0, <1>2, <1>3, <1>4, OneStaysInHand DEF AgentInv, Working, AgentTypes, SameFile
<1>8. OneInHand'
    <2> SUFFICES ASSUME calm PROVE OneInHand'
        BY <1>0 DEF OneInHand
    <2>1. /\ OnRoster(c)' = OnRoster(c) /\ Targets(c)' = Targets(c) /\ Managed' = Managed
          /\ ExistingTargets(c)' = ExistingTargets(c)
        BY <1>0, <1>2, SameRoster DEF Managed, ExistingTargets
    <2>2. Accounted(c) \subseteq Accounted(c)' /\ (sync'.at = "sweep" => t \in Accounted(c)')
        BY <1>0, <1>2, <1>3, <1>4 DEF Accounted, Reported
    <2>3. /\ n \in DOMAIN profiles[c].files /\ sync.sources \subseteq DOMAIN profiles[c].files
          /\ t \in Own(c) /\ TargetsOf(c, sync'.sources) \subseteq Own(c) /\ Own(c)' = Own(c)
        <3>1. TargetsOf(c, sync.sources) \subseteq Own(c) /\ sync.sources \subseteq DOMAIN profiles[c].files
            BY <1>0 DEF AgentInv, OneInHand, Working
        <3>2. t \in TargetsOf(c, sync.sources) /\ TargetsOf(c, sync'.sources) \subseteq TargetsOf(c, sync.sources)
            BY <1>0, <1>2 DEF TargetsOf
        <3>3. Own(c)' = Own(c)
            BY <1>0, <2>1 DEF Own
        <3> QED
            BY <1>0, <3>1, <3>2, <3>3
    <2>4. ASSUME NEW m \in OnRoster(c), m \notin sync'.sources
          PROVE  (BeingWritten(m) \/ Placed(c, m))' /\ (BeingWritten(m) \/ Told(c, m))'
        <3>1. CASE m = n
            <4>1. BeingWritten(n)' \/ t \in Accounted(c)'
                BY <1>2, <1>3, <2>2 DEF BeingWritten
            <4> QED
                BY <1>2, <3>1, <4>1 DEF Placed, Told
        <3>2. CASE m # n
            <4>1. Placed(c, m) /\ Told(c, m)
                BY <1>0, <1>2, <2>4, <3>2 DEF AgentInv, OneInHand, BeingWritten, Working
            <4> QED
                BY <1>0, <1>2, <1>4, <2>2, <4>1 DEF Placed, Told
        <3> QED
            BY <3>1, <3>2
    <2>5. ExistingTargets(c) \intersect Managed \subseteq Targets(c) \union Accounted(c)
        BY <1>0 DEF AgentInv, OneInHand, Working
    <2>6. sync'.at = "write" =>
            \E m \in DOMAIN profiles'[c].files :
              /\ sync'.name = targetNameOf(c, m) /\ sync'.name \in Own(c)
              /\ sync'.content = injectManagedMarker(profiles'[c].files[m])
        BY <1>0, <1>3, <2>3
    <2>7. sync'.sources \subseteq DOMAIN profiles'[c].files
        BY <1>0, <1>2, <2>3
    <2> QED
        BY <1>2, <1>3, <2>1, <2>2, <2>3, <2>4, <2>5, <2>6, <2>7 DEF OneInHand, Working
<1> QED
    BY <1>5, <1>6, <1>7, <1>8 DEF AgentInv

\* One file of the profile in hand is put in place; what other names hold stays.
LEMMA PutOne ==
    ASSUME AgentTypes, NothingOfTheUser, NEW t \in FileNames, NEW content, PutTarget(t, content),
           DOMAIN content = AFile, isOwned(content) => content.text # "mine"
    PROVE  /\ DOMAIN targets' = DOMAIN targets \union {t} /\ targets'[t] = content
           /\ \A u : u = t \/ SameFile(u)
           /\ \A u \in DOMAIN targets' :
                DOMAIN targets'[u] = AFile /\ (isOwned(targets'[u]) => targets'[u].text # "mine")
<1>1. /\ DOMAIN targets' = DOMAIN targets \union {t} /\ targets'[t] = content
      /\ \A u : u = t \/ SameFile(u)
    BY DEF PutTarget, SameFile
<1> QED
    BY <1>1 DEF NothingOfTheUser, SameFile

\* The file in hand is one of the profile's own, unless something came in between.
LEMMA NameInHand ==
    ASSUME AgentTypes, OneInHand, calm, sync.at \in {"write", "fill"}
    PROVE  /\ sync.name \in Own(sync.id) /\ InProfile(sync.name, sync.id)
           /\ \A n \in OnRoster(sync.id) :
                sync.name = targetNameOf(sync.id, n) =>
                  sync.content = injectManagedMarker(profiles[sync.id].files[n])
<1>1. sync.id \in ProfileId /\ DOMAIN profiles[sync.id].files \subseteq AgentName
      /\ OnRoster(sync.id) \subseteq AgentName
    BY DEF AgentTypes, Working, OnRoster, RosterAsRead
<1>2. PICK m \in DOMAIN profiles[sync.id].files :
        /\ sync.name = targetNameOf(sync.id, m) /\ sync.name \in Own(sync.id)
        /\ sync.content = injectManagedMarker(profiles[sync.id].files[m])
    BY DEF OneInHand, Working
<1>3. m \in AgentName
    BY <1>1, <1>2
<1> QED
    BY <1>1, <1>2, <1>3, NamesBeginWithTheId, NamesGoOnAsTheAgent

\* A write that goes on, ends, or is given up: the file in hand stays in hand, has
\* what the profile says, or is reported.
LEMMA WriteStep ==
    ASSUME AgentInv, sync.at \in {"write", "fill"}, sync' = [sync EXCEPT !.at = sync'.at],
           profiles' = profiles, ignore' = ignore, calm' = calm, seen' = seen, swallowed' = swallowed,
           DOMAIN outcome' = ProfileId, \A id \in ProfileId : DOMAIN outcome'[id] = Fates,
           \A id \in ProfileId \ {sync.id} : outcome'[id] = outcome[id],
           outcome[sync.id].synced \subseteq outcome'[sync.id].synced,
           outcome[sync.id].errors \subseteq outcome'[sync.id].errors,
           outcome[sync.id].collisions = outcome'[sync.id].collisions,
           DOMAIN targets' \subseteq FileNames, \A u : u = sync.name \/ SameFile(u),
           \A u \in DOMAIN targets' :
             DOMAIN targets'[u] = AFile /\ (isOwned(targets'[u]) => targets'[u].text # "mine"),
           \/ sync'.at = "fill"
           \/ sync'.at = "sweep" /\ sync.name \in outcome'[sync.id].errors
           \/ /\ sync'.at = "sweep" /\ sync.name \in outcome'[sync.id].synced
              /\ sync.name \in DOMAIN targets' /\ targets'[sync.name] = sync.content
    PROVE  AgentInv'
<1> DEFINE c == sync.id
           t == sync.name
<1>0. AgentTypes /\ NothingOfTheUser /\ c \in ProfileId /\ sync.at \in Working
    BY DEF AgentInv, AgentTypes, Working
<1>1. /\ sync'.left = sync.left /\ sync'.id = c /\ sync'.sources = sync.sources
      /\ sync'.stale = sync.stale /\ sync'.name = t /\ sync'.content = sync.content
      /\ DOMAIN sync' = SyncParts /\ sync'.at \in {"fill", "sweep"}
    <2>1. DOMAIN sync = SyncParts
        BY <1>0 DEF AgentTypes
    <2> QED
        BY <2>1 DEF SyncParts
<1>2. AgentTypes'
    BY <1>0, <1>1 DEF AgentTypes, Working
<1>3. NothingOfTheUser'
    BY <1>0, <1>1 DEF NothingOfTheUser, UsersFilesAreKept
<1>4. calm => /\ t \in Own(c) /\ InProfile(t, c)
              /\ \A n \in OnRoster(c) : t = targetNameOf(c, n) =>
                   sync.content = injectManagedMarker(profiles[c].files[n])
    BY <1>0, NameInHand DEF AgentInv
<1>5. DoneStaysDone' /\ ListIsUpToDate' /\ RegisteredWasPlaced'
    BY <1>0, <1>1, <1>4, OneStaysInHand DEF AgentInv, Working
<1>6. OneInHand'
    <2> SUFFICES ASSUME calm PROVE OneInHand'
        BY DEF OneInHand
    <2>1. OnRoster(c)' = OnRoster(c) /\ Targets(c)' = Targets(c) /\ Own(c)' = Own(c)
        BY <1>1, SameRoster DEF Own
    <2>2. /\ Accounted(c) \subseteq Accounted(c)' /\ swallowed.agents \subseteq Accounted(c)'
          /\ t \in outcome'[c].errors => t \in Accounted(c)'
        BY <1>1 DEF Accounted, Reported
    <2>3. (ExistingTargets(c) \intersect Managed)' \subseteq sync.stale \union Targets(c) \union Accounted(c)'
        <3> SUFFICES ASSUME NEW u \in (ExistingTargets(c) \intersect Managed)', u # t
                     PROVE  u \in sync.stale \union Targets(c) \union Accounted(c)'
            BY <1>4, <2>2 DEF Own
        <3>1. u \in ExistingTargets(c) \intersect Managed
            BY <1>1 DEF ExistingTargets, Managed, SameFile
        <3> QED
            BY <1>0, <2>2, <3>1 DEF AgentInv, OneInHand
    <2>4. ASSUME NEW m \in OnRoster(c), m \notin sync.sources
          PROVE  (BeingWritten(m) \/ Placed(c, m))' /\ (BeingWritten(m) \/ Told(c, m))'
        <3>1. CASE t = targetNameOf(c, m)
            <4>1. CASE sync'.at = "fill"
                BY <1>1, <3>1, <4>1 DEF BeingWritten
            <4>2. CASE sync.name \in outcome'[sync.id].errors
                BY <1>1, <2>2, <3>1, <4>2 DEF Placed, Told
            <4>3. CASE t \in outcome'[c].synced /\ t \in DOMAIN targets' /\ targets'[t] = sync.content
                BY <1>1, <1>4, <3>1, <4>3 DEF Placed, Told
            <4> QED
                BY <4>1, <4>2, <4>3
        <3>2. CASE t # targetNameOf(c, m)
            <4>1. Placed(c, m) /\ Told(c, m)
                BY <1>0, <2>4, <3>2 DEF AgentInv, OneInHand, BeingWritten
            <4>2. SameFile(targetNameOf(c, m))
                BY <3>2
            <4> QED
                BY <1>1, <2>2, <4>1, <4>2 DEF Placed, Told, SameFile
        <3> QED
            BY <3>1, <3>2
    <2>5. /\ \A u \in sync'.stale :
               InProfile(u, c) /\ (u \notin Targets(c) \/ u \in swallowed'.agents)
          /\ sync'.sources \subseteq DOMAIN profiles'[c].files
          /\ TargetsOf(c, sync'.sources) \subseteq Own(c)
          /\ \E n \in DOMAIN profiles'[c].files :
               /\ sync'.name = targetNameOf(c, n) /\ sync'.name \in Own(c)
               /\ sync'.content = injectManagedMarker(profiles'[c].files[n])
        BY <1>0, <1>1 DEF AgentInv, OneInHand
    <2> QED
        BY <1>1, <2>1, <2>3, <2>4, <2>5 DEF OneInHand
<1> QED
    BY <1>2, <1>3, <1>5, <1>6 DEF AgentInv

\* A write that fails is reported.
LEMMA WriteGivenUp ==
    ASSUME AgentInv, sync.at \in {"write", "fill"}, sync' = [sync EXCEPT !.at = "sweep"],
           profiles' = profiles, ignore' = ignore, calm' = calm, seen' = seen, swallowed' = swallowed,
           targets' = targets, outcome' = [outcome EXCEPT ![sync.id].errors = @ \union {sync.name}]
    PROVE  AgentInv'
<1> DEFINE c == sync.id
           t == sync.name
<1>0. AgentTypes /\ NothingOfTheUser /\ c \in ProfileId /\ DOMAIN sync = SyncParts
    BY DEF AgentInv, AgentTypes, Working
<1>1. sync'.at = "sweep"
    BY <1>0 DEF SyncParts
<1>2. /\ DOMAIN outcome' = ProfileId
      /\ \A id \in ProfileId : DOMAIN outcome'[id] = Fates
      /\ \A id \in ProfileId \ {c} : outcome'[id] = outcome[id]
      /\ outcome'[c].synced = outcome[c].synced
      /\ outcome'[c].errors = outcome[c].errors \union {t}
      /\ outcome'[c].collisions = outcome[c].collisions
    BY <1>0 DEF AgentTypes, Fates
<1>3. /\ DOMAIN targets' \subseteq FileNames /\ \A u : u = t \/ SameFile(u)
      /\ \A u \in DOMAIN targets' :
           DOMAIN targets'[u] = AFile /\ (isOwned(targets'[u]) => targets'[u].text # "mine")
    BY <1>0 DEF AgentTypes, NothingOfTheUser, SameFile
<1> QED
    BY <1>1, <1>2, <1>3, WriteStep

\* Opening a file empties it, and it is still in hand; one that cannot be opened is reported.
LEMMA OpenTargetStep ==
    ASSUME AgentInv, NEW ok \in BOOLEAN, OpenTarget(ok)
    PROVE  AgentInv'
<1> DEFINE c == sync.id
           t == sync.name
<1>0. /\ sync.at = "write" /\ AgentTypes /\ NothingOfTheUser /\ c \in ProfileId
      /\ t \in FileNames /\ DOMAIN sync = SyncParts
      /\ profiles' = profiles /\ ignore' = ignore /\ calm' = calm /\ seen' = seen
      /\ swallowed' = swallowed
    BY DEF OpenTarget, AgentInv, AgentTypes, Working
<1>1. CASE PutTarget(t, Torn) /\ sync' = [sync EXCEPT !.at = "fill"] /\ outcome' = outcome
    <2>1. DOMAIN Torn = AFile /\ ~ isOwned(Torn)
        BY DEF Torn, AFile, isOwned
    <2>2. /\ DOMAIN targets' = DOMAIN targets \union {t}
          /\ \A u : u = t \/ SameFile(u)
          /\ \A u \in DOMAIN targets' :
               DOMAIN targets'[u] = AFile /\ (isOwned(targets'[u]) => targets'[u].text # "mine")
        BY <1>0, <1>1, <2>1, PutOne
    <2>3. DOMAIN targets' \subseteq FileNames
        BY <1>0, <2>2 DEF AgentTypes
    <2>4. sync'.at = "fill"
        BY <1>0, <1>1 DEF SyncParts
    <2> QED
        BY <1>0, <1>1, <2>2, <2>3, <2>4, WriteStep DEF AgentTypes
<1>2. CASE /\ targets' = targets /\ sync' = [sync EXCEPT !.at = "sweep"]
           /\ outcome' = [outcome EXCEPT ![c].errors = @ \union {t}]
    BY <1>0, <1>2, WriteGivenUp
<1> QED
    BY <1>1, <1>2 DEF OpenTarget

\* A file that is filled has what the profile says; one that cannot be is reported.
LEMMA FillTargetStep ==
    ASSUME AgentInv, NEW ok \in BOOLEAN, FillTarget(ok)
    PROVE  AgentInv'
<1> DEFINE c == sync.id
           t == sync.name
<1>0. /\ sync.at = "fill" /\ AgentTypes /\ NothingOfTheUser /\ c \in ProfileId
      /\ t \in FileNames /\ DOMAIN sync = SyncParts
      /\ profiles' = profiles /\ ignore' = ignore /\ calm' = calm /\ seen' = seen
      /\ swallowed' = swallowed /\ sync' = [sync EXCEPT !.at = "sweep"]
    BY DEF FillTarget, AgentInv, AgentTypes, Working
<1>1. CASE PutTarget(t, sync.content) /\ outcome' = [outcome EXCEPT ![c].synced = @ \union {t}]
    <2>1. DOMAIN sync.content = AFile /\ sync.content.text # "mine"
        BY <1>0 DEF NothingOfTheUser
    <2>2. /\ DOMAIN targets' = DOMAIN targets \union {t} /\ targets'[t] = sync.content
          /\ \A u : u = t \/ SameFile(u)
          /\ \A u \in DOMAIN targets' :
               DOMAIN targets'[u] = AFile /\ (isOwned(targets'[u]) => targets'[u].text # "mine")
        BY <1>0, <1>1, <2>1, PutOne
    <2>3. DOMAIN targets' \subseteq FileNames /\ t \in DOMAIN targets'
        BY <1>0, <2>2 DEF AgentTypes
    <2>4. sync'.at = "sweep"
        BY <1>0 DEF SyncParts
    <2>5. /\ DOMAIN outcome' = ProfileId
          /\ \A id \in ProfileId : DOMAIN outcome'[id] = Fates
          /\ \A id \in ProfileId \ {c} : outcome'[id] = outcome[id]
          /\ outcome'[c].synced = outcome[c].synced \union {t}
          /\ outcome'[c].errors = outcome[c].errors
          /\ outcome'[c].collisions = outcome[c].collisions
        BY <1>0, <1>1 DEF AgentTypes, Fates
    <2> QED
        BY <1>0, <2>2, <2>3, <2>4, <2>5, WriteStep
<1>2. CASE /\ targets' = targets
           /\ outcome' = [outcome EXCEPT ![c].errors = @ \union {t}]
    BY <1>0, <1>2, WriteGivenUp
<1> QED
    BY <1>1, <1>2 DEF FillTarget

\* With nothing left to do for it a profile is done, and the list is written, or that it
\* is not is told or swallowed.
LEMMA MarkGeneratedStep ==
    ASSUME AgentInv, NEW listed \in BOOLEAN, NEW known \in BOOLEAN, NEW wrote \in BOOLEAN,
           NEW unread, MarkGenerated(listed, unread, known, wrote)
    PROVE  AgentInv'
<1> DEFINE c == sync.id
           kept == known /\ ignore.whose = "user"
<1>0. /\ sync.at = "sweep" /\ sync.stale = {} /\ sync.sources = {} /\ AgentTypes
      /\ c \in ProfileId /\ profiles[c].json # "none"
      /\ profiles' = profiles /\ targets' = targets /\ calm' = calm /\ seen' = seen
    BY DEF MarkGenerated, MarkNext, AgentInv, AgentTypes, Working
<1>1. /\ sync'.at = "profiles" /\ sync'.left = sync.left \ {c} /\ sync'.stale = {}
      /\ sync'.sources = {} /\ DOMAIN sync' = SyncParts
    BY <1>0 DEF MarkGenerated, NextProfile, Idle, SyncParts
<1>2. \/ ~ listed /\ ignore' = ignore /\ outcome' = outcome
      \/ /\ listed /\ outcome' = outcome
         /\ ignore' = IF kept THEN ignore ELSE [whose |-> "plugin", list |-> Managed \ unread]
      \/ /\ listed /\ (ignore' = ignore \/ ignore' = TornIgnore)
         /\ outcome' = [outcome EXCEPT ![c].errors = @ \union {IgnoreFile}]
    BY DEF MarkGenerated, IgnoreList
<1>3. /\ DOMAIN swallowed' = KindsSwallowed /\ swallowed'.agents = swallowed.agents
      /\ swallowed'.ignore = swallowed.ignore \union (IF listed THEN unread ELSE {IgnoreFile})
    BY <1>0 DEF MarkGenerated, AgentTypes, KindsSwallowed
<1>4. /\ DOMAIN outcome' = ProfileId
      /\ \A id \in ProfileId : DOMAIN outcome'[id] = Fates
      /\ \A id \in ProfileId \ {c} : outcome'[id] = outcome[id]
      /\ outcome'[c].synced = outcome[c].synced
      /\ outcome[c].errors \subseteq outcome'[c].errors
      /\ outcome'[c].collisions = outcome[c].collisions
    <2>1. CASE outcome' = outcome
        BY <1>0, <2>1 DEF AgentTypes
    <2>2. CASE outcome' = [outcome EXCEPT ![c].errors = @ \union {IgnoreFile}]
        BY <1>0, <2>2 DEF AgentTypes, Fates
    <2> QED
        BY <1>2, <2>1, <2>2
<1>5. AgentTypes'
    BY <1>0, <1>1, <1>3, <1>4 DEF AgentTypes, Working
<1>6. NothingOfTheUser'
    BY <1>0, <1>1 DEF AgentInv, NothingOfTheUser, UsersFilesAreKept
<1>7. OneInHand' /\ RegisteredWasPlaced'
    BY <1>1 DEF OneInHand, RegisteredWasPlaced, Working
<1>8. DoneStaysDone'
    <2> SUFFICES ASSUME calm, NEW id \in ProfileId, Done(id)' PROVE LeftInOrder(id)'
        BY <1>0 DEF DoneStaysDone
    <2>1. CASE id = c
        <3>1. /\ \A n \in OnRoster(c) : Placed(c, n) /\ Told(c, n)
              /\ ExistingTargets(c) \intersect Managed \subseteq Targets(c) \union Accounted(c)
            BY <1>0 DEF AgentInv, OneInHand, BeingWritten, Working
        <3>2. Accounted(c) \subseteq Accounted(id)'
            BY <1>3, <1>4, <2>1 DEF Accounted, Reported
        <3>3. OnRoster(id)' = OnRoster(c) /\ Targets(id)' = Targets(c)
              /\ ExistingTargets(id)' = ExistingTargets(c) /\ Managed' = Managed
            BY <1>0, <2>1 DEF OnRoster, RosterAsRead, listProfileAgents, Targets, TargetsOf,
                             ExistingTargets, Managed
        <3>4. \A n \in OnRoster(c) : Placed(id, n)' /\ Told(id, n)'
            BY <1>0, <1>4, <2>1, <3>1, <3>2 DEF Placed, Told
        <3> QED
            BY <3>1, <3>2, <3>3, <3>4 DEF LeftInOrder
    <2>2. CASE id # c
        BY <1>0, <1>1, <1>3, <1>4, <2>2, OthersStay DEF AgentInv, Working, SameFile, AgentTypes
    <2> QED
        BY <2>1, <2>2
<1>9. ListIsUpToDate'
    <2>1. Managed' = Managed
        BY <1>0 DEF Managed
    <2>2. \/ IgnoreFile \in swallowed'.ignore
          \/ IgnoreFile \in outcome'[c].errors
          \/ ignore'.whose = "plugin" =>
               ignore'.list \subseteq Managed /\ Managed \ ignore'.list \subseteq swallowed'.ignore
        <3>1. CASE ~ listed
            BY <1>3, <3>1
        <3>2. CASE listed /\ ignore' = IF kept THEN ignore ELSE [whose |-> "plugin", list |-> Managed \ unread]
            BY <1>3, <3>2
        <3>3. CASE outcome' = [outcome EXCEPT ![c].errors = @ \union {IgnoreFile}]
            BY <1>0, <3>3 DEF AgentTypes, Fates
        <3> QED
            BY <1>2, <3>1, <3>2, <3>3
    <2> QED
        BY <1>0, <2>1, <2>2 DEF ListIsUpToDate
<1> QED
    BY <1>5, <1>6, <1>7, <1>8, <1>9 DEF AgentInv

\* Who is registered is on the roster of a profile that is done or could not be read, or
\* its roster was misread.
LEMMA LoadUpdatesStep ==
    ASSUME AgentInv, NEW failed, NEW unread, LoadUpdates(failed, unread)
    PROVE  AgentInv'
<1>0. /\ sync.at = "profiles" /\ sync.left = {} /\ AgentTypes
      /\ profiles' = profiles /\ targets' = targets /\ ignore' = ignore /\ outcome' = outcome
      /\ calm' = calm /\ seen' = seen
    BY DEF LoadUpdates, AgentInv
<1>1. /\ sync'.at = "registered" /\ sync'.left = {} /\ sync'.stale = {}
      /\ sync'.sources = {} /\ DOMAIN sync' = SyncParts
    BY DEF LoadUpdates, Idle, SyncParts
<1>2. /\ swallowed'.agents = swallowed.agents /\ swallowed'.ignore = swallowed.ignore
      /\ DOMAIN swallowed' = KindsSwallowed
      /\ swallowed'.updates = UNION {TargetsOf(id, DOMAIN profiles[id].files \ OnRoster(id)) :
                                       id \in {id \in ProfileId : "meta" \in failed[id]}}
    BY <1>0 DEF LoadUpdates, AgentTypes, KindsSwallowed
<1>3. AgentTypes'
    BY <1>0, <1>1, <1>2 DEF AgentTypes, Working
<1>4. NothingOfTheUser' /\ OneInHand'
    BY <1>0, <1>1 DEF AgentInv, NothingOfTheUser, UsersFilesAreKept, OneInHand, Working
<1>5. DoneStaysDone'
    BY <1>0, <1>1, <1>2
       DEF AgentInv, DoneStaysDone, Done, LeftInOrder, Told, Placed, Accounted, Reported, OnRoster,
           RosterAsRead, listProfileAgents, Targets, TargetsOf, ExistingTargets, Managed
<1>6. ListIsUpToDate'
    BY <1>0, <1>1, <1>2 DEF AgentInv, ListIsUpToDate, Managed
<1>7. RegisteredWasPlaced'
    <2> DEFINE Said(id) == outcome[id].synced \union Accounted(id) \union swallowed'.updates
    <2>0. \A id : outcome'[id].synced \union Accounted(id)' \union swallowed'.updates = Said(id)
                 /\ Reported(id)' = Reported(id)
        BY <1>0, <1>2 DEF Accounted, Reported
    <2> SUFFICES ASSUME calm, NEW t \in updates'
                 PROVE  \E id \in ProfileId :
                          \/ t \in Said(id) \/ id \o t \in Said(id)
                          \/ InProfile(t, id) /\ Unreadable \in Reported(id)
        BY <1>0, <2>0 DEF RegisteredWasPlaced
    <2>1. PICK id \in ProfileId :
            profiles[id].json = "ok" /\ \E n \in Registered(id, failed[id]) : t = qualifyAgentName(id, n)
        BY DEF LoadUpdates
    <2>2. PICK n \in Registered(id, failed[id]) : t = qualifyAgentName(id, n)
        BY <2>1
    <2>3. n \in DOMAIN profiles[id].files /\ n \in AgentName
        BY <1>0, <2>2 DEF AgentTypes, Registered
    <2>4. \/ t = n /\ InProfile(n, id)
          \/ t = targetNameOf(id, n)
        BY <2>2 DEF qualifyAgentName, isQualifiedAgentName, targetNameOf
    <2>5. InProfile(t, id)
        BY <2>3, <2>4, NamesBeginWithTheId
    <2>6. CASE n \in OnRoster(id)
        <3>1. Unreadable \notin Reported(id) => Told(id, n)
            BY <1>0, <2>1, <2>6 DEF AgentInv, DoneStaysDone, Done, LeftInOrder
        <3> QED
            BY <2>4, <2>5, <3>1 DEF Told, targetNameOf
    <2>7. CASE n \notin OnRoster(id)
        <3>1. "meta" \in failed[id]
            BY <2>1, <2>2, <2>3, <2>7 DEF OnRoster, RosterAsRead, Registered, listProfileAgents
        <3>2. targetNameOf(id, n) \in swallowed'.updates
            BY <1>2, <2>3, <2>7, <3>1 DEF TargetsOf
        <3> QED
            BY <2>4, <3>2 DEF targetNameOf
    <2> QED
        BY <2>6, <2>7
<1> QED
    BY <1>3, <1>4, <1>5, <1>6, <1>7 DEF AgentInv

\* When nothing is under way nothing is due.
LEMMA RestStep ==
    ASSUME AgentInv, Rest
    PROVE  AgentInv'
<1> USE DEF Rest, Idle, Working
<1>1. AgentTypes'
    BY DEF AgentInv, AgentTypes, SyncParts
<1>2. NothingOfTheUser' /\ OneInHand' /\ DoneStaysDone' /\ RegisteredWasPlaced'
    BY DEF AgentInv, NothingOfTheUser, UsersFilesAreKept, OneInHand, DoneStaysDone, RegisteredWasPlaced
<1>3. ListIsUpToDate'
    BY DEF AgentInv, ListIsUpToDate
<1> QED
    BY <1>1, <1>2, <1>3 DEF AgentInv

\* The user and his files: whatever he does, nothing of his has the marker.
LEMMA UserStep ==
    ASSUME AgentInv, User
    PROVE  AgentInv'
<1>0. /\ AgentTypes /\ NothingOfTheUser /\ calm' = FALSE
      /\ sync' = sync /\ outcome' = outcome /\ updates' = updates /\ seen' = seen
      /\ swallowed' = swallowed
    BY DEF User, AgentInv
<1>1. \/ \E id \in ProfileId, n \in AgentName, marker \in {"none", "mentioned"} :
           /\ PutTarget(targetNameOf(id, n), [marker |-> marker, text |-> "mine"])
           /\ profiles' = profiles /\ ignore' = ignore
      \/ \E t \in DOMAIN targets : DropTarget(t) /\ profiles' = profiles /\ ignore' = ignore
      \/ \E id \in ProfileId, n \in AgentName :
           /\ profiles' = [profiles EXCEPT ![id].files = [u \in DOMAIN @ \ {n} |-> @[u]]]
           /\ targets' = targets /\ ignore' = ignore
      \/ ignore' = TornIgnore /\ profiles' = profiles /\ targets' = targets
    BY DEF User
<1>2. /\ DOMAIN targets' \subseteq FileNames
      /\ \A u \in DOMAIN targets' :
           DOMAIN targets'[u] = AFile /\ (isOwned(targets'[u]) => targets'[u].text # "mine")
    <2>1. CASE targets' = targets
        BY <1>0, <2>1 DEF AgentTypes, NothingOfTheUser
    <2>2. ASSUME NEW id \in ProfileId, NEW n \in AgentName, NEW marker \in {"none", "mentioned"},
                 PutTarget(targetNameOf(id, n), [marker |-> marker, text |-> "mine"])
          PROVE  /\ DOMAIN targets' \subseteq FileNames
                 /\ \A u \in DOMAIN targets' :
                      DOMAIN targets'[u] = AFile /\ (isOwned(targets'[u]) => targets'[u].text # "mine")
        <3> DEFINE t == targetNameOf(id, n)
                   content == [marker |-> marker, text |-> "mine"]
        <3>1. t \in FileNames
            BY NamesBeginWithTheId
        <3>2. DOMAIN content = AFile /\ ~ isOwned(content)
            BY DEF AFile, isOwned
        <3>3. PutTarget(t, content)
            BY <2>2
        <3> HIDE DEF t, content
        <3>4. /\ DOMAIN targets' = DOMAIN targets \union {t}
              /\ \A u \in DOMAIN targets' :
                   DOMAIN targets'[u] = AFile /\ (isOwned(targets'[u]) => targets'[u].text # "mine")
            BY <1>0, <3>1, <3>2, <3>3, PutOne
        <3> QED
            BY <1>0, <3>1, <3>4 DEF AgentTypes
    <2>3. ASSUME NEW t \in DOMAIN targets, DropTarget(t)
          PROVE  /\ DOMAIN targets' \subseteq FileNames
                 /\ \A u \in DOMAIN targets' :
                      DOMAIN targets'[u] = AFile /\ (isOwned(targets'[u]) => targets'[u].text # "mine")
        <3>1. DOMAIN targets' \subseteq DOMAIN targets /\ \A u \in DOMAIN targets' : targets'[u] = targets[u]
            BY <2>3 DEF DropTarget
        <3> QED
            BY <1>0, <3>1 DEF AgentTypes, NothingOfTheUser
    <2> QED
        BY <1>1, <2>1, <2>2, <2>3
<1>3. /\ DOMAIN profiles' = ProfileId
      /\ \A id \in ProfileId :
           /\ DOMAIN profiles'[id] = DOMAIN profiles[id]
           /\ profiles'[id].json = profiles[id].json
           /\ DOMAIN profiles'[id].files \subseteq DOMAIN profiles[id].files
           /\ \A n \in DOMAIN profiles'[id].files : profiles'[id].files[n] = profiles[id].files[n]
    <2>1. CASE profiles' = profiles
        BY <1>0, <2>1 DEF AgentTypes
    <2>2. ASSUME NEW id \in ProfileId, NEW n \in AgentName,
                 profiles' = [profiles EXCEPT ![id].files = [u \in DOMAIN @ \ {n} |-> @[u]]]
          PROVE  /\ DOMAIN profiles' = ProfileId
                 /\ \A other \in ProfileId \ {id} : profiles'[other] = profiles[other]
                 /\ DOMAIN profiles'[id] = DOMAIN profiles[id]
                 /\ profiles'[id].json = profiles[id].json
                 /\ profiles'[id].files = [u \in DOMAIN profiles[id].files \ {n} |-> profiles[id].files[u]]
        BY <1>0, <2>2 DEF AgentTypes
    <2>3. CASE \E id \in ProfileId, n \in AgentName :
                 profiles' = [profiles EXCEPT ![id].files = [u \in DOMAIN @ \ {n} |-> @[u]]]
        <3>1. PICK id \in ProfileId, n \in AgentName :
                profiles' = [profiles EXCEPT ![id].files = [u \in DOMAIN @ \ {n} |-> @[u]]]
            BY <2>3
        <3>2. /\ DOMAIN profiles' = ProfileId
              /\ \A other \in ProfileId \ {id} : profiles'[other] = profiles[other]
              /\ DOMAIN profiles'[id] = DOMAIN profiles[id]
              /\ profiles'[id].json = profiles[id].json
              /\ profiles'[id].files = [u \in DOMAIN profiles[id].files \ {n} |-> profiles[id].files[u]]
            BY <2>2, <3>1
        <3> QED
            BY <3>2
    <2> QED
        BY <1>1, <2>1, <2>3
<1>4. AgentTypes'
    BY <1>0, <1>2, <1>3 DEF AgentTypes, Working
<1>5. NothingOfTheUser'
    BY <1>0, <1>2, <1>3 DEF NothingOfTheUser, UsersFilesAreKept
<1>6. OneInHand' /\ DoneStaysDone' /\ RegisteredWasPlaced'
    BY <1>0 DEF OneInHand, DoneStaysDone, RegisteredWasPlaced
<1>7. ListIsUpToDate'
    <2>1. ignore' = ignore \/ ignore' = TornIgnore
        BY <1>1
    <2>2. ignore'.whose = "plugin" => ignore.whose = "plugin"
        BY <2>1 DEF TornIgnore
    <2> QED
        BY <1>0, <1>3, <2>2 DEF AgentInv, ListIsUpToDate
<1> QED
    BY <1>4, <1>5, <1>6, <1>7 DEF AgentInv

\* A crash leaves nothing under way, and of the list at most a file that is not the plugin's.
LEMMA CrashStep ==
    ASSUME AgentInv, Crash
    PROVE  AgentInv'
<1> USE DEF Crash, Idle, Working
<1>1. AgentTypes'
    BY DEF AgentInv, AgentTypes, SyncParts
<1>2. NothingOfTheUser' /\ OneInHand' /\ DoneStaysDone' /\ RegisteredWasPlaced'
    BY DEF AgentInv, NothingOfTheUser, UsersFilesAreKept, OneInHand, DoneStaysDone, RegisteredWasPlaced
<1>3. ListIsUpToDate'
    BY DEF AgentInv, ListIsUpToDate, TornIgnore
<1> QED
    BY <1>1, <1>2, <1>3 DEF AgentInv

\* No step of a sync, of the user or of a crash breaks the invariant.
LEMMA AgentInvStep == AgentInv /\ [AgentNext]_agentVars => AgentInv'
<1> SUFFICES ASSUME AgentInv, [AgentNext]_agentVars PROVE AgentInv'
    OBVIOUS
<1>1. CASE UNCHANGED agentVars
    <2>1. AgentTypes' /\ NothingOfTheUser'
        BY <1>1 DEF agentVars, AgentInv, AgentTypes, NothingOfTheUser, UsersFilesAreKept
    <2>2. OneInHand'
        BY <1>1 DEF agentVars, AgentInv, OneInHand, LeftInOrder, Placed, Told, Done, BeingWritten, OnRoster,
                    RosterAsRead, listProfileAgents, Targets, TargetsOf, Own, Accounted, ExistingTargets, Managed, Reported
    <2>3. DoneStaysDone'
        BY <1>1 DEF agentVars, AgentInv, DoneStaysDone, LeftInOrder, Placed, Told, Done, BeingWritten, OnRoster,
                    RosterAsRead, listProfileAgents, Targets, TargetsOf, Own, Accounted, ExistingTargets, Managed, Reported
    <2>4. ListIsUpToDate'
        BY <1>1 DEF agentVars, AgentInv, ListIsUpToDate, Managed
    <2>5. RegisteredWasPlaced'
        BY <1>1 DEF agentVars, AgentInv, RegisteredWasPlaced, Accounted, Reported
    <2> QED
        BY <2>1, <2>2, <2>3, <2>4, <2>5 DEF AgentInv
<1>2. CASE AgentNext
    BY <1>2, StartSyncStep, BeginProfileStep, LookAtStaleStep, UnlinkStaleStep, LookAtTargetStep,
       OpenTargetStep, FillTargetStep, MarkGeneratedStep, LoadUpdatesStep, RestStep, UserStep, CrashStep
       DEF AgentNext
<1> QED
    BY <1>1, <1>2

\* Whatever the names of profiles and agents, and whoever works in the directory meanwhile: a
\* sync takes nothing of the user that it could read, places or reports every agent of a
\* profile whose id is no beginning of another, lists what is managed and registers what was
\* placed or reported, but for the names about which a read failed that the code takes for
\* something that is not there and reports nowhere.
THEOREM SyncsAlwaysKeepAndReport == AgentSpec => []SyncsKeepAndReport
<1>1. AgentInv => SyncsKeepAndReport
    <2> SUFFICES ASSUME AgentInv PROVE SyncsKeepAndReport
        OBVIOUS
    <2>1. UsersFilesAreKept /\ RegisteredWasPlaced
        BY DEF AgentInv, NothingOfTheUser
    <2>2. RosterIsPlacedOrReported
        <3> SUFFICES ASSUME sync.at = "registered", calm, NEW id \in ProfileId, SyncedWithout(id)
                     PROVE  RosterFits(id, Accounted(id))
            BY DEF RosterIsPlacedOrReported
        <3>1. Done(id) /\ Apart(id)
            BY DEF AgentInv, AgentTypes, Done, SyncedWithout
        <3>2. LeftInOrder(id)
            BY <3>1 DEF AgentInv, DoneStaysDone
        <3> QED
            BY <3>1, <3>2 DEF LeftInOrder, Placed, Targets, RosterFits
    <2>3. IgnoreListsTheManaged
        BY DEF AgentInv, AgentTypes, ListIsUpToDate, IgnoreListsTheManaged
    <2> QED
        BY <2>1, <2>2, <2>3 DEF SyncsKeepAndReport
<1> QED
    BY AgentInvInit, AgentInvStep, <1>1, PTL DEF AgentSpec

-----------------------------------------------------------------------------
(* The V2 host.  The messages of a request.                                *)
HIDE AgentNamesAssumption

\* A set of numbers that is not empty has a least one: what induction is made of here.
LEMMA LeastNumber ==
    ASSUME NEW S \in SUBSET Nat, S # {}
    PROVE  \E x \in S : \A y \in S : x <= y
<1>1. PICK x \in S : \A y \in S : ~ (<<y, x>> \in OpToRel(<, Nat))
    BY NatLessThanWellFounded, WFMin
<1>2. \A y \in S : ~ (y < x)
    BY <1>1 DEF OpToRel
<1> QED
    BY <1>2

\* What is filtered of the first n messages.
Filters(added, legacy, known, top) ==
    added = [n \in 0 .. top |->
               IF n = 0 THEN <<>>
               ELSE IF legacy[n].id \in known THEN added[n - 1]
               ELSE Append(added[n - 1], legacy[n])]

\* There is a filter: one of the first n messages goes on to one of n + 1.
LEMMA FilterIsThere ==
    ASSUME NEW legacy, NEW known, NEW top \in Nat
    PROVE  \E added : Filters(added, legacy, known, top)
<1> DEFINE S == {k \in Nat : ~ \E added : Filters(added, legacy, known, k)}
<1>1. SUFFICES ASSUME S # {} PROVE FALSE
    OBVIOUS
<1>2. PICK k \in S : \A y \in S : k <= y
    BY <1>1, LeastNumber
<1>3. CASE k = 0
    <2>1. Filters([n \in 0 .. 0 |-> <<>>], legacy, known, 0)
        BY DEF Filters
    <2> QED
        BY <1>2, <1>3, <2>1
<1>4. CASE k # 0
    <2>1. k \in Nat /\ k - 1 \in Nat /\ k - 1 \notin S
        BY <1>2, <1>4
    <2>2. PICK f : Filters(f, legacy, known, k - 1)
        BY <2>1
    <2> DEFINE last == IF legacy[k].id \in known THEN f[k - 1] ELSE Append(f[k - 1], legacy[k])
               g == [n \in 0 .. k |-> IF n = k THEN last ELSE f[n]]
    <2>3. \A n \in 0 .. (k - 1) : f[n] = IF n = 0 THEN <<>>
               ELSE IF legacy[n].id \in known THEN f[n - 1] ELSE Append(f[n - 1], legacy[n])
        BY <2>1, <2>2 DEF Filters
    <2> HIDE DEF last
    <2>4. ASSUME NEW n \in 0 .. k
          PROVE  g[n] = IF n = 0 THEN <<>>
               ELSE IF legacy[n].id \in known THEN g[n - 1] ELSE Append(g[n - 1], legacy[n])
        <3>1. CASE n = k
            <4>1. g[n] = last /\ g[n - 1] = f[k - 1] /\ n # 0
                BY <1>4, <2>1, <3>1
            <4> QED
                BY <4>1, <3>1 DEF last
        <3>2. CASE n # k
            <4>1. n \in 0 .. (k - 1) /\ g[n] = f[n] /\ (n # 0 => g[n - 1] = f[n - 1])
                BY <2>1, <3>2
            <4> QED
                BY <4>1, <2>3
        <3> QED
            BY <3>1, <3>2
    <2>5. Filters(g, legacy, known, k)
        <3> SUFFICES g = [n \in 0 .. k |->
               IF n = 0 THEN <<>>
               ELSE IF legacy[n].id \in known THEN g[n - 1]
               ELSE Append(g[n - 1], legacy[n])]
            BY DEF Filters
        <3> DEFINE h == [n \in 0 .. k |->
               IF n = 0 THEN <<>>
               ELSE IF legacy[n].id \in known THEN g[n - 1]
               ELSE Append(g[n - 1], legacy[n])]
        <3>1. \A n \in 0 .. k : g[n] = h[n]
            BY <2>4
        <3>2. g = [n \in 0 .. k |-> g[n]] /\ h = [n \in 0 .. k |-> h[n]]
            OBVIOUS
        <3> HIDE DEF g, h
        <3>3. g = h
            BY <3>1, <3>2
        <3> QED BY <3>3 DEF h
    <2> QED
        BY <1>2, <2>5
<1> QED
    BY <1>3, <1>4

\* What a list began with, and the next of it.
LEMMA OneMoreOfIt ==
    ASSUME NEW T, NEW s \in Seq(T), NEW n \in 1 .. Len(s)
    PROVE  Append(SubSeq(s, 1, n - 1), s[n]) = SubSeq(s, 1, n)
<1> DEFINE a == SubSeq(s, 1, n - 1)
           b == SubSeq(s, 1, n)
           c == Append(a, s[n])
<1>1. a \in Seq(T) /\ Len(a) = n - 1 /\ \A i \in 1 .. (n - 1) : a[i] = s[i]
    OBVIOUS
<1>2. b \in Seq(T) /\ Len(b) = n /\ \A i \in 1 .. n : b[i] = s[i]
    OBVIOUS
<1>3. s[n] \in T
    OBVIOUS
<1> HIDE DEF a, b
<1>4. c \in Seq(T) /\ Len(c) = n /\ \A i \in 1 .. n : c[i] = IF i = n THEN s[n] ELSE a[i]
    BY <1>1, <1>3
<1> HIDE DEF c
<1>5. \A i \in 1 .. n : c[i] = b[i]
    BY <1>1, <1>2, <1>4
<1>6. c = b
    BY <1>2, <1>4, <1>5, SeqEqual
<1> QED
    BY <1>6 DEF a, b, c

\* The messages are some that are known and then those of pushed, of which none is.
KnownThen(legacy, known, low, pushed) ==
    /\ Len(legacy) = low + Len(pushed)
    /\ \A n \in 1 .. low : legacy[n].id \in known
    /\ \A j \in 1 .. Len(pushed) : legacy[low + j] = pushed[j] /\ pushed[j].id \notin known

\* A filter that knows the first messages and none of the others keeps exactly the others.
LEMMA FilterKeepsTheUnknown ==
    ASSUME NEW T, NEW pushed \in Seq(T), NEW legacy, NEW known, NEW low \in Nat, NEW added,
           KnownThen(legacy, known, low, pushed), Filters(added, legacy, known, Len(legacy))
    PROVE  added[Len(legacy)] = pushed
<1> USE DEF KnownThen
<1> DEFINE Right(n) == added[n] = IF n <= low THEN <<>> ELSE SubSeq(pushed, 1, n - low)
           S == {n \in 0 .. Len(legacy) : ~ Right(n)}
<1>0. Len(legacy) \in Nat /\ Len(pushed) \in Nat
    OBVIOUS
<1>1. \A n \in 0 .. Len(legacy) : added[n] = IF n = 0 THEN <<>>
             ELSE IF legacy[n].id \in known THEN added[n - 1] ELSE Append(added[n - 1], legacy[n])
    BY <1>0 DEF Filters
<1>2. ASSUME S # {} PROVE FALSE
    <2>0. S \in SUBSET Nat
        BY <1>0
    <2>1. PICK n \in S : \A y \in S : n <= y
        BY <1>2, <2>0, LeastNumber
    <2> n \in 0 .. Len(legacy) /\ ~ Right(n)
        BY <2>1
    <2>2. CASE n = 0
        BY <1>0, <1>1, <2>2
    <2>3. CASE n # 0
        <3>1. n - 1 \in 0 .. Len(legacy) /\ n - 1 \notin S /\ n \in 1 .. Len(legacy)
            BY <1>0, <2>0, <2>1, <2>3
        <3>2. Right(n - 1)
            BY <3>1
        <3>3. CASE n <= low
            BY <1>0, <1>1, <2>3, <3>1, <3>2, <3>3
        <3>4. CASE n > low
            <4> DEFINE j == n - low
            <4>1. j \in 1 .. Len(pushed) /\ n = low + j
                BY <1>0, <3>1, <3>4
            <4>2. legacy[n] = pushed[j] /\ legacy[n].id \notin known
                BY <4>1
            <4>3. added[n] = Append(added[n - 1], pushed[j])
                BY <1>1, <2>3, <4>2
            <4>4. added[n - 1] = SubSeq(pushed, 1, j - 1)
                <5>1. CASE n - 1 > low
                    BY <1>0, <3>1, <3>2, <5>1
                <5>2. CASE n - 1 <= low
                    <6>1. j = 1 /\ added[n - 1] = <<>>
                        BY <1>0, <3>1, <3>2, <3>4, <5>2
                    <6>2. SubSeq(pushed, 1, 0) = <<>>
                        OBVIOUS
                    <6> QED BY <6>1, <6>2
                <5> QED BY <1>0, <3>1, <5>1, <5>2
            <4>5. added[n] = SubSeq(pushed, 1, j)
                BY <4>1, <4>3, <4>4, OneMoreOfIt
            <4>6. ~ (n <= low)
                BY <3>4, <1>0
            <4>7. Right(n)
                BY <4>5, <4>6
            <4> QED
                BY <4>7
        <3> QED
            BY <1>0, <3>1, <3>3, <3>4
    <2> QED
        BY <2>2, <2>3
<1>3. Right(Len(legacy))
    BY <1>0, <1>2
<1>4. CASE Len(pushed) = 0
    <2>1. pushed = <<>>
        BY <1>4
    <2> QED
        BY <1>0, <1>3, <1>4, <2>1
<1>5. CASE Len(pushed) # 0
    <2>1. added[Len(legacy)] = SubSeq(pushed, 1, Len(pushed))
        BY <1>0, <1>3, <1>5
    <2> QED
        BY <2>1
<1> QED
    BY <1>4, <1>5

\* What goes to the host is what it asked with and the text of what was pushed.
LEMMA InjectedAreKept ==
    ASSUME NEW host \in HostRequests, NEW pushed \in Injected
    PROVE  v2MessagesWithInjected(host, v2ContextEvent(host) \o pushed)
             = host \o v2MessagesFromLegacy(pushed)
<1> DEFINE shown == v2ContextEvent(host)
           legacy == shown \o pushed
           known == {host[i].id : i \in DOMAIN host}
           T == {pushed[i] : i \in DOMAIN pushed}
           added == CHOOSE f : f = [n \in 0 .. Len(legacy) |->
                                      IF n = 0 THEN <<>>
                                      ELSE IF legacy[n].id \in known THEN f[n - 1]
                                      ELSE Append(f[n - 1], legacy[n])]
<1>1. /\ host \in Seq({host[i] : i \in DOMAIN host}) /\ pushed \in Seq(T)
      /\ \A i \in DOMAIN host : DOMAIN host[i] = {"id", "role", "parts"}
    BY HostMessagesAssumption
<1>2. DOMAIN host = 1 .. Len(host) /\ DOMAIN pushed = 1 .. Len(pushed) /\ Len(host) \in Nat /\ Len(pushed) \in Nat
    BY <1>1
<1>3. /\ shown \in Seq({shown[i] : i \in DOMAIN shown})
      /\ Len(shown) = Len(host) /\ DOMAIN shown = DOMAIN host
      /\ \A i \in DOMAIN host : shown[i].id = host[i].id
    <2>1. shown = [i \in 1 .. Len(host) |-> [host[i] EXCEPT !.parts = [j \in DOMAIN @ |-> LegacyPart(@[j])]]]
        BY <1>2 DEF v2ContextEvent
    <2> HIDE DEF shown
    <2>2. DOMAIN shown = 1 .. Len(host)
        BY <2>1
    <2>3. \A i \in 1 .. Len(host) : shown[i] = [host[i] EXCEPT !.parts = [j \in DOMAIN host[i].parts |-> LegacyPart(host[i].parts[j])]]
        BY <2>1
    <2>4. \A i \in 1 .. Len(host) : shown[i].id = host[i].id
        BY <1>1, <1>2, <2>3
    <2>5. shown = [i \in 1 .. Len(host) |-> shown[i]]
        BY <2>1, <2>2
    <2>6. shown \in Seq({shown[i] : i \in DOMAIN shown})
        BY <1>2, <2>2, <2>5, IsASeq
    <2> QED
        BY <1>2, <2>2, <2>4, <2>6
<1> HIDE DEF shown, T
<1>4. /\ Len(legacy) = Len(host) + Len(pushed)
      /\ \A n \in 1 .. Len(host) : legacy[n] = shown[n]
      /\ \A j \in 1 .. Len(pushed) : legacy[Len(host) + j] = pushed[j]
    <2> DEFINE U == T \union {shown[i] : i \in DOMAIN shown}
    <2>1. shown \in Seq(U) /\ pushed \in Seq(U)
        BY <1>1, <1>3, SeqMonotonic
    <2> HIDE DEF U
    <2>2. /\ Len(shown \o pushed) = Len(shown) + Len(pushed)
          /\ \A i \in 1 .. Len(shown) + Len(pushed) :
               (shown \o pushed)[i] = IF i <= Len(shown) THEN shown[i] ELSE pushed[i - Len(shown)]
        BY <2>1, ConcatProperties
    <2> HIDE DEF added, known
    <2>3. \A j \in 1 .. Len(pushed) : legacy[Len(host) + j] = pushed[(Len(host) + j) - Len(host)]
        BY <1>2, <1>3, <2>2
    <2>4. \A j \in 1 .. Len(pushed) : (Len(host) + j) - Len(host) = j
        BY <1>2
    <2>5. \A j \in 1 .. Len(pushed) : legacy[Len(host) + j] = pushed[j]
        BY <2>3, <2>4
    <2> QED
        BY <1>2, <1>3, <2>2, <2>5
<1>5. \A n \in 1 .. Len(host) : legacy[n].id \in known
    BY <1>2, <1>3, <1>4
<1>6. \A j \in 1 .. Len(pushed) : pushed[j].id \notin known
    BY <1>2, InjectedAssumption
<1>7. Filters(added, legacy, known, Len(legacy))
    <2>1. Len(legacy) \in Nat
        BY <1>2, <1>4
    <2>2. \E f : Filters(f, legacy, known, Len(legacy))
        BY <2>1, FilterIsThere
    <2> QED
        BY <2>2, Zenon DEF Filters
<1>8. v2MessagesWithInjected(host, v2ContextEvent(host) \o pushed)
        = host \o v2MessagesFromLegacy(added[Len(legacy)])
    BY Zenon DEF v2MessagesWithInjected, shown
<1> HIDE DEF added, legacy, known
<1>9. added[Len(legacy)] = pushed
    <2>1. KnownThen(legacy, known, Len(host), pushed)
        BY <1>4, <1>5, <1>6 DEF KnownThen
    <2>2. pushed \in Seq(T) /\ Len(host) \in Nat
        BY <1>1, <1>2 DEF T
    <2> QED
        BY <1>7, <2>1, <2>2, FilterKeepsTheUnknown, Zenon
<1> QED
    BY <1>8, <1>9

-----------------------------------------------------------------------------
(* What the host holds, and the events it emits.                           *)
Distinct(s) == \A i, j \in DOMAIN s : i # j => s[i] # s[j]
Phases == {"setup", "ready", "undoing", "degraded", "closing", "closed"}
Kinds == {"message.removed", "message.part.updated", "session.idle"}
Event == [type : Kinds, seq : Nat]

HostTypes ==
    /\ adapter \in [phase : Phases, left : Seq(Registrations \union {"subscribe"}),
                    held : Seq(Registrations), toDispose : Seq(Registrations), disposed : BOOLEAN]
    /\ registered \subseteq Registrations /\ refused \subseteq Registrations
    /\ disposals \in [Registrations \union {"runtime"} -> Nat]
    /\ closers \in [Closer -> {"free", "waiting", "failed", "done"}]
    /\ feed \in [controller : {"none", "open", "aborted"}, ended : BOOLEAN, inbox : Seq(Event),
                 handling : SUBSET Event]
    /\ emitted \in Seq(Event) /\ handled \in Seq(Event)

\* While the plugin is set up, and after: it knows what the host holds, each once.
KnowsWhatIsHeld ==
    adapter.phase \in {"setup", "ready"} =>
        /\ registered = ToSet(adapter.held) /\ Distinct(adapter.held) /\ refused = {}
        /\ \A what \in Registrations \union {"runtime"} : disposals[what] = 0
        /\ \A c \in Closer : closers[c] = "free"
        /\ ~ adapter.disposed

\* What is still to be registered is not there yet.
RegistersOnce ==
    adapter.phase = "setup" =>
        Distinct(adapter.left) /\ ToSet(adapter.left) \intersect ToSet(adapter.held) = {}

\* While it is undone: what is in force is what is left to undo, and what was refused.
UndoesTheRest ==
    /\ \A what \in Registrations \union {"runtime"} : disposals[what] <= 1
    /\ adapter.phase \in {"undoing", "closing"} =>
        /\ registered = ToSet(adapter.toDispose) \union refused
        /\ ToSet(adapter.toDispose) \intersect refused = {} /\ Distinct(adapter.toDispose)
        /\ \A what \in ToSet(adapter.toDispose) \union {"runtime"} : disposals[what] = 0
        /\ feed.controller # "open"

\* One caller waits for the end of the cleanup, and only that one is told of a failure.
OneIsToldOfIt ==
    /\ adapter.phase = "undoing" => \A c \in Closer : closers[c] = "free"
    /\ adapter.phase = "closing" =>
         /\ adapter.disposed
         /\ \E one \in Closer : closers[one] = "waiting"
              /\ \A c \in Closer \ {one} : closers[c] \in {"free", "done"}
    /\ adapter.phase = "closed" =>
         /\ adapter.disposed
         /\ \A c \in Closer : closers[c] # "waiting"
         /\ Cardinality({c \in Closer : closers[c] = "failed"}) = (IF refused # {} THEN 1 ELSE 0)

\* Among the first n events emitted, those that concern messages; and those handled.
Concerning(n) == {k \in 1 .. n : Relevant(emitted[k])}
Handled == {handled[j].seq : j \in 1 .. Len(handled)}
Taken == Len(emitted) - Len(feed.inbox)

\* The loop has handled what it took, or all of it but the one it is at.
LoopKeepsUp ==
    /\ \A k \in 1 .. Len(emitted) : emitted[k].seq = k
    /\ \A i \in 1 .. Len(handled) : handled[i].seq \in 1 .. Len(emitted)
    /\ feed.ended => feed.handling = {}
    /\ ~ feed.ended =>
         /\ Taken \in Nat
         /\ \A j \in 1 .. Len(feed.inbox) : feed.inbox[j] = emitted[Taken + j]
         /\ \/ feed.handling = {} /\ Handled = Concerning(Taken)
            \/ /\ Taken > 0 /\ feed.handling = {emitted[Taken]} /\ Relevant(emitted[Taken])
               /\ Handled = Concerning(Taken - 1)

\* The registrations, the loop, and both with the messages.
AdapterInv == /\ KnowsWhatIsHeld /\ RegistersOnce /\ UndoesTheRest /\ OneIsToldOfIt
              /\ NothingOutlivesThePlugin
LoopInv == LoopKeepsUp /\ EventsAreHandledInOrder
HostInv == HostTypes /\ AdapterInv /\ LoopInv /\ HostMessagesSurvive

\* Lists without duplicates: one of one, one of two, two put together.
LEMMA OneIsDistinct ==
    ASSUME NEW a
    PROVE  <<a>> \in Seq({a}) /\ Distinct(<<a>>)
<1>1. <<a>> = [i \in 1 .. 1 |-> a]
    OBVIOUS
<1>2. <<a>> \in Seq({a})
    BY <1>1, IsASeq
<1>3. DOMAIN <<a>> = 1 .. 1
    BY <1>1
<1> QED
    BY <1>2, <1>3 DEF Distinct

\* What is in a sequence once.
LEMMA TwoAreDistinct ==
    ASSUME NEW a, NEW b, a # b
    PROVE  <<a, b>> \in Seq({a, b}) /\ Distinct(<<a, b>>)
<1>1. <<a, b>> = [i \in 1 .. 2 |-> IF i = 1 THEN a ELSE b]
    OBVIOUS
<1>2. <<a, b>> \in Seq({a, b})
    BY <1>1, IsASeq
<1>3. DOMAIN <<a, b>> = 1 .. 2
    BY <1>1
<1> QED
    BY <1>2, <1>3 DEF Distinct

LEMMA JoinIsDistinct ==
    ASSUME NEW A, NEW B, A \intersect B = {}, NEW s \in Seq(A), NEW t \in Seq(B), Distinct(s), Distinct(t)
    PROVE  s \o t \in Seq(A \union B) /\ Distinct(s \o t) /\ ToSet(s \o t) = ToSet(s) \union ToSet(t)
<1>1. s \in Seq(A \union B) /\ t \in Seq(A \union B)
    BY SeqMonotonic
<1>2. /\ s \o t \in Seq(A \union B) /\ Len(s \o t) = Len(s) + Len(t)
      /\ \A i \in 1 .. Len(s) + Len(t) : (s \o t)[i] = IF i <= Len(s) THEN s[i] ELSE t[i - Len(s)]
    BY <1>1, ConcatProperties
<1> DEFINE u == s \o t
<1> HIDE DEF u
<1>3. u \in Seq(A \union B) /\ Len(u) = Len(s) + Len(t)
      /\ \A i \in 1 .. Len(s) + Len(t) : u[i] = IF i <= Len(s) THEN s[i] ELSE t[i - Len(s)]
    BY <1>2 DEF u
<1>4. Distinct(u)
    <2>1. DOMAIN u = 1 .. Len(s) + Len(t) /\ DOMAIN s = 1 .. Len(s) /\ DOMAIN t = 1 .. Len(t)
          /\ Len(s) \in Nat /\ Len(t) \in Nat
        BY <1>3
    <2>2. \A i \in 1 .. Len(s), j \in 1 .. Len(t) : s[i] # t[j]
        OBVIOUS
    <2> SUFFICES ASSUME NEW i \in 1 .. Len(s) + Len(t), NEW j \in 1 .. Len(s) + Len(t), i < j
                 PROVE  u[i] # u[j]
        BY <2>1 DEF Distinct
    <2>3. CASE j <= Len(s)
        <3>1. i \in 1 .. Len(s) /\ j \in 1 .. Len(s) /\ u[i] = s[i] /\ u[j] = s[j]
            BY <1>3, <2>1, <2>3
        <3> QED BY <2>1, <3>1 DEF Distinct
    <2>4. CASE i <= Len(s) /\ ~ (j <= Len(s))
        <3>1. i \in 1 .. Len(s) /\ j - Len(s) \in 1 .. Len(t) /\ u[i] = s[i] /\ u[j] = t[j - Len(s)]
            BY <1>3, <2>1, <2>4
        <3> QED BY <2>2, <3>1
    <2>5. CASE ~ (i <= Len(s))
        <3>1. i - Len(s) \in 1 .. Len(t) /\ j - Len(s) \in 1 .. Len(t) /\ i - Len(s) # j - Len(s)
            BY <2>1, <2>5
        <3>2. u[i] = t[i - Len(s)] /\ u[j] = t[j - Len(s)]
            BY <1>3, <2>1, <2>5
        <3> QED BY <2>1, <3>1, <3>2 DEF Distinct
    <2> QED BY <2>1, <2>3, <2>4, <2>5
<1>5. ToSet(u) = ToSet(s) \union ToSet(t)
    <2>1. ASSUME NEW i \in 1 .. Len(t) PROVE u[Len(s) + i] = t[i] /\ Len(s) + i \in 1 .. Len(u)
        <3>1. Len(s) + i \in 1 .. Len(s) + Len(t) /\ ~ (Len(s) + i <= Len(s)) /\ (Len(s) + i) - Len(s) = i
            OBVIOUS
        <3> QED BY <1>3, <3>1
    <2>2. \A i \in 1 .. Len(s) : u[i] = s[i] /\ i \in 1 .. Len(u)
        BY <1>3
    <2>3. DOMAIN u = 1 .. Len(u) /\ DOMAIN s = 1 .. Len(s) /\ DOMAIN t = 1 .. Len(t)
        BY <1>3
    <2>4. ASSUME NEW i \in 1 .. Len(u) PROVE u[i] \in ToSet(s) \union ToSet(t)
        <3>1. CASE i <= Len(s)
            <4>1. i \in 1 .. Len(s) /\ u[i] = s[i]
                BY <1>3, <3>1
            <4> QED BY <2>3, <4>1 DEF ToSet
        <3>2. CASE ~ (i <= Len(s))
            <4>1. i - Len(s) \in 1 .. Len(t) /\ u[i] = t[i - Len(s)]
                BY <1>3, <3>2
            <4> QED BY <2>3, <4>1 DEF ToSet
        <3> QED BY <3>1, <3>2
    <2>5. \A i \in 1 .. Len(s) : s[i] \in ToSet(u)
        BY <2>2, <2>3 DEF ToSet
    <2>6. \A i \in 1 .. Len(t) : t[i] \in ToSet(u)
        BY <2>1, <2>3 DEF ToSet
    <2> QED BY <2>3, <2>4, <2>5, <2>6 DEF ToSet
<1> QED
    BY <1>2, <1>4, <1>5 DEF u

\* Lists without duplicates: the next is added, the first goes, one goes, it is turned round.
LEMMA AppendIsDistinct ==
    ASSUME NEW A, NEW s \in Seq(A), NEW e \in A, Distinct(s), e \notin ToSet(s)
    PROVE  Append(s, e) \in Seq(A) /\ Distinct(Append(s, e)) /\ ToSet(Append(s, e)) = ToSet(s) \union {e}
<1> DEFINE u == Append(s, e)
<1>1. u \in Seq(A) /\ Len(u) = Len(s) + 1 /\ u[Len(s) + 1] = e /\ \A i \in 1 .. Len(s) : u[i] = s[i]
    OBVIOUS
<1> HIDE DEF u
<1>2. DOMAIN u = 1 .. Len(s) + 1 /\ DOMAIN s = 1 .. Len(s) /\ Len(s) \in Nat
    BY <1>1
<1>3. ToSet(u) = ToSet(s) \union {e}
    BY <1>1, <1>2 DEF ToSet
<1>4. Distinct(u)
    <2> SUFFICES ASSUME NEW i \in 1 .. Len(s) + 1, NEW j \in 1 .. Len(s) + 1, i # j, u[i] = u[j] PROVE FALSE
        BY <1>2 DEF Distinct
    <2>1. \A k \in 1 .. Len(s) : u[k] # e
        BY <1>1, <1>2 DEF ToSet
    <2> QED BY <1>1, <1>2, <2>1 DEF Distinct
<1> QED
    BY <1>1, <1>3, <1>4 DEF u

LEMMA TailIsDistinct ==
    ASSUME NEW A, NEW s \in Seq(A), s # <<>>, Distinct(s)
    PROVE  /\ Tail(s) \in Seq(A) /\ Distinct(Tail(s)) /\ ToSet(Tail(s)) = ToSet(s) \ {Head(s)}
           /\ Head(s) \in ToSet(s) /\ Head(s) \in A
<1> DEFINE u == Tail(s)
<1>1. u \in Seq(A) /\ Len(u) = Len(s) - 1 /\ Head(s) = s[1] /\ \A i \in 1 .. Len(u) : u[i] = s[i + 1]
    BY HeadTailProperties
<1>2. Len(s) \in Nat \ {0} /\ DOMAIN s = 1 .. Len(s)
    OBVIOUS
<1> HIDE DEF u
<1>3. DOMAIN u = 1 .. Len(s) - 1
    BY <1>1
<1>4. Distinct(u)
    <2> SUFFICES ASSUME NEW i \in 1 .. Len(s) - 1, NEW j \in 1 .. Len(s) - 1, i # j PROVE u[i] # u[j]
        BY <1>3 DEF Distinct
    <2>1. i + 1 \in DOMAIN s /\ j + 1 \in DOMAIN s /\ i + 1 # j + 1
        BY <1>2
    <2> QED BY <1>1, <2>1 DEF Distinct
<1>5. ASSUME NEW i \in 1 .. Len(s) - 1 PROVE u[i] \in ToSet(s) \ {s[1]}
    <2>1. i + 1 \in DOMAIN s /\ 1 \in DOMAIN s /\ i + 1 # 1
        BY <1>2
    <2> QED BY <1>1, <2>1 DEF Distinct, ToSet
<1>6. ASSUME NEW i \in 1 .. Len(s), s[i] # s[1] PROVE s[i] \in ToSet(u)
    <2>1. i - 1 \in 1 .. Len(s) - 1 /\ (i - 1) + 1 = i
        BY <1>2, <1>6
    <2>2. u[i - 1] = s[i]
        BY <1>1, <2>1
    <2> QED BY <1>3, <2>1, <2>2 DEF ToSet
<1>7. ToSet(u) = ToSet(s) \ {s[1]}
    BY <1>2, <1>3, <1>5, <1>6 DEF ToSet
<1> QED
    BY <1>1, <1>2, <1>4, <1>7 DEF u, ToSet

LEMMA RemoveIsDistinct ==
    ASSUME NEW A, NEW s \in Seq(A), NEW n \in 1 .. Len(s), Distinct(s)
    PROVE  /\ RemoveAt(s, n) \in Seq(A) /\ Distinct(RemoveAt(s, n))
           /\ ToSet(RemoveAt(s, n)) = ToSet(s) \ {s[n]}
<1> DEFINE l == SubSeq(s, 1, n - 1)
           r == SubSeq(s, n + 1, Len(s))
<1>0. Len(s) \in Nat /\ DOMAIN s = 1 .. Len(s)
    OBVIOUS
<1>1. l \in Seq(A) /\ Len(l) = n - 1 /\ \A i \in 1 .. n - 1 : l[i] = s[i]
    OBVIOUS
<1>2. r \in Seq(A) /\ Len(r) = Len(s) - n /\ \A i \in 1 .. Len(s) - n : r[i] = s[n + i]
    OBVIOUS
<1> DEFINE u == l \o r
<1>3. u = RemoveAt(s, n)
    BY DEF RemoveAt
<1> HIDE DEF l, r
<1>4. u \in Seq(A) /\ Len(u) = Len(s) - 1
      /\ \A i \in 1 .. Len(l) + Len(r) : u[i] = IF i <= Len(l) THEN l[i] ELSE r[i - Len(l)]
    <2>1. /\ l \o r \in Seq(A) /\ Len(l \o r) = Len(l) + Len(r)
          /\ \A i \in 1 .. Len(l) + Len(r) : (l \o r)[i] = IF i <= Len(l) THEN l[i] ELSE r[i - Len(l)]
        BY <1>1, <1>2, ConcatProperties
    <2>2. Len(l) + Len(r) = Len(s) - 1
        BY <1>0, <1>1, <1>2
    <2> QED BY <2>1, <2>2
<1> HIDE DEF u
<1>5. \A i \in 1 .. Len(s) - 1 : u[i] = IF i < n THEN s[i] ELSE s[i + 1]
    <2> SUFFICES ASSUME NEW i \in 1 .. Len(s) - 1 PROVE u[i] = IF i < n THEN s[i] ELSE s[i + 1]
        OBVIOUS
    <2>1. u[i] = IF i <= n - 1 THEN l[i] ELSE r[i - (n - 1)]
        BY <1>0, <1>1, <1>2, <1>4
    <2>2. CASE i < n
        BY <1>0, <1>1, <2>1, <2>2
    <2>3. CASE ~ (i < n)
        <3>1. i - (n - 1) \in 1 .. Len(s) - n /\ n + (i - (n - 1)) = i + 1
            BY <1>0, <2>3
        <3>2. u[i] = r[i - (n - 1)]
            BY <2>1, <2>3, <1>0
        <3> QED BY <1>2, <2>3, <3>1, <3>2
    <2> QED BY <2>2, <2>3
<1>6. DOMAIN u = 1 .. Len(s) - 1
    BY <1>4
<1>7. Distinct(u)
    <2> SUFFICES ASSUME NEW i \in 1 .. Len(s) - 1, NEW j \in 1 .. Len(s) - 1, i # j PROVE u[i] # u[j]
        BY <1>6 DEF Distinct
    <2> QED BY <1>0, <1>5 DEF Distinct
<1>8. ASSUME NEW i \in 1 .. Len(s) - 1 PROVE u[i] \in ToSet(s) \ {s[n]}
    BY <1>0, <1>5 DEF Distinct, ToSet
<1>9. ASSUME NEW i \in 1 .. Len(s), s[i] # s[n] PROVE s[i] \in ToSet(u)
    <2>1. CASE i < n
        <3>1. i \in 1 .. Len(s) - 1 /\ u[i] = s[i]
            BY <1>0, <1>5, <2>1
        <3> QED BY <1>6, <3>1 DEF ToSet
    <2>2. CASE ~ (i < n)
        <3>1. i - 1 \in 1 .. Len(s) - 1 /\ ~ (i - 1 < n) /\ (i - 1) + 1 = i
            BY <1>0, <1>9, <2>2
        <3>2. u[i - 1] = s[i]
            BY <1>5, <3>1
        <3> QED BY <1>6, <3>1, <3>2 DEF ToSet
    <2> QED BY <2>1, <2>2
<1>10. ToSet(u) = ToSet(s) \ {s[n]}
    BY <1>0, <1>6, <1>8, <1>9 DEF ToSet
<1> QED
    BY <1>3, <1>4, <1>7, <1>10

LEMMA ReverseIsDistinct ==
    ASSUME NEW A, NEW s \in Seq(A), Distinct(s)
    PROVE  Reverse(s) \in Seq(A) /\ Distinct(Reverse(s)) /\ ToSet(Reverse(s)) = ToSet(s)
<1> DEFINE u == Reverse(s)
<1>0. Len(s) \in Nat /\ DOMAIN s = 1 .. Len(s) /\ \A i \in 1 .. Len(s) : s[i] \in A
    OBVIOUS
<1>1. u = [i \in 1 .. Len(s) |-> s[(Len(s) - i) + 1]]
    BY DEF Reverse
<1> HIDE DEF u
<1>2. \A i \in 1 .. Len(s) : (Len(s) - i) + 1 \in 1 .. Len(s)
    BY <1>0
<1>3. u \in Seq(A)
    <2>1. \A i \in 1 .. Len(s) : s[(Len(s) - i) + 1] \in A
        BY <1>0, <1>2
    <2> QED BY <1>0, <1>1, <2>1, IsASeq
<1>4. DOMAIN u = 1 .. Len(s) /\ \A i \in 1 .. Len(s) : u[i] = s[(Len(s) - i) + 1]
    BY <1>1
<1>5. Distinct(u)
    BY <1>0, <1>2, <1>4 DEF Distinct
<1>6. \A i \in 1 .. Len(s) : s[i] \in ToSet(u)
    <2> SUFFICES ASSUME NEW i \in 1 .. Len(s) PROVE s[i] \in ToSet(u)
        OBVIOUS
    <2>1. (Len(s) - i) + 1 \in 1 .. Len(s) /\ (Len(s) - ((Len(s) - i) + 1)) + 1 = i
        BY <1>0
    <2>2. u[(Len(s) - i) + 1] = s[i]
        BY <1>4, <2>1
    <2> QED BY <1>4, <2>1, <2>2 DEF ToSet
<1>7. \A i \in 1 .. Len(s) : u[i] \in ToSet(s)
    BY <1>0, <1>2, <1>4 DEF ToSet
<1>8. ToSet(u) = ToSet(s)
    BY <1>0, <1>4, <1>6, <1>7 DEF ToSet
<1> QED
    BY <1>3, <1>5, <1>8 DEF u

LEMMA OnlyIfIsDistinct ==
    ASSUME NEW has, NEW A, NEW steps \in Seq(A), Distinct(steps)
    PROVE  OnlyIf(has, steps) \in Seq(A) /\ Distinct(OnlyIf(has, steps))
BY DEF OnlyIf, Distinct

\* Whatever the host offers, nothing is registered twice.
LEMMA SetupIsDistinct ==
    ASSUME NEW offers
    PROVE  SetupSteps(offers) \in Seq(Registrations \union {"subscribe"}) /\ Distinct(SetupSteps(offers))
<1> DEFINE A1 == {"execute.before", "execute.after"}
           A2 == {"prompt", "context"}
           A3 == {"subscribe"}
           A4 == {"workflowTools"}
           A5 == {"commands"}
           A6 == {"agent", "profileAgents"}
           s1 == <<"execute.before", "execute.after">>
           s2 == OnlyIf("session" \in offers, <<"prompt", "context">>)
           s3 == OnlyIf("events" \in offers, <<"subscribe">>)
           s4 == OnlyIf("tools" \in offers, <<"workflowTools">>)
           s5 == OnlyIf("commands" \in offers, <<"commands">>)
           s6 == OnlyIf("agents" \in offers, <<"agent", "profileAgents">>)
<1>1. s1 \in Seq(A1) /\ Distinct(s1)
    BY TwoAreDistinct
<1>2. s2 \in Seq(A2) /\ Distinct(s2)
    <2>1. <<"prompt", "context">> \in Seq(A2) /\ Distinct(<<"prompt", "context">>)
        BY TwoAreDistinct
    <2> QED BY <2>1, OnlyIfIsDistinct
<1>3. s3 \in Seq(A3) /\ Distinct(s3)
    BY OneIsDistinct, OnlyIfIsDistinct
<1>4. s4 \in Seq(A4) /\ Distinct(s4)
    BY OneIsDistinct, OnlyIfIsDistinct
<1>5. s5 \in Seq(A5) /\ Distinct(s5)
    BY OneIsDistinct, OnlyIfIsDistinct
<1>6. s6 \in Seq(A6) /\ Distinct(s6)
    <2>1. <<"agent", "profileAgents">> \in Seq(A6) /\ Distinct(<<"agent", "profileAgents">>)
        BY TwoAreDistinct
    <2> QED BY <2>1, OnlyIfIsDistinct
<1> DEFINE B2 == A1 \union A2
           B3 == B2 \union A3
           B4 == B3 \union A4
           B5 == B4 \union A5
           B6 == B5 \union A6
           t2 == s1 \o s2
           t3 == t2 \o s3
           t4 == t3 \o s4
           t5 == t4 \o s5
           t6 == t5 \o s6
<1>7. A1 \intersect A2 = {} /\ B2 \intersect A3 = {} /\ B3 \intersect A4 = {} /\ B4 \intersect A5 = {}
      /\ B5 \intersect A6 = {} /\ B6 = Registrations \union {"subscribe"}
    BY DEF Registrations
<1>8. SetupSteps(offers) = t6
    BY DEF SetupSteps
<1> HIDE DEF s1, s2, s3, s4, s5, s6, A1, A2, A3, A4, A5, A6
<1>9. t2 \in Seq(B2) /\ Distinct(t2)
    BY <1>1, <1>2, <1>7, JoinIsDistinct
<1> HIDE DEF t2, B2
<1>10. t3 \in Seq(B3) /\ Distinct(t3)
    BY <1>3, <1>7, <1>9, JoinIsDistinct
<1> HIDE DEF t3, B3
<1>11. t4 \in Seq(B4) /\ Distinct(t4)
    BY <1>4, <1>7, <1>10, JoinIsDistinct
<1> HIDE DEF t4, B4
<1>12. t5 \in Seq(B5) /\ Distinct(t5)
    BY <1>5, <1>7, <1>11, JoinIsDistinct
<1> HIDE DEF t5, B5
<1>13. t6 \in Seq(B6) /\ Distinct(t6)
    BY <1>6, <1>7, <1>12, JoinIsDistinct
<1> QED
    BY <1>7, <1>8, <1>13

\* A host that has just loaded the plugin holds nothing.
LEMMA HostInvInit == HostInit => HostInv
<1> SUFFICES ASSUME HostInit PROVE HostInv
    OBVIOUS
<1> USE DEF HostInit
<1>1. PICK offers : adapter = [phase |-> "setup", left |-> SetupSteps(offers), held |-> <<>>,
                               toDispose |-> <<>>, disposed |-> FALSE]
    OBVIOUS
<1>2. ToSet(<<>>) = {} /\ Distinct(<<>>)
    BY DEF ToSet, Distinct
<1>3. HostTypes
    <2>1. adapter \in [phase : Phases, left : Seq(Registrations \union {"subscribe"}),
                       held : Seq(Registrations), toDispose : Seq(Registrations), disposed : BOOLEAN]
        BY <1>1, SetupIsDistinct DEF Phases
    <2>2. disposals \in [Registrations \union {"runtime"} -> Nat]
        OBVIOUS
    <2> QED BY <2>1, <2>2 DEF HostTypes
<1>4. AdapterInv
    <2>1. KnowsWhatIsHeld
        BY <1>1, <1>2 DEF KnowsWhatIsHeld
    <2>2. RegistersOnce
        BY <1>1, <1>2, SetupIsDistinct DEF RegistersOnce
    <2>3. UndoesTheRest /\ OneIsToldOfIt /\ NothingOutlivesThePlugin
        BY <1>1 DEF UndoesTheRest, OneIsToldOfIt, NothingOutlivesThePlugin
    <2> QED BY <2>1, <2>2, <2>3 DEF AdapterInv
<1>5. LoopInv
    BY DEF LoopInv, LoopKeepsUp, EventsAreHandledInOrder, Taken, Handled, Concerning
<1>6. HostMessagesSurvive
    BY DEF HostMessagesSurvive
<1> QED
    BY <1>3, <1>4, <1>5, <1>6 DEF HostInv

\* The events are where they were: the loop is too.
LEMMA LoopUndisturbed ==
    ASSUME LoopInv, UNCHANGED <<emitted, handled>>,
           feed'.ended = feed.ended, feed'.inbox = feed.inbox, feed'.handling = feed.handling
    PROVE  LoopInv'
<1>1. Taken' = Taken /\ Handled' = Handled
    BY DEF Taken, Handled
<1>2. Concerning(Taken)' = Concerning(Taken) /\ Concerning(Taken - 1)' = Concerning(Taken - 1)
    BY <1>1 DEF Concerning
<1>3. EventsAreHandledInOrder'
    BY DEF LoopInv, EventsAreHandledInOrder
<1>4. LoopKeepsUp'
    BY <1>1, <1>2 DEF LoopInv, LoopKeepsUp
<1> QED
    BY <1>3, <1>4 DEF LoopInv

\* Each step of the adapter and of its host keeps the invariant.
LEMMA RegisterStep ==
    ASSUME HostInv, Register
    PROVE  HostInv'
<1> USE DEF Register
<1> DEFINE step == Head(adapter.left)
<1>0. HostTypes /\ AdapterInv /\ LoopInv /\ HostMessagesSurvive
    BY DEF HostInv
<1>1. /\ adapter.left \in Seq(Registrations \union {"subscribe"}) /\ adapter.left # <<>>
      /\ adapter.held \in Seq(Registrations) /\ Distinct(adapter.left) /\ Distinct(adapter.held)
      /\ ToSet(adapter.left) \intersect ToSet(adapter.held) = {} /\ registered = ToSet(adapter.held)
    BY <1>0 DEF HostTypes, AdapterInv, RegistersOnce, KnowsWhatIsHeld
<1>2. /\ Tail(adapter.left) \in Seq(Registrations \union {"subscribe"}) /\ Distinct(Tail(adapter.left))
      /\ ToSet(Tail(adapter.left)) = ToSet(adapter.left) \ {step}
      /\ step \in ToSet(adapter.left) /\ step \in Registrations \union {"subscribe"}
    BY <1>1, TailIsDistinct
<1>3. LoopInv'
    <2>1. feed'.ended = feed.ended /\ feed'.inbox = feed.inbox /\ feed'.handling = feed.handling
        BY <1>0 DEF HostTypes
    <2> QED BY <1>0, <2>1, LoopUndisturbed
<1>4. HostMessagesSurvive'
    BY <1>0 DEF HostMessagesSurvive
<1>5. CASE step = "subscribe"
    <2>1. adapter' = [adapter EXCEPT !.left = Tail(@)] /\ UNCHANGED registered
        BY <1>5
    <2>2. HostTypes'
        <3>1. adapter' \in [phase : Phases, left : Seq(Registrations \union {"subscribe"}),
                            held : Seq(Registrations), toDispose : Seq(Registrations), disposed : BOOLEAN]
            BY <1>0, <1>2, <2>1 DEF HostTypes
        <3>2. feed' \in [controller : {"none", "open", "aborted"}, ended : BOOLEAN, inbox : Seq(Event),
                         handling : SUBSET Event]
            <4>1. feed' = [feed EXCEPT !.controller = "open"]
                BY <1>5
            <4>2. feed \in [controller : {"none", "open", "aborted"}, ended : BOOLEAN, inbox : Seq(Event),
                            handling : SUBSET Event]
                BY <1>0 DEF HostTypes
            <4> HIDE DEF Register
            <4> QED BY <4>1, <4>2
        <3> QED BY <1>0, <2>1, <3>1, <3>2 DEF HostTypes
    <2>3. AdapterInv'
        BY <1>0, <1>1, <1>2, <2>1 DEF HostTypes, AdapterInv, KnowsWhatIsHeld, RegistersOnce,
           UndoesTheRest, OneIsToldOfIt, NothingOutlivesThePlugin
    <2> QED BY <1>3, <1>4, <2>2, <2>3 DEF HostInv
<1>6. CASE step # "subscribe"
    <2>1. /\ adapter' = [adapter EXCEPT !.left = Tail(@), !.held = Append(@, step)]
          /\ registered' = registered \union {step} /\ UNCHANGED feed
        BY <1>6
    <2>2. step \in Registrations /\ step \notin ToSet(adapter.held)
        BY <1>1, <1>2, <1>6
    <2>3. /\ Append(adapter.held, step) \in Seq(Registrations) /\ Distinct(Append(adapter.held, step))
          /\ ToSet(Append(adapter.held, step)) = ToSet(adapter.held) \union {step}
        BY <1>1, <2>2, AppendIsDistinct
    <2> HIDE DEF step
    <2>4. HostTypes'
        <3>1. adapter' \in [phase : Phases, left : Seq(Registrations \union {"subscribe"}),
                            held : Seq(Registrations), toDispose : Seq(Registrations), disposed : BOOLEAN]
            BY <1>0, <1>2, <2>1, <2>3 DEF HostTypes
        <3> QED BY <1>0, <2>1, <2>2, <3>1 DEF HostTypes
    <2>5. AdapterInv'
        BY <1>0, <1>1, <1>2, <2>1, <2>3 DEF HostTypes, AdapterInv, KnowsWhatIsHeld, RegistersOnce,
           UndoesTheRest, OneIsToldOfIt, NothingOutlivesThePlugin
    <2> QED BY <1>3, <1>4, <2>4, <2>5 DEF HostInv
<1> QED
    BY <1>5, <1>6

LEMMA SetupEndsStep ==
    ASSUME HostInv, SetupEnds
    PROVE  HostInv'
<1> USE DEF SetupEnds
<1>0. HostTypes /\ AdapterInv /\ LoopInv /\ HostMessagesSurvive
    BY DEF HostInv
<1>1. HostTypes'
    BY <1>0 DEF HostTypes, Phases
<1>2. AdapterInv'
    BY <1>0 DEF HostTypes, AdapterInv, KnowsWhatIsHeld, RegistersOnce, UndoesTheRest, OneIsToldOfIt,
       NothingOutlivesThePlugin
<1>3. LoopInv' /\ HostMessagesSurvive'
    BY <1>0, LoopUndisturbed DEF HostMessagesSurvive
<1> QED
    BY <1>1, <1>2, <1>3 DEF HostInv

LEMMA RegisterFailsStep ==
    ASSUME HostInv, RegisterFails
    PROVE  HostInv'
<1> USE DEF RegisterFails, eventCleanup
<1>0. HostTypes /\ AdapterInv /\ LoopInv /\ HostMessagesSurvive
    BY DEF HostInv
<1>1. HostTypes'
    BY <1>0 DEF HostTypes, Phases
<1>2. AdapterInv'
    <2>1. adapter.phase = "setup" /\ adapter'.phase = "undoing" /\ adapter'.toDispose = adapter.held
          /\ feed'.controller # "open"
        BY <1>0 DEF HostTypes
    <2>2. KnowsWhatIsHeld' /\ RegistersOnce' /\ NothingOutlivesThePlugin'
        BY <2>1 DEF KnowsWhatIsHeld, RegistersOnce, NothingOutlivesThePlugin
    <2>3. UndoesTheRest'
        <3>1. ToSet(adapter.held) \subseteq Registrations
            BY <1>0, <2>1 DEF AdapterInv, KnowsWhatIsHeld, HostTypes
        <3> QED BY <1>0, <2>1, <3>1 DEF AdapterInv, KnowsWhatIsHeld, UndoesTheRest
    <2>4. OneIsToldOfIt'
        BY <1>0, <2>1 DEF AdapterInv, KnowsWhatIsHeld, OneIsToldOfIt
    <2> QED BY <2>2, <2>3, <2>4 DEF AdapterInv
<1>3. LoopInv' /\ HostMessagesSurvive'
    <2>1. feed'.ended = feed.ended /\ feed'.inbox = feed.inbox /\ feed'.handling = feed.handling
        BY <1>0 DEF HostTypes
    <2> QED BY <1>0, <2>1, LoopUndisturbed DEF HostMessagesSurvive
<1> QED
    BY <1>1, <1>2, <1>3 DEF HostInv

LEMMA DisposeHeldStep ==
    ASSUME HostInv, NEW i \in 1 .. Len(adapter.toDispose), DisposeHeld(i)
    PROVE  HostInv'
<1> USE DEF DisposeHeld
<1> DEFINE what == adapter.toDispose[i]
<1>0. HostTypes /\ AdapterInv /\ LoopInv /\ HostMessagesSurvive
    BY DEF HostInv
<1>1. adapter.phase \in {"undoing", "closing"}
    BY DEF MayDispose
<1>2. /\ adapter.toDispose \in Seq(Registrations) /\ Distinct(adapter.toDispose)
      /\ registered = ToSet(adapter.toDispose) \union refused
      /\ ToSet(adapter.toDispose) \intersect refused = {}
      /\ \A any \in ToSet(adapter.toDispose) \union {"runtime"} : disposals[any] = 0
      /\ feed.controller # "open"
      /\ \A any \in Registrations \union {"runtime"} : disposals[any] <= 1
    BY <1>0, <1>1 DEF HostTypes, AdapterInv, UndoesTheRest
<1>3. /\ RemoveAt(adapter.toDispose, i) \in Seq(Registrations) /\ Distinct(RemoveAt(adapter.toDispose, i))
      /\ ToSet(RemoveAt(adapter.toDispose, i)) = ToSet(adapter.toDispose) \ {what}
    BY <1>2, RemoveIsDistinct
<1>4. what \in ToSet(adapter.toDispose) /\ what \in Registrations /\ what # "runtime"
    <2>1. what \in ToSet(adapter.toDispose) /\ what \in Registrations
        BY <1>2 DEF ToSet
    <2> QED BY <2>1 DEF Registrations
<1>5. /\ disposals' = [disposals EXCEPT ![what] = @ + 1]
      /\ adapter' = [adapter EXCEPT !.toDispose = RemoveAt(@, i)]
      /\ \/ registered' = registered \ {what} /\ refused' = refused
         \/ registered' = registered /\ refused' = refused \union {what}
      /\ UNCHANGED <<feed, emitted, handled, closers, request>>
    BY DEF Remaining
<1> HIDE DEF what, DisposeHeld
<1>6. HostTypes'
    <2>1. adapter' \in [phase : Phases, left : Seq(Registrations \union {"subscribe"}),
                        held : Seq(Registrations), toDispose : Seq(Registrations), disposed : BOOLEAN]
        BY <1>0, <1>3, <1>5 DEF HostTypes
    <2>2. disposals' \in [Registrations \union {"runtime"} -> Nat]
        BY <1>0, <1>4, <1>5 DEF HostTypes
    <2>3. registered' \subseteq Registrations /\ refused' \subseteq Registrations
        BY <1>0, <1>4, <1>5 DEF HostTypes
    <2> QED BY <1>0, <1>5, <2>1, <2>2, <2>3 DEF HostTypes
<1>7. AdapterInv'
    <2>1. adapter'.phase = adapter.phase /\ adapter'.toDispose = RemoveAt(adapter.toDispose, i)
          /\ adapter'.disposed = adapter.disposed
        BY <1>0, <1>5 DEF HostTypes
    <2>2. KnowsWhatIsHeld' /\ RegistersOnce' /\ NothingOutlivesThePlugin'
        BY <1>1, <2>1 DEF KnowsWhatIsHeld, RegistersOnce, NothingOutlivesThePlugin
    <2>3. UndoesTheRest'
        <3>1. \A any \in Registrations \union {"runtime"} :
                disposals'[any] = IF any = what THEN 1 ELSE disposals[any]
            BY <1>0, <1>2, <1>4, <1>5 DEF HostTypes
        <3>2. ToSet(adapter.toDispose) \subseteq Registrations
            BY <1>2 DEF ToSet
        <3>3. \A any \in Registrations \union {"runtime"} : disposals'[any] <= 1
            BY <1>2, <3>1
        <3>4. /\ registered' = ToSet(RemoveAt(adapter.toDispose, i)) \union refused'
              /\ ToSet(RemoveAt(adapter.toDispose, i)) \intersect refused' = {}
            BY <1>2, <1>3, <1>4, <1>5
        <3>5. \A any \in ToSet(RemoveAt(adapter.toDispose, i)) \union {"runtime"} : disposals'[any] = 0
            BY <1>2, <1>3, <1>4, <3>1, <3>2
        <3> QED BY <1>2, <1>3, <1>5, <2>1, <3>3, <3>4, <3>5 DEF UndoesTheRest
    <2>4. OneIsToldOfIt'
        BY <1>0, <1>1, <1>5, <2>1 DEF AdapterInv, OneIsToldOfIt
    <2> QED BY <2>2, <2>3, <2>4 DEF AdapterInv
<1>8. LoopInv' /\ HostMessagesSurvive'
    BY <1>0, <1>5, LoopUndisturbed DEF HostMessagesSurvive
<1> QED
    BY <1>6, <1>7, <1>8 DEF HostInv

LEMMA DisposalEndsStep ==
    ASSUME HostInv, DisposalEnds
    PROVE  HostInv'
<1> USE DEF DisposalEnds
<1>0. HostTypes /\ AdapterInv /\ LoopInv /\ HostMessagesSurvive
    BY DEF HostInv
<1>1. /\ registered = refused /\ feed.controller # "open" /\ disposals["runtime"] = 0
      /\ \A any \in Registrations \union {"runtime"} : disposals[any] <= 1
    <2>1. ToSet(<<>>) = {} /\ adapter.toDispose = <<>> /\ adapter.phase \in {"undoing", "closing"}
        BY DEF ToSet
    <2> QED BY <1>0, <2>1 DEF AdapterInv, UndoesTheRest
<1>2. adapter'.phase = (IF adapter.phase = "undoing" THEN "degraded" ELSE "closed")
      /\ adapter'.disposed = adapter.disposed
    BY <1>0 DEF HostTypes
<1>3. HostTypes'
    <2>1. closers' \in [Closer -> {"free", "waiting", "failed", "done"}]
        BY <1>0 DEF HostTypes
    <2>2. disposals' \in [Registrations \union {"runtime"} -> Nat]
        BY <1>0 DEF HostTypes
    <2>3. adapter' \in [phase : Phases, left : Seq(Registrations \union {"subscribe"}),
                        held : Seq(Registrations), toDispose : Seq(Registrations), disposed : BOOLEAN]
        BY <1>0 DEF HostTypes, Phases
    <2> QED BY <1>0, <2>1, <2>2, <2>3 DEF HostTypes
<1>4. \A any \in Registrations \union {"runtime"} :
        disposals'[any] = IF any = "runtime" THEN 1 ELSE disposals[any]
    BY <1>0, <1>1 DEF HostTypes
<1>5. KnowsWhatIsHeld' /\ RegistersOnce'
    BY <1>2 DEF KnowsWhatIsHeld, RegistersOnce
<1>6. NothingOutlivesThePlugin'
    BY <1>1, <1>4 DEF NothingOutlivesThePlugin
<1>7. UndoesTheRest'
    BY <1>1, <1>2, <1>4 DEF UndoesTheRest
<1>8. OneIsToldOfIt'
    <2>1. CASE adapter.phase = "undoing"
        BY <1>2, <2>1 DEF OneIsToldOfIt
    <2>2. CASE adapter.phase = "closing"
        <3>1. PICK one \in Closer : closers[one] = "waiting"
                 /\ \A c \in Closer \ {one} : closers[c] \in {"free", "done"}
            BY <1>0, <2>2 DEF AdapterInv, OneIsToldOfIt
        <3>2. \A c \in Closer : closers'[c] = IF c = one THEN (IF refused # {} THEN "failed" ELSE "done")
                                              ELSE closers[c]
            BY <3>1
        <3>3. {c \in Closer : closers'[c] = "failed"} = IF refused # {} THEN {one} ELSE {}
            BY <3>1, <3>2
        <3>4. Cardinality({c \in Closer : closers'[c] = "failed"}) = IF refused # {} THEN 1 ELSE 0
            BY <3>3, FS_Singleton, FS_EmptySet
        <3>5. \A c \in Closer : closers'[c] # "waiting"
            BY <3>1, <3>2
        <3>6. adapter.disposed
            BY <1>0, <2>2 DEF AdapterInv, OneIsToldOfIt
        <3> QED BY <1>2, <2>2, <3>4, <3>5, <3>6 DEF OneIsToldOfIt
    <2> QED BY <2>1, <2>2
<1>9. LoopInv' /\ HostMessagesSurvive'
    BY <1>0, LoopUndisturbed DEF HostMessagesSurvive
<1> QED
    BY <1>3, <1>5, <1>6, <1>7, <1>8, <1>9 DEF HostInv, AdapterInv

LEMMA CleanupIsCalledStep ==
    ASSUME HostInv, NEW c \in Closer, CleanupIsCalled(c)
    PROVE  HostInv'
<1> USE DEF CleanupIsCalled, AlreadyDisposed
<1>0. HostTypes /\ AdapterInv /\ LoopInv /\ HostMessagesSurvive
    BY DEF HostInv
<1>1. LoopInv' /\ HostMessagesSurvive'
    <2>1. feed'.ended = feed.ended /\ feed'.inbox = feed.inbox /\ feed'.handling = feed.handling
        BY <1>0 DEF HostTypes, eventCleanup
    <2> QED BY <1>0, <2>1, LoopUndisturbed DEF HostMessagesSurvive
<1>2. CASE adapter.phase = "degraded" \/ adapter.disposed
    <2>1. closers' = [closers EXCEPT ![c] = "done"] /\ UNCHANGED <<adapter, feed, registered, refused, disposals>>
        BY <1>2
    <2>2. HostTypes'
        BY <1>0, <2>1 DEF HostTypes
    <2>3. KnowsWhatIsHeld' /\ RegistersOnce' /\ NothingOutlivesThePlugin' /\ UndoesTheRest'
        BY <1>0, <1>2, <2>1 DEF AdapterInv, KnowsWhatIsHeld, RegistersOnce, NothingOutlivesThePlugin, UndoesTheRest
    <2>4. OneIsToldOfIt'
        <3>1. \A d \in Closer : closers'[d] = IF d = c THEN "done" ELSE closers[d]
            BY <1>0, <2>1 DEF HostTypes
        <3>2. closers[c] = "free"
            OBVIOUS
        <3>3. {d \in Closer : closers'[d] = "failed"} = {d \in Closer : closers[d] = "failed"}
            BY <3>1, <3>2
        <3>4. adapter.phase # "undoing"
            OBVIOUS
        <3>5. adapter.phase = "closing" =>
                \E one \in Closer : closers'[one] = "waiting"
                   /\ \A d \in Closer \ {one} : closers'[d] \in {"free", "done"}
            BY <1>0, <3>1, <3>2 DEF AdapterInv, OneIsToldOfIt
        <3>6. adapter.phase = "closed" => \A d \in Closer : closers'[d] # "waiting"
            BY <1>0, <3>1 DEF AdapterInv, OneIsToldOfIt
        <3> QED BY <1>0, <2>1, <3>3, <3>4, <3>5, <3>6 DEF AdapterInv, OneIsToldOfIt
    <2> QED BY <1>1, <2>2, <2>3, <2>4 DEF HostInv, AdapterInv
<1>3. CASE ~ (adapter.phase = "degraded" \/ adapter.disposed)
    <2>1. /\ closers' = [closers EXCEPT ![c] = "waiting"] /\ feed' = eventCleanup
          /\ adapter' = [adapter EXCEPT !.phase = "closing", !.disposed = TRUE,
                                        !.toDispose = Reverse(adapter.held)]
          /\ UNCHANGED <<registered, refused, disposals, emitted, handled>>
        BY <1>3
    <2>2. adapter.phase = "ready"
        BY <1>0, <1>3 DEF HostTypes, Phases, AdapterInv, OneIsToldOfIt
    <2>3. /\ adapter.held \in Seq(Registrations) /\ Distinct(adapter.held) /\ registered = ToSet(adapter.held)
          /\ refused = {} /\ \A d \in Closer : closers[d] = "free"
          /\ \A any \in Registrations \union {"runtime"} : disposals[any] = 0
        BY <1>0, <2>2 DEF HostTypes, AdapterInv, KnowsWhatIsHeld
    <2>4. /\ Reverse(adapter.held) \in Seq(Registrations) /\ Distinct(Reverse(adapter.held))
          /\ ToSet(Reverse(adapter.held)) = ToSet(adapter.held)
        BY <2>3, ReverseIsDistinct
    <2>5. HostTypes'
        BY <1>0, <2>1, <2>4 DEF HostTypes, Phases, eventCleanup
    <2>6. adapter'.phase = "closing" /\ adapter'.disposed /\ adapter'.toDispose = Reverse(adapter.held)
          /\ feed'.controller # "open"
        BY <1>0, <2>1 DEF HostTypes, eventCleanup
    <2>7. KnowsWhatIsHeld' /\ RegistersOnce' /\ NothingOutlivesThePlugin'
        BY <2>6 DEF KnowsWhatIsHeld, RegistersOnce, NothingOutlivesThePlugin
    <2>8. UndoesTheRest'
        <3>1. ToSet(adapter.held) \subseteq Registrations
            BY <2>3 DEF ToSet
        <3> QED BY <2>1, <2>3, <2>4, <2>6, <3>1 DEF UndoesTheRest
    <2>9. OneIsToldOfIt'
        <3>1. \A d \in Closer : closers'[d] = IF d = c THEN "waiting" ELSE "free"
            BY <1>0, <2>1, <2>3 DEF HostTypes
        <3> QED BY <2>6, <3>1 DEF OneIsToldOfIt
    <2> QED BY <1>1, <2>5, <2>7, <2>8, <2>9 DEF HostInv, AdapterInv
<1> QED
    BY <1>2, <1>3

\* The loop and the requests leave the registrations alone.
LEMMA AdapterUndisturbed ==
    ASSUME AdapterInv, UNCHANGED <<adapter, registered, refused, disposals, closers>>,
           feed'.controller = feed.controller
    PROVE  AdapterInv'
BY DEF AdapterInv, KnowsWhatIsHeld, RegistersOnce, UndoesTheRest, OneIsToldOfIt, NothingOutlivesThePlugin

LEMMA ContextHookStep ==
    ASSUME HostInv, NEW host \in HostRequests, NEW pushed \in Injected, ContextHook(host, pushed)
    PROVE  HostInv'
<1> USE DEF ContextHook
<1>0. HostTypes /\ AdapterInv /\ LoopInv
    BY DEF HostInv
<1>1. HostTypes' /\ AdapterInv' /\ LoopInv'
    BY <1>0, AdapterUndisturbed, LoopUndisturbed DEF HostTypes
<1>2. HostMessagesSurvive'
    BY InjectedAreKept DEF HostMessagesSurvive
<1> QED
    BY <1>1, <1>2 DEF HostInv

LEMMA HostEmitsStep ==
    ASSUME HostInv, NEW type \in Kinds, HostEmits(type)
    PROVE  HostInv'
<1> USE DEF HostEmits
<1> DEFINE e == [type |-> type, seq |-> Len(emitted) + 1]
<1>0. HostTypes /\ AdapterInv /\ LoopInv /\ HostMessagesSurvive
    BY DEF HostInv
<1>1. emitted \in Seq(Event) /\ feed.inbox \in Seq(Event) /\ e \in Event
    BY <1>0 DEF HostTypes, Event
<1>2. /\ emitted' = Append(emitted, e) /\ feed' = [feed EXCEPT !.inbox = Append(@, e)]
      /\ UNCHANGED <<adapter, registered, refused, disposals, handled, closers, request>>
    OBVIOUS
<1>3. e.seq = Len(emitted) + 1
    OBVIOUS
<1> HIDE DEF e, HostEmits
<1>4. /\ emitted' \in Seq(Event) /\ Len(emitted') = Len(emitted) + 1 /\ emitted'[Len(emitted) + 1] = e
      /\ \A k \in 1 .. Len(emitted) : emitted'[k] = emitted[k]
    BY <1>1, <1>2
<1>5. feed'.controller = feed.controller /\ feed'.ended = feed.ended /\ feed'.handling = feed.handling
      /\ feed'.inbox = Append(feed.inbox, e)
    BY <1>0, <1>2 DEF HostTypes
<1>6. /\ feed'.inbox \in Seq(Event) /\ Len(feed'.inbox) = Len(feed.inbox) + 1
      /\ feed'.inbox[Len(feed.inbox) + 1] = e
      /\ \A k \in 1 .. Len(feed.inbox) : feed'.inbox[k] = feed.inbox[k]
    BY <1>1, <1>5
<1>7. HostTypes'
    <2>1. feed' \in [controller : {"none", "open", "aborted"}, ended : BOOLEAN, inbox : Seq(Event),
                     handling : SUBSET Event]
        BY <1>0, <1>2, <1>6 DEF HostTypes
    <2> QED BY <1>0, <1>2, <1>4, <2>1 DEF HostTypes
<1>8. AdapterInv' /\ HostMessagesSurvive'
    BY <1>0, <1>2, <1>5, AdapterUndisturbed DEF HostMessagesSurvive
<1>9. Len(emitted) \in Nat /\ Len(feed.inbox) \in Nat /\ DOMAIN handled = 1 .. Len(handled)
    BY <1>0, <1>1 DEF HostTypes
<1>10. ASSUME NEW n \in Int, n <= Len(emitted)
       PROVE  {k \in 1 .. n : Relevant(emitted'[k])} = {k \in 1 .. n : Relevant(emitted[k])}
    <2>1. \A k \in 1 .. n : k \in 1 .. Len(emitted)
        BY <1>9, <1>10
    <2> QED BY <1>4, <2>1
<1>11. EventsAreHandledInOrder'
    <2> SUFFICES ASSUME NEW i \in DOMAIN handled'
                 PROVE  /\ Relevant(handled'[i]) /\ handled'[i] = emitted'[handled'[i].seq]
                        /\ {handled'[j].seq : j \in 1 .. (i - 1)}
                             = {k \in 1 .. (handled'[i].seq - 1) : Relevant(emitted'[k])}
        BY Zenon DEF EventsAreHandledInOrder
    <2>0. handled' = handled /\ i \in DOMAIN handled
        BY <1>2
    <2>1. handled[i].seq \in 1 .. Len(emitted)
        BY <1>0, <1>9, <2>0 DEF LoopInv, LoopKeepsUp
    <2>2. {k \in 1 .. (handled[i].seq - 1) : Relevant(emitted'[k])}
             = {k \in 1 .. (handled[i].seq - 1) : Relevant(emitted[k])}
        BY <1>9, <1>10, <2>1
    <2>3. /\ Relevant(handled[i]) /\ handled[i] = emitted[handled[i].seq]
          /\ {handled[j].seq : j \in 1 .. (i - 1)} = {k \in 1 .. (handled[i].seq - 1) : Relevant(emitted[k])}
        BY <1>0, <2>0, Zenon DEF LoopInv, EventsAreHandledInOrder
    <2>4. emitted'[handled[i].seq] = emitted[handled[i].seq]
        BY <1>4, <2>1
    <2> QED BY <2>0, <2>2, <2>3, <2>4, Zenon
<1>12. LoopKeepsUp'
    <2>1. Taken' = Taken /\ Handled' = Handled
        <3>1. Taken' = Taken
            BY <1>4, <1>6, <1>9 DEF Taken
        <3>2. Handled' = Handled
            BY <1>2 DEF Handled
        <3> QED BY <3>1, <3>2
    <2>2. \A k \in 1 .. Len(emitted') : emitted'[k].seq = k
        BY <1>0, <1>3, <1>4, <1>9 DEF LoopInv, LoopKeepsUp
    <2>3. \A i \in 1 .. Len(handled) : handled[i].seq \in 1 .. Len(emitted')
        BY <1>0, <1>4, <1>9 DEF LoopInv, LoopKeepsUp
    <2>4. feed'.ended => feed'.handling = {}
        BY <1>0, <1>5 DEF LoopInv, LoopKeepsUp
    <2>5. ASSUME ~ feed.ended
          PROVE  /\ \A j \in 1 .. Len(feed'.inbox) : feed'.inbox[j] = emitted'[Taken + j]
                 /\ \/ feed.handling = {} /\ Handled = Concerning(Taken)'
                    \/ /\ Taken > 0 /\ feed.handling = {emitted'[Taken]} /\ Relevant(emitted'[Taken])
                       /\ Handled = Concerning(Taken - 1)'
        <3>1. /\ Taken \in Nat
              /\ \A j \in 1 .. Len(feed.inbox) : feed.inbox[j] = emitted[Taken + j]
              /\ \/ feed.handling = {} /\ Handled = Concerning(Taken)
                 \/ /\ Taken > 0 /\ feed.handling = {emitted[Taken]} /\ Relevant(emitted[Taken])
                    /\ Handled = Concerning(Taken - 1)
            BY <1>0, <2>5 DEF LoopInv, LoopKeepsUp
        <3>2. Taken <= Len(emitted) /\ Taken + Len(feed.inbox) = Len(emitted)
            BY <1>9 DEF Taken
        <3>3. \A j \in 1 .. Len(feed'.inbox) : feed'.inbox[j] = emitted'[Taken + j]
            <4> SUFFICES ASSUME NEW j \in 1 .. Len(feed'.inbox) PROVE feed'.inbox[j] = emitted'[Taken + j]
                OBVIOUS
            <4>1. CASE j = Len(feed.inbox) + 1
                <5>1. Taken + j = Len(emitted) + 1
                    <6>1. Taken \in Nat
                        BY <3>1
                    <6> QED BY <1>9, <3>2, <4>1, <6>1
                <5> QED BY <1>4, <1>6, <4>1, <5>1
            <4>2. CASE j # Len(feed.inbox) + 1
                <5>2. Len(feed'.inbox) = Len(feed.inbox) + 1 /\ Taken \in Nat
                    BY <1>6, <3>1
                <5>3. j \in 1 .. Len(feed.inbox)
                    BY <1>9, <4>2, <5>2
                <5>1. j \in 1 .. Len(feed.inbox) /\ Taken + j \in 1 .. Len(emitted)
                    BY <1>9, <3>2, <5>2, <5>3
                <5> QED BY <1>4, <1>6, <3>1, <5>1
            <4> QED BY <4>1, <4>2
        <3>4. Concerning(Taken)' = Concerning(Taken)
            BY <1>10, <2>1, <3>1, <3>2 DEF Concerning
        <3>5. Concerning(Taken - 1)' = Concerning(Taken - 1)
            <4>1. Taken - 1 \in Int /\ Taken - 1 <= Len(emitted)
                BY <1>9, <3>1, <3>2
            <4> QED BY <1>10, <2>1, <4>1 DEF Concerning
        <3>6. Taken > 0 => emitted'[Taken] = emitted[Taken]
            BY <1>4, <1>9, <3>1, <3>2
        <3> QED BY <3>1, <3>3, <3>4, <3>5, <3>6
    <2>6. ~ feed.ended => Taken \in Nat
        BY <1>0 DEF LoopInv, LoopKeepsUp
    <2> QED BY <1>2, <1>5, <2>1, <2>2, <2>3, <2>4, <2>5, <2>6 DEF LoopKeepsUp
<1> QED
    BY <1>7, <1>8, <1>11, <1>12 DEF HostInv, LoopInv

LEMMA LoopTakesStep ==
    ASSUME HostInv, LoopTakes
    PROVE  HostInv'
<1>0. HostTypes /\ AdapterInv /\ LoopInv /\ HostMessagesSurvive
    BY DEF HostInv
<1>1. ~ feed.ended /\ feed.handling = {}
      /\ UNCHANGED <<adapter, registered, refused, disposals, emitted, handled, closers, request>>
    BY DEF LoopTakes, LoopIsFree
<1>2. EventsAreHandledInOrder'
    <2>1. EventsAreHandledInOrder
        BY <1>0 DEF LoopInv
    <2> QED BY <1>1, <2>1 DEF EventsAreHandledInOrder
<1>3. /\ emitted \in Seq(Event) /\ feed.inbox \in Seq(Event) /\ Len(emitted) \in Nat /\ Len(feed.inbox) \in Nat
      /\ Taken \in Nat /\ Handled = Concerning(Taken)
      /\ \A j \in 1 .. Len(feed.inbox) : feed.inbox[j] = emitted[Taken + j]
      /\ \A k \in 1 .. Len(emitted) : emitted[k].seq = k
      /\ \A i \in 1 .. Len(handled) : handled[i].seq \in 1 .. Len(emitted)
    <2>1. emitted \in Seq(Event) /\ feed.inbox \in Seq(Event)
        BY <1>0 DEF HostTypes
    <2>2. /\ \A k \in 1 .. Len(emitted) : emitted[k].seq = k
          /\ \A i \in 1 .. Len(handled) : handled[i].seq \in 1 .. Len(emitted)
          /\ Taken \in Nat
          /\ \A j \in 1 .. Len(feed.inbox) : feed.inbox[j] = emitted[Taken + j]
          /\ (feed.handling = {} /\ Handled = Concerning(Taken)) \/ feed.handling = {emitted[Taken]}
        BY <1>0, <1>1, Zenon DEF LoopInv, LoopKeepsUp
    <2>3. Handled = Concerning(Taken)
        BY <1>1, <2>2
    <2>4. Len(emitted) \in Nat /\ Len(feed.inbox) \in Nat
        BY <2>1
    <2> QED BY <2>1, <2>2, <2>3, <2>4, Zenon
<1>4. Handled' = Handled
    BY <1>1 DEF Handled
<1>5. CASE /\ feed.controller = "open" /\ feed.inbox # <<>>
           /\ LET e == Head(feed.inbox)
              IN  feed' = [feed EXCEPT !.inbox = Tail(@),
                                       !.handling = IF Relevant(e) THEN @ \union {e} ELSE @]
    <2> DEFINE e == Head(feed.inbox)
    <2>1. /\ Tail(feed.inbox) \in Seq(Event) /\ Len(Tail(feed.inbox)) = Len(feed.inbox) - 1
          /\ \A j \in 1 .. Len(feed.inbox) - 1 : Tail(feed.inbox)[j] = feed.inbox[j + 1]
          /\ e = feed.inbox[1] /\ e \in Event /\ Len(feed.inbox) > 0
        BY <1>3, <1>5, HeadTailProperties
    <2>2. feed' = [feed EXCEPT !.inbox = Tail(@), !.handling = IF Relevant(e) THEN {e} ELSE {}]
        BY <1>1, <1>5
    <2> HIDE DEF e
    <2>3. feed'.controller = feed.controller /\ feed'.ended = feed.ended /\ feed'.inbox = Tail(feed.inbox)
          /\ feed'.handling = IF Relevant(e) THEN {e} ELSE {}
        BY <1>0, <2>2 DEF HostTypes
    <2>4. HostTypes'
        <3>1. feed' \in [controller : {"none", "open", "aborted"}, ended : BOOLEAN, inbox : Seq(Event),
                         handling : SUBSET Event]
            BY <1>0, <2>1, <2>2 DEF HostTypes
        <3> QED BY <1>0, <1>1, <3>1 DEF HostTypes
    <2>5. AdapterInv' /\ HostMessagesSurvive'
        BY <1>0, <1>1, <2>3, AdapterUndisturbed DEF HostMessagesSurvive
    <2>6. Taken' = Taken + 1
        <3>1. emitted' = emitted /\ Len(emitted) \in Nat /\ Len(feed.inbox) \in Nat
              /\ Len(feed'.inbox) = Len(feed.inbox) - 1
            BY <1>1, <1>3, <2>1, <2>3
        <3> QED BY <3>1 DEF Taken
    <2>7. e = emitted[Taken + 1]
        BY <1>3, <2>1
    <2>8. \A j \in 1 .. Len(feed'.inbox) : feed'.inbox[j] = emitted[(Taken + 1) + j]
        <3> SUFFICES ASSUME NEW j \in 1 .. Len(feed.inbox) - 1
                     PROVE  Tail(feed.inbox)[j] = emitted[(Taken + 1) + j]
            BY <2>1, <2>3
        <3>1. j + 1 \in 1 .. Len(feed.inbox) /\ Taken + (j + 1) = (Taken + 1) + j
            BY <1>3
        <3> QED BY <1>3, <2>1, <3>1
    <2>9. Concerning(Taken') = Concerning(Taken) \union (IF Relevant(e) THEN {Taken + 1} ELSE {})
        BY <1>3, <2>6, <2>7 DEF Concerning
    <2>10. Concerning(Taken)' = Concerning(Taken') /\ Concerning(Taken - 1)' = Concerning(Taken' - 1)
        BY <1>1 DEF Concerning
    <2>11. \/ feed'.handling = {} /\ Handled' = Concerning(Taken)'
           \/ /\ Taken' > 0 /\ feed'.handling = {emitted'[Taken']} /\ Relevant(emitted'[Taken'])
              /\ Handled' = Concerning(Taken - 1)'
        <3>1. CASE Relevant(e)
            <4>1. Taken' > 0 /\ Taken' - 1 = Taken
                BY <1>3, <2>6
            <4>2. emitted'[Taken'] = e
                BY <1>1, <2>6, <2>7
            <4>3. Handled' = Concerning(Taken - 1)'
                BY <1>3, <1>4, <2>10, <4>1
            <4> QED BY <2>3, <3>1, <4>1, <4>2, <4>3
        <3>2. CASE ~ Relevant(e)
            BY <1>3, <1>4, <2>3, <2>9, <2>10, <3>2
        <3> QED BY <3>1, <3>2
    <2>12. LoopKeepsUp'
        <3>1. Taken' \in Nat
            BY <1>3, <2>6
        <3>2. \A j \in 1 .. Len(feed'.inbox) : feed'.inbox[j] = emitted'[Taken' + j]
            BY <1>1, <2>6, <2>8
        <3>3. feed'.ended => feed'.handling = {}
            BY <1>1, <2>3
        <3> QED BY <1>1, <1>3, <2>11, <3>1, <3>2, <3>3 DEF LoopKeepsUp
    <2> QED BY <1>2, <2>4, <2>5, <2>12 DEF HostInv, LoopInv
<1>6. CASE /\ feed.controller = "aborted"
           /\ feed' = [feed EXCEPT !.ended = TRUE, !.inbox = <<>>]
    <2>1. feed'.controller = feed.controller /\ feed'.ended /\ feed'.handling = {}
        BY <1>0, <1>1, <1>6 DEF HostTypes
    <2>2. HostTypes'
        <3>1. feed' \in [controller : {"none", "open", "aborted"}, ended : BOOLEAN, inbox : Seq(Event),
                         handling : SUBSET Event]
            <4>1. feed \in [controller : {"none", "open", "aborted"}, ended : BOOLEAN, inbox : Seq(Event),
                            handling : SUBSET Event]
                BY <1>0 DEF HostTypes
            <4> QED BY <1>6, <4>1, EmptySeq
        <3> QED BY <1>0, <1>1, <3>1 DEF HostTypes
    <2>3. AdapterInv' /\ HostMessagesSurvive'
        BY <1>0, <1>1, <2>1, AdapterUndisturbed DEF HostMessagesSurvive
    <2>4. LoopKeepsUp'
        BY <1>1, <1>3, <2>1 DEF LoopKeepsUp
    <2> QED BY <1>2, <2>2, <2>3, <2>4 DEF HostInv, LoopInv
<1> QED
    BY <1>5, <1>6 DEF LoopTakes

LEMMA HandlerEndsStep ==
    ASSUME HostInv, NEW e \in feed.handling, HandlerEnds(e)
    PROVE  HostInv'
<1>0. HostTypes /\ AdapterInv /\ LoopInv /\ HostMessagesSurvive
    BY DEF HostInv
<1>1. /\ handled' = Append(handled, e)
      /\ UNCHANGED <<adapter, registered, refused, disposals, emitted, closers, request>>
    BY DEF HandlerEnds
<1>f. /\ \/ feed' = [feed EXCEPT !.handling = @ \ {e}]
         \/ feed' = [feed EXCEPT !.handling = @ \ {e}, !.ended = TRUE]
      /\ feed \in [controller : {"none", "open", "aborted"}, ended : BOOLEAN, inbox : Seq(Event),
                   handling : SUBSET Event]
    BY <1>0 DEF HandlerEnds, HostTypes
<1>2. /\ emitted \in Seq(Event) /\ handled \in Seq(Event) /\ feed.inbox \in Seq(Event) /\ e \in Event
      /\ Len(emitted) \in Nat /\ Len(handled) \in Nat /\ Len(feed.inbox) \in Nat
    <2>1. emitted \in Seq(Event) /\ handled \in Seq(Event) /\ feed.inbox \in Seq(Event) /\ e \in Event
        BY <1>0 DEF HostTypes
    <2> QED BY <2>1
<1>3. /\ ~ feed.ended /\ Taken \in Nat /\ Taken > 0 /\ feed.handling = {emitted[Taken]} /\ Relevant(emitted[Taken])
      /\ Handled = Concerning(Taken - 1)
      /\ \A j \in 1 .. Len(feed.inbox) : feed.inbox[j] = emitted[Taken + j]
      /\ \A k \in 1 .. Len(emitted) : emitted[k].seq = k
      /\ \A i \in 1 .. Len(handled) : handled[i].seq \in 1 .. Len(emitted)
    BY <1>0 DEF LoopInv, LoopKeepsUp
<1>4. Taken \in 1 .. Len(emitted) /\ e = emitted[Taken] /\ e.seq = Taken
    <2>1. Taken \in 1 .. Len(emitted)
        <3>1. Taken <= Len(emitted)
            BY <1>2 DEF Taken
        <3> QED BY <1>2, <1>3, <3>1
    <2> QED BY <1>3, <2>1
<1>5. feed'.controller = feed.controller /\ feed'.inbox = feed.inbox /\ feed'.handling = {}
    <2>1. feed.handling = {e}
        BY <1>3
    <2> QED BY <1>f, <2>1
<1>6. /\ handled' \in Seq(Event) /\ Len(handled') = Len(handled) + 1 /\ handled'[Len(handled) + 1] = e
      /\ \A i \in 1 .. Len(handled) : handled'[i] = handled[i]
    BY <1>1, <1>2
<1>7. HostTypes'
    <2>1. feed' \in [controller : {"none", "open", "aborted"}, ended : BOOLEAN, inbox : Seq(Event),
                     handling : SUBSET Event]
        BY <1>f
    <2> QED BY <1>0, <1>1, <1>6, <2>1 DEF HostTypes
<1>8. AdapterInv' /\ HostMessagesSurvive'
    BY <1>0, <1>1, <1>5, AdapterUndisturbed DEF HostMessagesSurvive
<1>9. EventsAreHandledInOrder'
    <2> SUFFICES ASSUME NEW i \in DOMAIN handled'
                 PROVE  /\ Relevant(handled'[i]) /\ handled'[i] = emitted'[handled'[i].seq]
                        /\ {handled'[j].seq : j \in 1 .. (i - 1)}
                             = {k \in 1 .. (handled'[i].seq - 1) : Relevant(emitted'[k])}
        BY Zenon DEF EventsAreHandledInOrder
    <2>1. i \in 1 .. Len(handled) + 1 /\ emitted' = emitted
        BY <1>1, <1>6
    <2>2. {handled'[j].seq : j \in 1 .. (i - 1)} = {handled[j].seq : j \in 1 .. (i - 1)}
        <3>1. \A j \in 1 .. (i - 1) : j \in 1 .. Len(handled)
            BY <1>2, <2>1
        <3> QED BY <1>6, <3>1
    <2>3. CASE i = Len(handled) + 1
        <3>1. handled'[i] = e /\ i - 1 = Len(handled)
            BY <1>2, <1>6, <2>3
        <3>2. {handled[j].seq : j \in 1 .. (i - 1)} = {k \in 1 .. (e.seq - 1) : Relevant(emitted[k])}
            BY <1>3, <1>4, <3>1 DEF Handled, Concerning
        <3> QED BY <1>3, <1>4, <2>1, <2>2, <3>1, <3>2
    <2>4. CASE i # Len(handled) + 1
        <3>1. i \in 1 .. Len(handled) /\ i \in DOMAIN handled
            BY <1>2, <2>1, <2>4
        <3>2. handled'[i] = handled[i]
            BY <1>6, <3>1
        <3>3. /\ Relevant(handled[i]) /\ handled[i] = emitted[handled[i].seq]
              /\ {handled[j].seq : j \in 1 .. (i - 1)} = {k \in 1 .. (handled[i].seq - 1) : Relevant(emitted[k])}
            BY <1>0, <3>1, Zenon DEF LoopInv, EventsAreHandledInOrder
        <3> QED BY <2>1, <2>2, <3>2, <3>3, Zenon
    <2> QED BY <2>3, <2>4
<1>10. LoopKeepsUp'
    <2>1. Taken' = Taken
        BY <1>1, <1>5 DEF Taken
    <2>2. Handled' = Handled \union {Taken}
        <3>1. Handled' = {handled'[j].seq : j \in 1 .. Len(handled')}
            BY Zenon DEF Handled
        <3>2. {handled'[j].seq : j \in 1 .. Len(handled')} = {handled[j].seq : j \in 1 .. Len(handled)} \union {Taken}
            <4> DEFINE longer == handled'
            <4>1. /\ Len(handled) \in Nat /\ Len(longer) = Len(handled) + 1
                  /\ longer[Len(handled) + 1].seq = Taken
                  /\ \A i \in 1 .. Len(handled) : longer[i] = handled[i]
                BY <1>2, <1>4, <1>6
            <4> HIDE DEF longer
            <4>2. 1 .. Len(longer) = (1 .. Len(handled)) \union {Len(handled) + 1}
                BY <4>1
            <4>3. {longer[j].seq : j \in 1 .. Len(longer)} = {handled[j].seq : j \in 1 .. Len(handled)} \union {Taken}
                BY <4>1, <4>2
            <4> QED BY <4>3 DEF longer
        <3> QED BY <3>1, <3>2, Zenon DEF Handled
    <2>3. Concerning(Taken)' = Concerning(Taken)
        BY <1>1, <2>1 DEF Concerning
    <2>4. Concerning(Taken) = Concerning(Taken - 1) \union {Taken}
        BY <1>3 DEF Concerning
    <2>5. Handled' = Concerning(Taken)'
        BY <1>3, <2>2, <2>3, <2>4
    <2>6. \A i \in 1 .. Len(handled') : handled'[i].seq \in 1 .. Len(emitted)
        <3>1. \A i \in 1 .. Len(handled') : i \in 1 .. Len(handled) \/ i = Len(handled) + 1
            BY <1>2, <1>6
        <3>2. handled'[Len(handled) + 1].seq \in 1 .. Len(emitted)
            BY <1>4, <1>6
        <3> QED BY <1>3, <1>6, <3>1, <3>2, Zenon
    <2> QED BY <1>1, <1>3, <1>5, <2>1, <2>5, <2>6 DEF LoopKeepsUp
<1> QED
    BY <1>7, <1>8, <1>9, <1>10 DEF HostInv, LoopInv

LEMMA HostInvStep == HostInv /\ [HostNext]_hostVars => HostInv'
<1> SUFFICES ASSUME HostInv, [HostNext]_hostVars PROVE HostInv'
    OBVIOUS
<1>1. CASE UNCHANGED hostVars
    <2>1. HostTypes /\ AdapterInv /\ LoopInv /\ HostMessagesSurvive
        BY DEF HostInv
    <2> QED
        BY <1>1, <2>1, AdapterUndisturbed, LoopUndisturbed DEF hostVars, HostInv, HostTypes, HostMessagesSurvive
<1>2. CASE HostNext
    BY <1>2, RegisterStep, SetupEndsStep, RegisterFailsStep, DisposeHeldStep, DisposalEndsStep,
       CleanupIsCalledStep, HostEmitsStep, LoopTakesStep, HandlerEndsStep, ContextHookStep
       DEF HostNext, Kinds
<1> QED
    BY <1>1, <1>2

\* Whatever the host offers, refuses and emits: a plugin that is gone leaves nothing behind but
\* what it was refused, is disposed of once, handles the events in their order, and gives every
\* request back whole.
THEOREM HostIsAlwaysLeftIntact == HostSpec => []HostIsLeftIntact
<1>1. HostInv => HostIsLeftIntact
    <2> SUFFICES ASSUME HostInv PROVE HostIsLeftIntact
        OBVIOUS
    <2>1. CleanedUpOnce
        <3>1. DOMAIN disposals = Registrations \union {"runtime"}
            BY DEF HostInv, HostTypes
        <3> QED BY <3>1 DEF HostInv, AdapterInv, UndoesTheRest, OneIsToldOfIt, CleanedUpOnce
    <2> QED BY <2>1 DEF HostInv, AdapterInv, LoopInv, HostIsLeftIntact
<1> QED
    BY HostInvInit, HostInvStep, <1>1, PTL DEF HostSpec

-----------------------------------------------------------------------------
(* Task cycles.                                                            *)
ScopeOfPlans == UNION {{scopes[i] : i \in DOMAIN scopes} : scopes \in TaskPlans}
PlannedTask == [id : 0 .. MaxTaskId, status : anyStatus, scope : ScopeOfPlans]
PlaceAbove == [list : ListKeys, task : 0 .. MaxTaskId]
LoopRun == [task : 0 .. MaxTaskId, list : ListKeys, ancestry : Seq(PlaceAbove), stage : EntryStage .. LastStage,
            status : {"running", "awaiting_decision"} \union overStatus]

\* Lists as such: where the tasks of an id are, that no id is twice, and that a list of
\* children is younger than the task it is under.
WithIn(lists, t) == {l \in DOMAIN lists : t \in {lists[l][i].id : i \in DOMAIN lists[l]}}
PlannedLists(lists) ==
    /\ DOMAIN lists \subseteq ListKeys
    /\ \A l \in DOMAIN lists : lists[l] \in Seq(PlannedTask)
EachIdOnce(lists) ==
    \A l, k \in DOMAIN lists : \A i \in DOMAIN lists[l], j \in DOMAIN lists[k] :
        lists[l][i].id = lists[k][j].id => l = k /\ i = j
ChildrenCameLater(lists) ==
    \A t \in 0 .. MaxTaskId : ChildList(t) \in DOMAIN lists =>
        /\ WithIn(lists, t) # {}
        /\ \A i \in DOMAIN lists[ChildList(t)] : lists[ChildList(t)][i].id > t
ListsFit(lists) == PlannedLists(lists) /\ EachIdOnce(lists) /\ ChildrenCameLater(lists)

-----------------------------------------------------------------------------
(* Where a list hangs.                                                     *)
\* What the lists above a list are, as far as so many steps up show.
StepUp(lists, shorter) ==
    [l \in ListKeys |->
        IF l = OuterList \/ WithIn(lists, l[1]) = {} THEN <<>>
        ELSE LET above == CHOOSE k \in WithIn(lists, l[1]) : TRUE
             IN  Append(shorter[above], [list |-> above, task |-> l[1]])]
StepsUp(lists, up, top) ==
    up = [n \in 0 .. top |-> IF n = 0 THEN [l \in ListKeys |-> <<>>] ELSE StepUp(lists, up[n - 1])]
AncestryIn(lists, list) ==
    LET up[n \in 0 .. (MaxTaskId + 1)] ==
          IF n = 0 THEN [l \in ListKeys |-> <<>>] ELSE StepUp(lists, up[n - 1])
    IN  up[MaxTaskId + 1][list]

\* A key that is not the outer one names the task the list is under.
LEMMA KeyOfChild ==
    /\ \A t \in 0 .. MaxTaskId : ChildList(t) \in ListKeys /\ ChildList(t) # OuterList /\ ChildList(t)[1] = t
    /\ \A l \in ListKeys : l # OuterList => l[1] \in 0 .. MaxTaskId /\ l = ChildList(l[1])
BY DEF ListKeys, ChildList, OuterList

\* resolveTaskAncestry reads nothing but the lists.
LEMMA AncestryIsOfTheLists ==
    ASSUME NEW list
    PROVE  Ancestry(list) = AncestryIn(taskLists, list)
<1>2. \A shorter : OneMoreAbove(shorter) = StepUp(taskLists, shorter)
    BY Zenon DEF OneMoreAbove, StepUp, ListsWith, WithIn, IdsOf
<1> QED
    BY <1>2, Zenon DEF Ancestry, AncestryIn

\* The recursive function exists, for any number of steps.
LEMMA StepsUpAreThere ==
    ASSUME NEW lists, NEW top \in Nat
    PROVE  \E up : StepsUp(lists, up, top)
<1> DEFINE S == {k \in Nat : ~ \E up : StepsUp(lists, up, k)}
<1>1. SUFFICES ASSUME S # {} PROVE FALSE
    OBVIOUS
<1>2. PICK k \in S : \A y \in S : k <= y
    BY <1>1, LeastNumber
<1>3. CASE k = 0
    <2>1. StepsUp(lists, [n \in 0 .. 0 |-> [l \in ListKeys |-> <<>>]], 0)
        BY DEF StepsUp
    <2> QED
        BY <1>2, <1>3, <2>1
<1>4. CASE k # 0
    <2>1. k \in Nat /\ k - 1 \in Nat /\ k - 1 \notin S
        BY <1>2, <1>4
    <2>2. PICK f : StepsUp(lists, f, k - 1)
        BY <2>1
    <2> DEFINE last == StepUp(lists, f[k - 1])
               g == [n \in 0 .. k |-> IF n = k THEN last ELSE f[n]]
               h == [n \in 0 .. k |-> IF n = 0 THEN [l \in ListKeys |-> <<>>] ELSE StepUp(lists, g[n - 1])]
    <2>3. \A n \in 0 .. (k - 1) : f[n] = IF n = 0 THEN [l \in ListKeys |-> <<>>] ELSE StepUp(lists, f[n - 1])
        BY <2>1, <2>2 DEF StepsUp
    <2> HIDE DEF last
    <2>4. ASSUME NEW n \in 0 .. k
          PROVE  g[n] = IF n = 0 THEN [l \in ListKeys |-> <<>>] ELSE StepUp(lists, g[n - 1])
        <3>1. CASE n = k
            <4>1. g[n] = last /\ g[n - 1] = f[k - 1] /\ n # 0
                BY <1>4, <2>1, <3>1
            <4> QED
                BY <4>1, <3>1 DEF last
        <3>2. CASE n # k
            <4>1. n \in 0 .. (k - 1) /\ g[n] = f[n] /\ (n # 0 => g[n - 1] = f[n - 1])
                BY <2>1, <3>2
            <4> QED
                BY <4>1, <2>3
        <3> QED
            BY <3>1, <3>2
    <2>5. \A n \in 0 .. k : g[n] = h[n]
        BY <2>4
    <2>6. g = [n \in 0 .. k |-> g[n]] /\ h = [n \in 0 .. k |-> h[n]]
        OBVIOUS
    <2>7. g = h
        <3> HIDE DEF g, h
        <3> QED BY <2>5, <2>6
    <2>8. StepsUp(lists, g, k)
        <3> HIDE DEF g
        <3> QED BY <2>7 DEF StepsUp
    <2> QED
        BY <1>2, <2>8
<1> QED
    BY <1>3, <1>4

\* The steps that lead to the ancestry of every list.
LEMMA AncestryTakesSteps ==
    ASSUME NEW lists
    PROVE  \E up : /\ \A list : AncestryIn(lists, list) = up[MaxTaskId + 1][list]
                   /\ up[0] = [l \in ListKeys |-> <<>>]
                   /\ \A n \in 1 .. (MaxTaskId + 1) : up[n] = StepUp(lists, up[n - 1])
<1> DEFINE up == CHOOSE f : f = [n \in 0 .. (MaxTaskId + 1) |->
                      IF n = 0 THEN [l \in ListKeys |-> <<>>] ELSE StepUp(lists, f[n - 1])]
<1>1. StepsUp(lists, up, MaxTaskId + 1)
    <2>1. MaxTaskId + 1 \in Nat
        BY TaskPlansAssumption
    <2>2. \E f : StepsUp(lists, f, MaxTaskId + 1)
        BY <2>1, StepsUpAreThere
    <2> QED BY <2>2, Zenon DEF StepsUp
<1>2. \A list : AncestryIn(lists, list) = up[MaxTaskId + 1][list]
    BY Zenon DEF AncestryIn
<1> HIDE DEF up
<1>3. up[0] = [l \in ListKeys |-> <<>>] /\ \A n \in 1 .. (MaxTaskId + 1) : up[n] = StepUp(lists, up[n - 1])
    BY <1>1, TaskPlansAssumption DEF StepsUp
<1> QED
    BY <1>2, <1>3

\* Where the tasks above are in the same lists, so is everything above them.
LEMMA SameAbove ==
    ASSUME NEW lists, NEW others, NEW K \in SUBSET ListKeys,
           \A l \in K : l # OuterList =>
               WithIn(others, l[1]) = WithIn(lists, l[1]) /\ WithIn(lists, l[1]) \subseteq K
    PROVE  \A l \in K : AncestryIn(others, l) = AncestryIn(lists, l)
<1>1. PICK up : /\ \A list : AncestryIn(lists, list) = up[MaxTaskId + 1][list]
                /\ up[0] = [l \in ListKeys |-> <<>>]
                /\ \A n \in 1 .. (MaxTaskId + 1) : up[n] = StepUp(lists, up[n - 1])
    BY AncestryTakesSteps
<1>2. PICK op : /\ \A list : AncestryIn(others, list) = op[MaxTaskId + 1][list]
                /\ op[0] = [l \in ListKeys |-> <<>>]
                /\ \A n \in 1 .. (MaxTaskId + 1) : op[n] = StepUp(others, op[n - 1])
    BY AncestryTakesSteps
<1> DEFINE S == {n \in 0 .. (MaxTaskId + 1) : \E l \in K : op[n][l] # up[n][l]}
<1>3. ASSUME S # {} PROVE FALSE
    <2>0. S \in SUBSET Nat
        BY TaskPlansAssumption
    <2>1. PICK n \in S : \A y \in S : n <= y
        BY <1>3, <2>0, LeastNumber
    <2>2. PICK l \in K : op[n][l] # up[n][l]
        BY <2>1
    <2>3. n # 0
        BY <1>1, <1>2, <2>2
    <2>4. n \in 1 .. (MaxTaskId + 1) /\ n - 1 \in 0 .. (MaxTaskId + 1) /\ n - 1 \notin S
        BY <2>0, <2>1, <2>3, TaskPlansAssumption
    <2>5. op[n][l] = StepUp(others, op[n - 1])[l] /\ up[n][l] = StepUp(lists, up[n - 1])[l]
        BY <1>1, <1>2, <2>4
    <2>6. \A k \in K : op[n - 1][k] = up[n - 1][k]
        BY <2>4
    <2>7. CASE l = OuterList \/ WithIn(lists, l[1]) = {}
        BY <2>2, <2>5, <2>7 DEF StepUp
    <2>8. CASE ~ (l = OuterList \/ WithIn(lists, l[1]) = {})
        <3> DEFINE above == CHOOSE k \in WithIn(lists, l[1]) : TRUE
        <3>1. WithIn(others, l[1]) = WithIn(lists, l[1]) /\ WithIn(lists, l[1]) \subseteq K
            BY <2>8
        <3>2. above \in K
            BY <2>8, <3>1
        <3>3. StepUp(lists, up[n - 1])[l] = Append(up[n - 1][above], [list |-> above, task |-> l[1]])
            BY <2>8 DEF StepUp
        <3>4. StepUp(others, op[n - 1])[l] = Append(op[n - 1][above], [list |-> above, task |-> l[1]])
            BY <2>8, <3>1 DEF StepUp
        <3> HIDE DEF above
        <3> QED BY <2>2, <2>5, <2>6, <3>2, <3>3, <3>4
    <2> QED BY <2>7, <2>8
<1>4. MaxTaskId + 1 \in 0 .. (MaxTaskId + 1)
    BY TaskPlansAssumption
<1> QED
    BY <1>1, <1>2, <1>3, <1>4

\* From a list of children the way up ends in the list of the outer loop.
LEMMA TheRootIsOuter ==
    ASSUME NEW lists, PlannedLists(lists), ChildrenCameLater(lists)
    PROVE  \A l \in DOMAIN lists :
             /\ AncestryIn(lists, l) \in Seq(PlaceAbove)
             /\ l # OuterList => AncestryIn(lists, l) # <<>> /\ AncestryIn(lists, l)[1].list = OuterList
<1>1. PICK up : /\ \A list : AncestryIn(lists, list) = up[MaxTaskId + 1][list]
                /\ up[0] = [l \in ListKeys |-> <<>>]
                /\ \A n \in 1 .. (MaxTaskId + 1) : up[n] = StepUp(lists, up[n - 1])
    BY AncestryTakesSteps
<1>0. MaxTaskId \in Nat
    BY TaskPlansAssumption
<1> DEFINE Right(n) ==
             /\ \A l \in ListKeys : up[n][l] \in Seq(PlaceAbove)
             /\ \A t \in 0 .. MaxTaskId : t < n /\ ChildList(t) \in DOMAIN lists =>
                  up[n][ChildList(t)] # <<>> /\ up[n][ChildList(t)][1].list = OuterList
           S == {n \in 0 .. (MaxTaskId + 1) : ~ Right(n)}
<1>2. Right(0)
    BY <1>0, <1>1
<1>3. ASSUME NEW n \in 1 .. (MaxTaskId + 1), Right(n - 1) PROVE Right(n)
    <2>1. ASSUME NEW l \in ListKeys
          PROVE  /\ l = OuterList \/ WithIn(lists, l[1]) = {} => up[n][l] = <<>>
                 /\ ~ (l = OuterList \/ WithIn(lists, l[1]) = {}) =>
                      \E above \in WithIn(lists, l[1]) :
                        up[n][l] = Append(up[n - 1][above], [list |-> above, task |-> l[1]])
        <3>1. up[n][l] = StepUp(lists, up[n - 1])[l]
            BY <1>1
        <3> QED BY <3>1 DEF StepUp
    <2>2. \A l \in ListKeys : up[n][l] \in Seq(PlaceAbove)
        <3> SUFFICES ASSUME NEW l \in ListKeys PROVE up[n][l] \in Seq(PlaceAbove)
            OBVIOUS
        <3>1. CASE l = OuterList \/ WithIn(lists, l[1]) = {}
            BY <2>1, <3>1, EmptySeq
        <3>2. CASE ~ (l = OuterList \/ WithIn(lists, l[1]) = {})
            <4>1. PICK above \in WithIn(lists, l[1]) :
                        up[n][l] = Append(up[n - 1][above], [list |-> above, task |-> l[1]])
                BY <2>1, <3>2
            <4>2. above \in ListKeys /\ l[1] \in 0 .. MaxTaskId
                BY <3>2, <4>1, KeyOfChild DEF WithIn, PlannedLists
            <4>3. up[n - 1][above] \in Seq(PlaceAbove) /\ [list |-> above, task |-> l[1]] \in PlaceAbove
                BY <1>3, <4>2 DEF PlaceAbove
            <4> QED BY <4>1, <4>3
        <3> QED BY <3>1, <3>2
    <2>3. ASSUME NEW t \in 0 .. MaxTaskId, t < n, ChildList(t) \in DOMAIN lists
          PROVE  up[n][ChildList(t)] # <<>> /\ up[n][ChildList(t)][1].list = OuterList
        <3>1. WithIn(lists, t) # {} /\ ChildList(t) \in ListKeys /\ ChildList(t) # OuterList /\ ChildList(t)[1] = t
            BY <2>3, KeyOfChild DEF ChildrenCameLater
        <3>2. PICK above \in WithIn(lists, t) :
                 up[n][ChildList(t)] = Append(up[n - 1][above], [list |-> above, task |-> t])
            BY <2>1, <3>1
        <3>3. above \in ListKeys /\ above \in DOMAIN lists
            BY <3>2 DEF WithIn, PlannedLists
        <3> DEFINE shorter == up[n - 1][above]
                   next == [list |-> above, task |-> t]
        <3>4. shorter \in Seq(PlaceAbove) /\ next \in PlaceAbove
            BY <1>3, <3>3 DEF PlaceAbove
        <3>5. CASE above = OuterList
            <4>1. n - 1 \in 0 .. (MaxTaskId + 1) /\ shorter = <<>>
                <5>1. CASE n - 1 = 0
                    BY <1>0, <1>1, <3>3, <5>1
                <5>2. CASE n - 1 # 0
                    <6>1. n - 1 \in 1 .. (MaxTaskId + 1)
                        BY <1>0, <5>2
                    <6>2. up[n - 1] = StepUp(lists, up[(n - 1) - 1])
                        BY <1>1, <6>1
                    <6> QED BY <1>0, <3>3, <3>5, <6>1, <6>2 DEF StepUp
                <5> QED BY <5>1, <5>2
            <4>2. next.list = OuterList
                BY <3>5
            <4> HIDE DEF shorter, next
            <4>3. Append(shorter, next) # <<>> /\ Append(shorter, next)[1] = next
                BY <3>4, <4>1
            <4> QED BY <3>2, <4>2, <4>3 DEF shorter, next
        <3>6. CASE above # OuterList
            <4>1. above[1] \in 0 .. MaxTaskId /\ above = ChildList(above[1])
                BY <3>3, <3>6, KeyOfChild
            <4>2. t > above[1]
                BY <3>2, <3>3, <4>1 DEF WithIn, ChildrenCameLater
            <4>3. above[1] < n - 1
                BY <1>0, <2>3, <4>1, <4>2
            <4>4. shorter # <<>> /\ shorter[1].list = OuterList
                BY <1>3, <3>3, <4>1, <4>3
            <4> HIDE DEF shorter, next
            <4>5. Append(shorter, next) # <<>> /\ Append(shorter, next)[1] = shorter[1]
                BY <3>4, <4>4
            <4> QED BY <3>2, <4>4, <4>5 DEF shorter, next
        <3> QED BY <3>5, <3>6
    <2> QED BY <2>2, <2>3
<1>4. Right(MaxTaskId + 1)
    <2> HIDE DEF Right
    <2>1. ASSUME S # {} PROVE FALSE
        <3>0. S \in SUBSET Nat
            BY <1>0
        <3>1. PICK n \in S : \A y \in S : n <= y
            BY <2>1, <3>0, LeastNumber
        <3>2. CASE n = 0
            BY <1>2, <3>1, <3>2
        <3>3. CASE n # 0
            <4>1. n \in 1 .. (MaxTaskId + 1) /\ n - 1 \in 0 .. (MaxTaskId + 1) /\ n - 1 \notin S
                BY <1>0, <3>0, <3>1, <3>3
            <4> QED BY <1>3, <3>1, <4>1
        <3> QED BY <3>2, <3>3
    <2>2. MaxTaskId + 1 \in 0 .. (MaxTaskId + 1)
        BY <1>0
    <2> QED BY <2>1, <2>2
<1> QED
    <2> SUFFICES ASSUME NEW l \in DOMAIN lists
                 PROVE  /\ up[MaxTaskId + 1][l] \in Seq(PlaceAbove)
                        /\ l # OuterList => up[MaxTaskId + 1][l] # <<>> /\ up[MaxTaskId + 1][l][1].list = OuterList
        BY <1>1
    <2>1. l \in ListKeys
        BY DEF PlannedLists
    <2>2. l # OuterList => l[1] \in 0 .. MaxTaskId /\ l = ChildList(l[1]) /\ l[1] < MaxTaskId + 1
        BY <1>0, <2>1, KeyOfChild
    <2> QED BY <1>4, <2>1, <2>2

-----------------------------------------------------------------------------
(* What lists, runs, contexts and questions have to do with one another.   *)
TaskIn(lists, t) ==
    LET l == CHOOSE l \in WithIn(lists, t) : TRUE
    IN  lists[l][CHOOSE i \in DOMAIN lists[l] : lists[l][i].id = t]
OpenIn(runs) == {r \in DOMAIN runs : runs[r].status \in {"running", "awaiting_decision"}}
DispatchIn(cyc, l) == IF l = OuterList THEN cyc.outer ELSE cyc.inner
MostIn(cyc, l) == IF DispatchIn(cyc, l).strategy = "serial" THEN 1 ELSE DispatchIn(cyc, l).max

\* RunsKeepTheirPlace, of one run.
PlaceKept(lists, run) ==
    /\ run.list \in DOMAIN lists /\ \E i \in DOMAIN lists[run.list] : lists[run.list][i].id = run.task
    /\ run.ancestry = AncestryIn(lists, run.list)
    /\ run.list # OuterList => run.ancestry # <<>> /\ run.ancestry[1].list = OuterList
PlacesKept(lists, runs) == \A r \in OpenIn(runs) : PlaceKept(lists, runs[r])

\* A task has one run that is open, and is pending meanwhile only by the controller's writing.
OneRunPerTask(lists, runs, byHand) ==
    /\ \A r, s \in OpenIn(runs) : runs[r].task = runs[s].task => r = s
    /\ \A r \in OpenIn(runs), l \in DOMAIN lists : \A i \in DOMAIN lists[l] :
         lists[l][i].id = runs[r].task /\ lists[l][i].status = "pending" => lists[l][i].id \in byHand

\* OpenRunsAreApart: so many at once, and on scopes apart.
NotTooMany(lists, runs, cyc) ==
    \A l \in DOMAIN lists : Cardinality({r \in OpenIn(runs) : runs[r].list = l}) <= MostIn(cyc, l)
ScopesApart(lists, runs, cyc) ==
    \A r, s \in OpenIn(runs) : r < s /\ DispatchIn(cyc, runs[s].list).strategy # "serial" =>
        ~ scopesIntersecting(TaskIn(lists, runs[r].task).scope, TaskIn(lists, runs[s].task).scope)

\* OverlapKeepsOrder
OrderKept(lists, runs, cyc, byHand) ==
    \A r \in OpenIn(runs) : DispatchIn(cyc, runs[r].list).strategy = "serial_with_overlap" =>
        \A i, j \in DOMAIN lists[runs[r].list] :
            i < j /\ lists[runs[r].list][j].id = runs[r].task /\ lists[runs[r].list][i].status = "pending"
            => lists[runs[r].list][i].id \in byHand

RunsFit(lists, runs, cyc, byHand) ==
    /\ runs \in Seq(LoopRun) /\ PlacesKept(lists, runs) /\ OneRunPerTask(lists, runs, byHand)
    /\ NotTooMany(lists, runs, cyc) /\ ScopesApart(lists, runs, cyc) /\ OrderKept(lists, runs, cyc, byHand)

\* A context is that of an open run and names its task; a call has one, and is of a run that
\* waits for nothing.
ContextsFit(runs, contexts, calls) ==
    /\ DOMAIN contexts \subseteq OpenIn(runs)
    /\ \A r \in DOMAIN contexts : contexts[r] = [task |-> runs[r].task, status |-> contexts[r].status]
    /\ calls \subseteq DOMAIN contexts
    /\ \A r \in calls : runs[r].status = "running"

\* A question is about the run that waits for it, and a run that waits has its question.
QuestionsFit(runs, contexts, questions, byHand) ==
    /\ \A d \in questions : DOMAIN d = {"task", "run"} /\ d = [task |-> d.task, run |-> d.run]
    /\ \A d \in questions : d.task \notin byHand =>
         d.run \in DOMAIN runs /\ runs[d.run].status = "awaiting_decision" /\ runs[d.run].task = d.task
    /\ \A r \in DOMAIN runs : runs[r].status = "awaiting_decision" /\ runs[r].task \notin byHand =>
         /\ [task |-> runs[r].task, run |-> r] \in questions
         /\ r \in DOMAIN contexts /\ contexts[r].status = "awaiting_decision"

CycleInv ==
    /\ cycle \in Cycles
    /\ ListsFit(taskLists)
    /\ RunsFit(taskLists, taskRuns, cycle, written)
    /\ ContextsFit(taskRuns, taskContexts, taskCalls)
    /\ QuestionsFit(taskRuns, taskContexts, retryQuestions, written)

\* Lists whose tasks stay, whatever their status.
SameTasks(lists, others) ==
    /\ DOMAIN others = DOMAIN lists
    /\ \A l \in DOMAIN lists :
         /\ others[l] \in Seq(PlannedTask) /\ DOMAIN others[l] = DOMAIN lists[l]
         /\ \A i \in DOMAIN lists[l] :
              others[l][i].id = lists[l][i].id /\ others[l][i].scope = lists[l][i].scope
NobodyElsePending(lists, others, byHand) ==
    \A l \in DOMAIN lists : \A i \in DOMAIN lists[l] :
        others[l][i].status = "pending" => lists[l][i].status = "pending" \/ lists[l][i].id \in byHand
\* Runs that move on or end.
RunsGoOn(runs, further) ==
    /\ further \in Seq(LoopRun) /\ DOMAIN further = DOMAIN runs
    /\ \A r \in DOMAIN runs : /\ further[r].task = runs[r].task /\ further[r].list = runs[r].list
                              /\ further[r].ancestry = runs[r].ancestry
    /\ OpenIn(further) \subseteq OpenIn(runs)

\* A task is found where it is, as no id is there twice.
LEMMA TaskIsThere ==
    ASSUME NEW lists, EachIdOnce(lists), NEW l \in DOMAIN lists, NEW i \in DOMAIN lists[l]
    PROVE  WithIn(lists, lists[l][i].id) = {l} /\ TaskIn(lists, lists[l][i].id) = lists[l][i]
<1> DEFINE t == lists[l][i].id
<1>1. \A k \in DOMAIN lists : \A j \in DOMAIN lists[k] : lists[k][j].id = t => k = l /\ j = i
    BY DEF EachIdOnce
<1>2. WithIn(lists, t) = {l}
    BY <1>1 DEF WithIn
<1>3. (CHOOSE k \in WithIn(lists, t) : TRUE) = l
    BY <1>2
<1>4. (CHOOSE j \in DOMAIN lists[l] : lists[l][j].id = t) = i
    BY <1>1
<1> QED
    BY <1>2, <1>3, <1>4 DEF TaskIn

\* What hangs on ids and scopes alone does not change with a status.
LEMMA SameTasksFit ==
    ASSUME NEW lists, NEW others, ListsFit(lists), SameTasks(lists, others)
    PROVE  /\ ListsFit(others)
           /\ \A l \in DOMAIN lists : AncestryIn(others, l) = AncestryIn(lists, l)
           /\ \A t : WithIn(lists, t) # {} => TaskIn(others, t).scope = TaskIn(lists, t).scope
<1>1. \A t : WithIn(others, t) = WithIn(lists, t)
    BY DEF WithIn, SameTasks
<1>2. PlannedLists(others) /\ EachIdOnce(others)
    <2>1. PlannedLists(others)
        BY DEF ListsFit, PlannedLists, SameTasks
    <2>2. EachIdOnce(others)
        BY DEF ListsFit, EachIdOnce, SameTasks
    <2> QED BY <2>1, <2>2
<1>3. ChildrenCameLater(others)
    BY <1>1 DEF ListsFit, ChildrenCameLater, SameTasks
<1>4. \A l \in DOMAIN lists : AncestryIn(others, l) = AncestryIn(lists, l)
    <2> DEFINE K == DOMAIN lists
    <2>1. K \in SUBSET ListKeys
        BY DEF ListsFit, PlannedLists
    <2>2. \A l \in K : l # OuterList => WithIn(others, l[1]) = WithIn(lists, l[1]) /\ WithIn(lists, l[1]) \subseteq K
        BY <1>1 DEF WithIn
    <2> HIDE DEF K
    <2>3. \A l \in K : AncestryIn(others, l) = AncestryIn(lists, l)
        BY <2>1, <2>2, SameAbove
    <2> QED BY <2>3 DEF K
<1>5. ASSUME NEW t, WithIn(lists, t) # {} PROVE TaskIn(others, t).scope = TaskIn(lists, t).scope
    <2>1. PICK l \in DOMAIN lists : \E i \in DOMAIN lists[l] : lists[l][i].id = t
        BY <1>5 DEF WithIn
    <2>2. PICK i \in DOMAIN lists[l] : lists[l][i].id = t
        BY <2>1
    <2>3. l \in DOMAIN others /\ i \in DOMAIN others[l] /\ others[l][i].id = t /\ others[l][i].scope = lists[l][i].scope
        BY <2>2 DEF SameTasks
    <2>4. TaskIn(lists, t) = lists[l][i]
        BY <2>2, TaskIsThere DEF ListsFit
    <2>5. TaskIn(others, t) = others[l][i]
        BY <1>2, <2>3, TaskIsThere
    <2> QED BY <2>3, <2>4, <2>5
<1> QED
    BY <1>2, <1>3, <1>4, <1>5 DEF ListsFit

\* Open runs can be counted.
LEMMA OpenIsFinite ==
    ASSUME NEW runs \in Seq(LoopRun), NEW S \in SUBSET OpenIn(runs)
    PROVE  IsFiniteSet(S) /\ Cardinality(S) \in Nat
<1>1. IsFiniteSet(1 .. Len(runs))
    BY FS_Interval
<1>2. S \subseteq 1 .. Len(runs)
    BY DEF OpenIn
<1> QED
    BY <1>1, <1>2, FS_Subset, FS_CardinalityType

\* Runs still fit the lists when neither changed but in status.
LEMMA RunsGoOnFit ==
    ASSUME NEW lists, NEW others, NEW runs, NEW further, NEW cyc, NEW byHand, NEW byHandNow,
           ListsFit(lists), SameTasks(lists, others), RunsFit(lists, runs, cyc, byHand),
           RunsGoOn(runs, further), byHand \subseteq byHandNow,
           NobodyElsePending(lists, others, byHandNow), cyc \in Cycles
    PROVE  RunsFit(others, further, cyc, byHandNow)
<1>0. \A r \in OpenIn(further) : /\ r \in OpenIn(runs) /\ r \in DOMAIN runs
                                 /\ further[r].task = runs[r].task /\ further[r].list = runs[r].list
                                 /\ further[r].ancestry = runs[r].ancestry
    BY DEF RunsGoOn, OpenIn
<1>1. runs \in Seq(LoopRun) /\ further \in Seq(LoopRun)
    BY DEF RunsGoOn, RunsFit
<1>2. PlacesKept(others, further)
    <2> SUFFICES ASSUME NEW r \in OpenIn(further) PROVE PlaceKept(others, further[r])
        BY DEF PlacesKept
    <2>1. PlaceKept(lists, runs[r])
        BY <1>0 DEF RunsFit, PlacesKept
    <2>2. AncestryIn(others, runs[r].list) = AncestryIn(lists, runs[r].list)
        BY <2>1, SameTasksFit DEF PlaceKept
    <2>3. further[r].list = runs[r].list /\ further[r].task = runs[r].task /\ further[r].ancestry = runs[r].ancestry
        BY <1>0
    <2>4. /\ runs[r].list \in DOMAIN others
          /\ \E i \in DOMAIN others[runs[r].list] : others[runs[r].list][i].id = runs[r].task
        BY <2>1 DEF PlaceKept, SameTasks
    <2> QED BY <2>1, <2>2, <2>3, <2>4 DEF PlaceKept
<1>3. OneRunPerTask(others, further, byHandNow)
    <2>1. ASSUME NEW r \in OpenIn(further), NEW s \in OpenIn(further), further[r].task = further[s].task
          PROVE  r = s
        BY <1>0, <2>1 DEF RunsFit, OneRunPerTask
    <2>2. ASSUME NEW r \in OpenIn(further), NEW l \in DOMAIN others, NEW i \in DOMAIN others[l],
                 others[l][i].id = further[r].task, others[l][i].status = "pending"
          PROVE  others[l][i].id \in byHandNow
        <3>1. l \in DOMAIN lists /\ i \in DOMAIN lists[l] /\ lists[l][i].id = others[l][i].id
            BY DEF SameTasks
        <3>2. lists[l][i].status = "pending" \/ lists[l][i].id \in byHandNow
            BY <2>2, <3>1 DEF NobodyElsePending
        <3>3. lists[l][i].status = "pending" => lists[l][i].id \in byHand
            BY <1>0, <2>2, <3>1 DEF RunsFit, OneRunPerTask
        <3> QED BY <3>1, <3>2, <3>3
    <2> QED BY <2>1, <2>2 DEF OneRunPerTask
<1>4. NotTooMany(others, further, cyc)
    <2> SUFFICES ASSUME NEW l \in DOMAIN others
                 PROVE  Cardinality({r \in OpenIn(further) : further[r].list = l}) <= MostIn(cyc, l)
        BY DEF NotTooMany
    <2> DEFINE A == {r \in OpenIn(further) : further[r].list = l}
               B == {r \in OpenIn(runs) : runs[r].list = l}
    <2>1. A \subseteq B
        BY <1>0
    <2>2. IsFiniteSet(B) /\ Cardinality(B) \in Nat /\ IsFiniteSet(A) /\ Cardinality(A) \in Nat
        BY <1>1, OpenIsFinite
    <2>3. Cardinality(A) <= Cardinality(B)
        BY <2>1, <2>2, FS_Subset
    <2>4. Cardinality(B) <= MostIn(cyc, l)
        BY DEF SameTasks, RunsFit, NotTooMany
    <2>5. MostIn(cyc, l) \in Nat
        BY CyclesAssumption DEF MostIn, DispatchIn
    <2> HIDE DEF A, B
    <2>6. Cardinality(A) <= MostIn(cyc, l)
        BY <2>2, <2>3, <2>4, <2>5
    <2> QED BY <2>6 DEF A
<1>5. ScopesApart(others, further, cyc)
    <2> SUFFICES ASSUME NEW r \in OpenIn(further), NEW s \in OpenIn(further), r < s,
                        DispatchIn(cyc, further[s].list).strategy # "serial"
                 PROVE  ~ scopesIntersecting(TaskIn(others, further[r].task).scope, TaskIn(others, further[s].task).scope)
        BY DEF ScopesApart
    <2>1. ~ scopesIntersecting(TaskIn(lists, runs[r].task).scope, TaskIn(lists, runs[s].task).scope)
        BY <1>0 DEF RunsFit, ScopesApart
    <2>2. \A q \in OpenIn(further) : WithIn(lists, runs[q].task) # {}
        BY <1>0 DEF RunsFit, PlacesKept, PlaceKept, WithIn
    <2>3. \A q \in OpenIn(further) : TaskIn(others, further[q].task).scope = TaskIn(lists, runs[q].task).scope
        BY <1>0, <2>2, SameTasksFit
    <2> QED BY <2>1, <2>3
<1>6. OrderKept(others, further, cyc, byHandNow)
    <2> SUFFICES ASSUME NEW r \in OpenIn(further), DispatchIn(cyc, further[r].list).strategy = "serial_with_overlap",
                        NEW i \in DOMAIN others[further[r].list], NEW j \in DOMAIN others[further[r].list], i < j,
                        others[further[r].list][j].id = further[r].task,
                        others[further[r].list][i].status = "pending"
                 PROVE  others[further[r].list][i].id \in byHandNow
        BY DEF OrderKept
    <2> DEFINE l == runs[r].list
    <2>1. r \in OpenIn(runs) /\ further[r].list = l /\ further[r].task = runs[r].task /\ l \in DOMAIN lists
        BY <1>0 DEF RunsFit, PlacesKept, PlaceKept
    <2>2. i \in DOMAIN lists[l] /\ j \in DOMAIN lists[l] /\ lists[l][j].id = runs[r].task /\ lists[l][i].id = others[l][i].id
        BY <2>1 DEF SameTasks
    <2>3. lists[l][i].status = "pending" \/ lists[l][i].id \in byHandNow
        BY <2>1, <2>2 DEF NobodyElsePending
    <2>4. lists[l][i].status = "pending" => lists[l][i].id \in byHand
        BY <2>1, <2>2 DEF RunsFit, OrderKept
    <2> QED BY <2>1, <2>2, <2>3, <2>4
<1> QED
    BY <1>1, <1>2, <1>3, <1>4, <1>5, <1>6 DEF RunsFit

\* A run that is opened fits, if the list, the scopes and the order admit it.
LEMMA RunAddedFits ==
    ASSUME NEW lists, NEW runs, NEW cyc, NEW byHand,
           ListsFit(lists), RunsFit(lists, runs, cyc, byHand), cyc \in Cycles,
           NEW run \in LoopRun, NEW i \in DOMAIN lists[run.list],
           run.list \in DOMAIN lists, run.task = lists[run.list][i].id, lists[run.list][i].status # "pending",
           run.ancestry = AncestryIn(lists, run.list), run.status = "running",
           \A r \in OpenIn(runs) : runs[r].task # run.task,
           Cardinality({r \in OpenIn(runs) : runs[r].list = run.list}) < MostIn(cyc, run.list),
           DispatchIn(cyc, run.list).strategy # "serial" =>
             \A r \in OpenIn(runs) : ~ scopesIntersecting(TaskIn(lists, runs[r].task).scope, lists[run.list][i].scope),
           DispatchIn(cyc, run.list).strategy = "serial_with_overlap" =>
             \A j \in DOMAIN lists[run.list] :
                j < i /\ lists[run.list][j].status = "pending" => lists[run.list][j].id \in byHand
    PROVE  /\ RunsFit(lists, Append(runs, run), cyc, byHand)
           /\ OpenIn(Append(runs, run)) = OpenIn(runs) \union {Len(runs) + 1}
<1> DEFINE m == Len(runs) + 1
           more == Append(runs, run)
<1>0. runs \in Seq(LoopRun) /\ more \in Seq(LoopRun)
    BY DEF RunsFit
<1>1. m \in Nat /\ DOMAIN runs = 1 .. (m - 1) /\ DOMAIN more = DOMAIN runs \union {m} /\ m \notin DOMAIN runs
    BY <1>0
<1>2. more[m] = run /\ \A r \in DOMAIN runs : more[r] = runs[r]
    BY <1>0
<1> HIDE DEF more, m
<1>3. OpenIn(more) = OpenIn(runs) \union {m}
    BY <1>1, <1>2 DEF OpenIn
<1>4. \A r \in OpenIn(more) : r = m \/ (r \in OpenIn(runs) /\ r \in DOMAIN runs /\ more[r] = runs[r] /\ r \in Nat /\ r < m)
    <2>1. \A r \in DOMAIN runs : r \in Nat /\ r < m
        BY <1>1
    <2>2. OpenIn(runs) \subseteq DOMAIN runs
        BY DEF OpenIn
    <2> QED BY <1>2, <1>3, <2>1, <2>2
<1>11. \A r \in OpenIn(runs) : more[r] = runs[r] /\ r \in OpenIn(more) /\ r # m
    BY <1>1, <1>2, <1>3 DEF OpenIn
<1>5. PlacesKept(lists, more)
    <2>1. PlaceKept(lists, run)
        BY TheRootIsOuter DEF PlaceKept, ListsFit
    <2> QED BY <1>2, <1>4, <2>1 DEF RunsFit, PlacesKept
<1>6. OneRunPerTask(lists, more, byHand)
    <2>1. ASSUME NEW r \in OpenIn(more), NEW s \in OpenIn(more), more[r].task = more[s].task PROVE r = s
        BY <1>2, <1>4, <2>1 DEF RunsFit, OneRunPerTask
    <2>2. ASSUME NEW r \in OpenIn(more), NEW l \in DOMAIN lists, NEW j \in DOMAIN lists[l],
                 lists[l][j].id = more[r].task, lists[l][j].status = "pending"
          PROVE  lists[l][j].id \in byHand
        <3>1. CASE r = m
            BY <1>2, <2>2, <3>1 DEF ListsFit, EachIdOnce
        <3>2. CASE r # m
            BY <1>4, <2>2, <3>2 DEF RunsFit, OneRunPerTask
        <3> QED BY <3>1, <3>2
    <2> QED BY <2>1, <2>2 DEF OneRunPerTask
<1>7. NotTooMany(lists, more, cyc)
    <2> SUFFICES ASSUME NEW l \in DOMAIN lists
                 PROVE  Cardinality({r \in OpenIn(more) : more[r].list = l}) <= MostIn(cyc, l)
        BY DEF NotTooMany
    <2> DEFINE A == {r \in OpenIn(more) : more[r].list = l}
               B == {r \in OpenIn(runs) : runs[r].list = l}
    <2>1. IsFiniteSet(B) /\ Cardinality(B) \in Nat
        BY <1>0, OpenIsFinite
    <2>2. Cardinality(B) <= MostIn(cyc, l)
        BY DEF RunsFit, NotTooMany
    <2>3. MostIn(cyc, l) \in Nat
        BY CyclesAssumption DEF MostIn, DispatchIn
    <2>4. CASE l = run.list
        <3>1. A = B \union {m} /\ m \notin B
            BY <1>2, <1>3, <1>4, <1>11, <2>4
        <3>2. Cardinality(A) = Cardinality(B) + 1
            <4> HIDE DEF A, B
            <4> QED BY <2>1, <3>1, FS_AddElement
        <3>3. Cardinality(B) < MostIn(cyc, l)
            BY <2>4
        <3> HIDE DEF A, B
        <3>4. Cardinality(A) <= MostIn(cyc, l)
            BY <2>1, <2>3, <3>2, <3>3
        <3> QED BY <3>4 DEF A
    <2>5. CASE l # run.list
        <3>1. A = B
            BY <1>2, <1>4, <1>11, <2>5
        <3> QED BY <2>2, <3>1
    <2> QED BY <2>4, <2>5
<1>8. ScopesApart(lists, more, cyc)
    <2> SUFFICES ASSUME NEW r \in OpenIn(more), NEW s \in OpenIn(more), r < s,
                        DispatchIn(cyc, more[s].list).strategy # "serial"
                 PROVE  ~ scopesIntersecting(TaskIn(lists, more[r].task).scope, TaskIn(lists, more[s].task).scope)
        BY DEF ScopesApart
    <2>1. r # m
        BY <1>1, <1>4
    <2>2. CASE s = m
        <3>1. TaskIn(lists, run.task) = lists[run.list][i]
            BY TaskIsThere DEF ListsFit
        <3> QED BY <1>2, <1>4, <2>1, <2>2, <3>1
    <2>3. CASE s # m
        <3>1. r \in OpenIn(runs) /\ s \in OpenIn(runs) /\ more[r] = runs[r] /\ more[s] = runs[s]
            BY <1>4, <2>1, <2>3
        <3>2. ScopesApart(lists, runs, cyc)
            BY DEF RunsFit
        <3> QED BY <3>1, <3>2 DEF ScopesApart
    <2> QED BY <2>2, <2>3
<1>9. OrderKept(lists, more, cyc, byHand)
    <2> SUFFICES ASSUME NEW r \in OpenIn(more), DispatchIn(cyc, more[r].list).strategy = "serial_with_overlap",
                        NEW k \in DOMAIN lists[more[r].list], NEW j \in DOMAIN lists[more[r].list], k < j,
                        lists[more[r].list][j].id = more[r].task,
                        lists[more[r].list][k].status = "pending"
                 PROVE  lists[more[r].list][k].id \in byHand
        BY DEF OrderKept
    <2>1. CASE r = m
        <3>1. j = i
            BY <1>2, <2>1 DEF ListsFit, EachIdOnce
        <3> QED BY <1>2, <2>1, <3>1
    <2>2. CASE r # m
        <3>1. r \in OpenIn(runs) /\ more[r] = runs[r]
            BY <1>4, <2>2
        <3>2. OrderKept(lists, runs, cyc, byHand)
            BY DEF RunsFit
        <3> QED BY <3>1, <3>2 DEF OrderKept
    <2> QED BY <2>1, <2>2
<1>10. RunsFit(lists, more, cyc, byHand)
    BY <1>0, <1>5, <1>6, <1>7, <1>8, <1>9 DEF RunsFit
<1> QED
    BY <1>3, <1>10 DEF more, m

\* Writing a status leaves every task but that of the id as it was, and that one but for its status.
LEMMA WithStatusKeeps ==
    ASSUME ListsFit(taskLists), NEW t, NEW status \in anyStatus
    PROVE  /\ SameTasks(taskLists, WithStatus(t, status))
           /\ \A l \in DOMAIN taskLists : \A i \in DOMAIN taskLists[l] :
                WithStatus(t, status)[l][i].status
                  = IF taskLists[l][i].id = t THEN status ELSE taskLists[l][i].status
<1> DEFINE w == WithStatus(t, status)
<1>0. /\ DOMAIN w = DOMAIN taskLists
      /\ \A l \in DOMAIN taskLists :
            w[l] = [i \in DOMAIN taskLists[l] |->
                      IF taskLists[l][i].id = t THEN [taskLists[l][i] EXCEPT !.status = status] ELSE taskLists[l][i]]
    BY DEF WithStatus
<1> HIDE DEF w
<1>1. ASSUME NEW l \in DOMAIN taskLists
      PROVE  /\ w[l] \in Seq(PlannedTask) /\ DOMAIN w[l] = DOMAIN taskLists[l]
             /\ \A i \in DOMAIN taskLists[l] :
                  /\ w[l][i].id = taskLists[l][i].id /\ w[l][i].scope = taskLists[l][i].scope
                  /\ w[l][i].status = IF taskLists[l][i].id = t THEN status ELSE taskLists[l][i].status
    <2>1. taskLists[l] \in Seq(PlannedTask)
        BY DEF ListsFit, PlannedLists
    <2>2. DOMAIN w[l] = DOMAIN taskLists[l] /\ DOMAIN taskLists[l] = 1 .. Len(taskLists[l]) /\ Len(taskLists[l]) \in Nat
        BY <1>0, <2>1
    <2>3. ASSUME NEW i \in DOMAIN taskLists[l]
          PROVE  /\ w[l][i] \in PlannedTask
                 /\ w[l][i].id = taskLists[l][i].id /\ w[l][i].scope = taskLists[l][i].scope
                 /\ w[l][i].status = IF taskLists[l][i].id = t THEN status ELSE taskLists[l][i].status
        <3>1. taskLists[l][i] \in PlannedTask
            BY <2>1
        <3>2. w[l][i] = IF taskLists[l][i].id = t THEN [taskLists[l][i] EXCEPT !.status = status] ELSE taskLists[l][i]
            BY <1>0
        <3> QED BY <3>1, <3>2 DEF PlannedTask
    <2>4. w[l] = [i \in 1 .. Len(taskLists[l]) |-> w[l][i]]
        BY <1>0, <2>2
    <2>5. w[l] \in Seq(PlannedTask)
        <3>1. \A i \in 1 .. Len(taskLists[l]) : w[l][i] \in PlannedTask
            BY <2>2, <2>3
        <3> QED BY <2>2, <2>4, <3>1
    <2> QED BY <2>2, <2>3, <2>5
<1>2. SameTasks(taskLists, w)
    BY <1>0, <1>1 DEF SameTasks
<1> QED
    BY <1>1, <1>2 DEF w

\* A list that is set fits, and the runs still fit the lists there are.
LEMMA ListSetFits ==
    ASSUME NEW lists, NEW runs, NEW cyc, NEW byHand,
           ListsFit(lists), RunsFit(lists, runs, cyc, byHand), cyc \in Cycles,
           NEW l \in ListKeys, NEW tasks \in Seq(PlannedTask),
           \A i, j \in DOMAIN tasks : tasks[i].id = tasks[j].id => i = j,
           \A i \in DOMAIN tasks, k \in DOMAIN lists : \A j \in DOMAIN lists[k] : lists[k][j].id < tasks[i].id,
           l = OuterList \/ (\E k \in DOMAIN lists : \E j \in DOMAIN lists[k] : l = ChildList(lists[k][j].id)),
           \A r \in OpenIn(runs) : runs[r].list # l,
           l \in DOMAIN lists => \A j \in DOMAIN lists[l] : ChildList(lists[l][j].id) \notin DOMAIN lists
    PROVE  ListsFit(SetAt(lists, l, tasks)) /\ RunsFit(SetAt(lists, l, tasks), runs, cyc, byHand)
<1> DEFINE others == SetAt(lists, l, tasks)
           K == DOMAIN lists \ {l}
<1>1. /\ DOMAIN others = DOMAIN lists \union {l} /\ others[l] = tasks
      /\ \A k \in K : others[k] = lists[k] /\ k \in DOMAIN others /\ k \in DOMAIN lists
      /\ \A k \in DOMAIN others : k = l \/ k \in K
    BY DEF SetAt
<1>2. /\ K \in SUBSET ListKeys /\ DOMAIN lists \subseteq ListKeys
      /\ \A k \in DOMAIN lists : \A j \in DOMAIN lists[k] : lists[k][j].id \in 0 .. MaxTaskId
    <2>1. ASSUME NEW k \in DOMAIN lists, NEW j \in DOMAIN lists[k] PROVE lists[k][j].id \in 0 .. MaxTaskId
        <3>1. lists[k][j] \in PlannedTask
            BY DEF ListsFit, PlannedLists
        <3> QED BY <3>1 DEF PlannedTask
    <2> QED BY <2>1 DEF ListsFit, PlannedLists
<1>3. PlannedLists(others)
    BY <1>1, <1>2 DEF PlannedLists, ListsFit
<1>17. \A i \in DOMAIN tasks : tasks[i].id \in 0 .. MaxTaskId
    <2>1. \A i \in DOMAIN tasks : tasks[i] \in PlannedTask
        OBVIOUS
    <2> QED BY <2>1 DEF PlannedTask
<1>4. \A i \in DOMAIN tasks, k \in DOMAIN lists : \A j \in DOMAIN lists[k] : lists[k][j].id # tasks[i].id
    <2> QED BY <1>2, <1>17, TaskPlansAssumption
<1> HIDE DEF others, K
<1>5. EachIdOnce(others)
    <2> SUFFICES ASSUME NEW k \in DOMAIN others, NEW m \in DOMAIN others,
                        NEW i \in DOMAIN others[k], NEW j \in DOMAIN others[m],
                        others[k][i].id = others[m][j].id
                 PROVE  k = m /\ i = j
        BY DEF EachIdOnce
    <2>1. CASE k = l /\ m = l
        BY <1>1, <2>1
    <2>2. CASE k = l /\ m # l
        BY <1>1, <1>4, <2>2
    <2>3. CASE k # l /\ m = l
        BY <1>1, <1>4, <2>3
    <2>4. CASE k # l /\ m # l
        BY <1>1, <2>4 DEF ListsFit, EachIdOnce
    <2> QED BY <2>1, <2>2, <2>3, <2>4
<1>6. \A t \in 0 .. MaxTaskId : ChildList(t) \in DOMAIN lists =>
         WithIn(others, t) = WithIn(lists, t) /\ WithIn(lists, t) \subseteq K
    <2> SUFFICES ASSUME NEW t \in 0 .. MaxTaskId, ChildList(t) \in DOMAIN lists
                 PROVE  WithIn(others, t) = WithIn(lists, t) /\ WithIn(lists, t) \subseteq K
        OBVIOUS
    <2>1. WithIn(lists, t) # {}
        BY DEF ListsFit, ChildrenCameLater
    <2>2. l \in DOMAIN lists => \A j \in DOMAIN lists[l] : lists[l][j].id # t
        OBVIOUS
    <2>3. WithIn(lists, t) \subseteq K
        BY <2>2 DEF WithIn, K
    <2>4. \A i \in DOMAIN tasks : tasks[i].id # t
        BY <1>4, <2>1 DEF WithIn
    <2>5. WithIn(others, t) = WithIn(lists, t)
        BY <1>1, <2>3, <2>4 DEF WithIn
    <2> QED BY <2>3, <2>5
<1>7. ChildrenCameLater(others)
    <2> SUFFICES ASSUME NEW t \in 0 .. MaxTaskId, ChildList(t) \in DOMAIN others
                 PROVE  /\ WithIn(others, t) # {}
                        /\ \A i \in DOMAIN others[ChildList(t)] : others[ChildList(t)][i].id > t
        BY DEF ChildrenCameLater
    <2>1. CASE ChildList(t) \in K
        <3>1. ChildList(t) \in DOMAIN lists /\ others[ChildList(t)] = lists[ChildList(t)]
            BY <1>1, <2>1
        <3> QED BY <1>6, <3>1 DEF ListsFit, ChildrenCameLater
    <2>2. CASE ChildList(t) = l
        <3>1. l # OuterList
            BY <2>2, KeyOfChild
        <3>2. PICK k \in DOMAIN lists : \E j \in DOMAIN lists[k] : l = ChildList(lists[k][j].id)
            BY <3>1
        <3>3. PICK j \in DOMAIN lists[k] : l = ChildList(lists[k][j].id)
            BY <3>2
        <3>4. lists[k][j].id = t
            <4>1. lists[k][j].id \in 0 .. MaxTaskId
                BY <1>2
            <4> QED BY <2>2, <3>3, <4>1, KeyOfChild
        <3>5. k # l
            <4> SUFFICES ASSUME k = l PROVE FALSE
                OBVIOUS
            <4>1. lists[ChildList(t)][j].id > t
                BY <2>2 DEF ListsFit, ChildrenCameLater
            <4> QED BY <2>2, <3>4, <4>1
        <3>6. k \in K
            BY <3>5 DEF K
        <3>7. WithIn(others, t) # {}
            BY <1>1, <3>4, <3>6 DEF WithIn
        <3>8. \A i \in DOMAIN tasks : tasks[i].id > t
            <4> SUFFICES ASSUME NEW i \in DOMAIN tasks PROVE tasks[i].id > t
                OBVIOUS
            <4>1. tasks[i].id \in 0 .. MaxTaskId
                BY <1>17
            <4>2. lists[k][j].id < tasks[i].id
                OBVIOUS
            <4> QED BY <3>4, <4>1, <4>2, TaskPlansAssumption
        <3> QED BY <1>1, <2>2, <3>7, <3>8
    <2> QED BY <1>1, <2>1, <2>2
<1>8. ListsFit(others)
    BY <1>3, <1>5, <1>7 DEF ListsFit
<1>9. \A k \in K : AncestryIn(others, k) = AncestryIn(lists, k)
    <2>1. ASSUME NEW k \in K, k # OuterList
          PROVE  WithIn(others, k[1]) = WithIn(lists, k[1]) /\ WithIn(lists, k[1]) \subseteq K
        <3>1. k[1] \in 0 .. MaxTaskId /\ k = ChildList(k[1]) /\ k \in DOMAIN lists
            BY <1>1, <1>2, <2>1, KeyOfChild
        <3> QED BY <1>6, <3>1
    <2> QED BY <1>2, <2>1, SameAbove
<1>10. ASSUME NEW r \in OpenIn(runs)
       PROVE  /\ runs[r].list \in K
              /\ others[runs[r].list] = lists[runs[r].list]
              /\ PlaceKept(others, runs[r])
              /\ TaskIn(others, runs[r].task) = TaskIn(lists, runs[r].task)
              /\ \A i \in DOMAIN tasks : tasks[i].id # runs[r].task
    <2>1. PlaceKept(lists, runs[r])
        BY DEF RunsFit, PlacesKept
    <2>2. runs[r].list \in K
        BY <2>1 DEF PlaceKept, K
    <2>3. others[runs[r].list] = lists[runs[r].list] /\ runs[r].list \in DOMAIN others
        BY <1>1, <2>2
    <2>4. AncestryIn(others, runs[r].list) = AncestryIn(lists, runs[r].list)
        BY <1>9, <2>2
    <2>5. PlaceKept(others, runs[r])
        BY <2>1, <2>3, <2>4 DEF PlaceKept
    <2>6. PICK i \in DOMAIN lists[runs[r].list] : lists[runs[r].list][i].id = runs[r].task
        BY <2>1 DEF PlaceKept
    <2>7. TaskIn(lists, runs[r].task) = lists[runs[r].list][i]
        BY <2>1, <2>6, TaskIsThere DEF ListsFit, PlaceKept
    <2>8. TaskIn(others, runs[r].task) = others[runs[r].list][i]
        BY <1>5, <2>3, <2>6, TaskIsThere
    <2> QED BY <1>4, <2>1, <2>2, <2>3, <2>5, <2>6, <2>7, <2>8 DEF PlaceKept
<1>11. runs \in Seq(LoopRun) /\ PlacesKept(others, runs)
    BY <1>10 DEF RunsFit, PlacesKept
<1>12. OneRunPerTask(others, runs, byHand)
    <2>1. ASSUME NEW r \in OpenIn(runs), NEW k \in DOMAIN others, NEW i \in DOMAIN others[k],
                 others[k][i].id = runs[r].task, others[k][i].status = "pending"
          PROVE  others[k][i].id \in byHand
        <3>1. k \in K
            BY <1>1, <1>10, <2>1
        <3>2. k \in DOMAIN lists /\ others[k] = lists[k]
            BY <1>1, <3>1
        <3> QED BY <2>1, <3>2 DEF RunsFit, OneRunPerTask
    <2> QED BY <2>1 DEF RunsFit, OneRunPerTask
<1>13. NotTooMany(others, runs, cyc)
    <2> SUFFICES ASSUME NEW k \in DOMAIN others
                 PROVE  Cardinality({r \in OpenIn(runs) : runs[r].list = k}) <= MostIn(cyc, k)
        BY DEF NotTooMany
    <2>1. CASE k \in K
        BY <1>1, <2>1 DEF RunsFit, NotTooMany
    <2>2. CASE k = l
        <3> DEFINE A == {r \in OpenIn(runs) : runs[r].list = k}
        <3>1. A = {}
            BY <2>2
        <3>2. MostIn(cyc, k) \in Nat
            BY CyclesAssumption DEF MostIn, DispatchIn
        <3> HIDE DEF A
        <3>3. Cardinality(A) = 0
            BY <3>1, FS_EmptySet
        <3>4. Cardinality(A) <= MostIn(cyc, k)
            BY <3>2, <3>3
        <3> QED BY <3>4 DEF A
    <2> QED BY <1>1, <2>1, <2>2
<1>14. ScopesApart(others, runs, cyc)
    BY <1>10 DEF RunsFit, ScopesApart
<1>15. OrderKept(others, runs, cyc, byHand)
    BY <1>10 DEF RunsFit, OrderKept
<1>16. RunsFit(others, runs, cyc, byHand)
    BY <1>11, <1>12, <1>13, <1>14, <1>15 DEF RunsFit
<1> QED
    BY <1>8, <1>16 DEF others

-----------------------------------------------------------------------------
(* Every action keeps the invariant.                                       *)
LEMMA OfTheLists ==
    /\ \A t : ListsWith(t) = WithIn(taskLists, t) /\ TaskNamed(t) = TaskIn(taskLists, t)
    /\ \A l : Ancestry(l) = AncestryIn(taskLists, l) /\ DispatchOf(l) = DispatchIn(cycle, l)
    /\ OpenLoopRuns = OpenIn(taskRuns)
<1>1. \A t : ListsWith(t) = WithIn(taskLists, t)
    BY Zenon DEF ListsWith, WithIn, IdsOf
<1>2. \A t : TaskNamed(t) = TaskIn(taskLists, t)
    BY <1>1, Zenon DEF TaskNamed, TaskIn
<1>3. \A l : DispatchOf(l) = DispatchIn(cycle, l)
    BY Zenon DEF DispatchOf, DispatchIn
<1>4. OpenLoopRuns = OpenIn(taskRuns)
    BY Zenon DEF OpenLoopRuns, OpenIn
<1> QED
    BY <1>1, <1>2, <1>3, <1>4, AncestryIsOfTheLists

\* A session that is created has no lists and no runs.
LEMMA CyclesBegin ==
    ASSUME CycleInit
    PROVE  CycleInv
<1>1. taskLists = <<>> /\ taskRuns = <<>> /\ taskContexts = <<>> /\ taskCalls = {} /\ retryQuestions = {} /\ cycle \in Cycles
    BY DEF CycleInit
<1>2. DOMAIN taskLists = {} /\ DOMAIN taskRuns = {} /\ DOMAIN taskContexts = {}
    BY <1>1
<1>3. ListsFit(taskLists)
    BY <1>2 DEF ListsFit, PlannedLists, EachIdOnce, ChildrenCameLater
<1>4. OpenIn(taskRuns) = {}
    BY <1>2 DEF OpenIn
<1>5. taskRuns \in Seq(LoopRun)
    BY <1>1, EmptySeq
<1>6. RunsFit(taskLists, taskRuns, cycle, written)
    BY <1>2, <1>4, <1>5 DEF RunsFit, PlacesKept, OneRunPerTask, NotTooMany, ScopesApart, OrderKept
<1>7. ContextsFit(taskRuns, taskContexts, taskCalls) /\ QuestionsFit(taskRuns, taskContexts, retryQuestions, written)
    BY <1>1, <1>2 DEF ContextsFit, QuestionsFit
<1> QED
    BY <1>1, <1>3, <1>6, <1>7 DEF CycleInv

\* Ids are numbers, and those to come are larger than any there is.
LEMMA NextIdIsNew ==
    ASSUME ListsFit(taskLists)
    PROVE  NextId \in Nat /\ AllIds \subseteq 0 .. MaxTaskId /\ \A t \in AllIds : t \in Nat /\ t < NextId
<1>1. AllIds \subseteq 0 .. MaxTaskId
    <2>1. ASSUME NEW k \in DOMAIN taskLists, NEW j \in DOMAIN taskLists[k]
          PROVE  taskLists[k][j].id \in 0 .. MaxTaskId
        <3>1. taskLists[k][j] \in PlannedTask
            BY DEF ListsFit, PlannedLists
        <3> QED BY <3>1 DEF PlannedTask
    <2> QED BY <2>1 DEF AllIds, IdsOf
<1>2. CASE AllIds = {}
    BY <1>1, <1>2 DEF NextId
<1>3. CASE AllIds # {}
    <2> DEFINE S == {n \in 0 .. MaxTaskId : \A t \in AllIds : t <= n}
    <2>1. MaxTaskId \in S /\ S \in SUBSET Nat
        BY <1>1, TaskPlansAssumption
    <2>2. PICK n \in S : \A y \in S : n <= y
        BY <2>1, LeastNumber
    <2>3. n \in AllIds
        <3> SUFFICES ASSUME n \notin AllIds PROVE FALSE
            OBVIOUS
        <3>1. \A t \in AllIds : t <= n /\ t # n /\ t \in Nat
            BY <1>1, <2>2
        <3>2. n # 0
            BY <1>3, <3>1
        <3>3. n - 1 \in 0 .. MaxTaskId /\ \A t \in AllIds : t <= n - 1
            BY <2>1, <2>2, <3>1, <3>2
        <3>4. n - 1 \in S
            BY <3>3
        <3> QED BY <2>1, <2>2, <3>4
    <2>4. n \in AllIds /\ \A t \in AllIds : n >= t
        BY <1>1, <2>2, <2>3
    <2>5. Max(AllIds) \in AllIds /\ \A t \in AllIds : Max(AllIds) >= t
        BY <2>4 DEF Max
    <2> DEFINE m == Max(AllIds)
    <2>6. NextId = m + 1 /\ m \in AllIds /\ \A t \in AllIds : m >= t
        BY <1>3, <2>5 DEF NextId
    <2> HIDE DEF m
    <2>7. \A t \in AllIds : t \in Nat
        BY <1>1, TaskPlansAssumption
    <2>8. m + 1 \in Nat /\ \A t \in AllIds : t < m + 1
        BY <2>6, <2>7
    <2> QED BY <1>1, <2>6, <2>7, <2>8
<1> QED
    BY <1>1, <1>2, <1>3

\* workflow-tasks-set: what is asserted before makes the new list fit.
LEMMA SetTaskListKeeps ==
    ASSUME CycleInv, NEW l \in ListKeys, NEW scopes \in TaskPlans, SetTaskList(l, scopes)
    PROVE  CycleInv'
<1> DEFINE tasks == [i \in DOMAIN scopes |-> [id |-> NextId + i - 1, status |-> "pending", scope |-> scopes[i]]]
<1>1. /\ NextId + Len(scopes) <= MaxTaskId + 1
      /\ l = OuterList \/ \E t \in AllIds : l = ChildList(t)
      /\ NotInUse(l) /\ KeepsChildren(l)
      /\ taskLists' = SetAt(taskLists, l, tasks)
      /\ UNCHANGED <<cycle, taskRuns, taskContexts, taskCalls, retryQuestions, written>>
    BY DEF SetTaskList
<1>2. NextId \in Nat /\ AllIds \subseteq 0 .. MaxTaskId /\ \A t \in AllIds : t \in Nat /\ t < NextId
    BY NextIdIsNew DEF CycleInv
<1>3. DOMAIN scopes = 1 .. Len(scopes) /\ Len(scopes) \in Nat
    <2>1. scopes \in Seq({scopes[i] : i \in DOMAIN scopes})
        BY TaskPlansAssumption
    <2> QED BY <2>1
<1>4. ASSUME NEW i \in 1 .. Len(scopes)
      PROVE  /\ tasks[i] \in PlannedTask /\ tasks[i].id = NextId + i - 1
             /\ tasks[i].id >= NextId
    <2>1. tasks[i] = [id |-> NextId + i - 1, status |-> "pending", scope |-> scopes[i]]
        BY <1>3
    <2>2. NextId + i - 1 \in 0 .. MaxTaskId /\ NextId + i - 1 >= NextId
        BY <1>1, <1>2, <1>3, TaskPlansAssumption
    <2>3. scopes[i] \in ScopeOfPlans
        BY <1>3 DEF ScopeOfPlans
    <2>4. "pending" \in anyStatus
        BY DEF anyStatus
    <2> QED BY <2>1, <2>2, <2>3, <2>4 DEF PlannedTask
<1>5. tasks = [i \in 1 .. Len(scopes) |-> tasks[i]] /\ DOMAIN tasks = 1 .. Len(scopes)
    BY <1>3
<1> HIDE DEF tasks
<1>6. tasks \in Seq(PlannedTask)
    BY <1>3, <1>4, <1>5
<1>7. \A i, j \in DOMAIN tasks : tasks[i].id = tasks[j].id => i = j
    BY <1>2, <1>3, <1>4, <1>5
<1>8. \A i \in DOMAIN tasks, k \in DOMAIN taskLists : \A j \in DOMAIN taskLists[k] : taskLists[k][j].id < tasks[i].id
    <2> SUFFICES ASSUME NEW i \in DOMAIN tasks, NEW k \in DOMAIN taskLists, NEW j \in DOMAIN taskLists[k]
                 PROVE  taskLists[k][j].id < tasks[i].id
        OBVIOUS
    <2>1. taskLists[k][j].id \in AllIds
        BY DEF AllIds, IdsOf
    <2>2. taskLists[k][j].id \in Nat /\ taskLists[k][j].id < NextId
        BY <1>2, <2>1
    <2>3. i \in 1 .. Len(scopes) /\ tasks[i].id = NextId + i - 1
        BY <1>4, <1>5
    <2> QED BY <1>2, <1>3, <2>2, <2>3
<1>9. l = OuterList \/ (\E k \in DOMAIN taskLists : \E j \in DOMAIN taskLists[k] : l = ChildList(taskLists[k][j].id))
    BY <1>1 DEF AllIds, IdsOf
<1>10. \A r \in OpenIn(taskRuns) : taskRuns[r].list # l
    BY <1>1, OfTheLists DEF NotInUse
<1>11. l \in DOMAIN taskLists => \A j \in DOMAIN taskLists[l] : ChildList(taskLists[l][j].id) \notin DOMAIN taskLists
    BY <1>1 DEF KeepsChildren, IdsOf
<1>12. ListsFit(taskLists) /\ RunsFit(taskLists, taskRuns, cycle, written) /\ cycle \in Cycles
    BY DEF CycleInv
<1>13. ListsFit(taskLists') /\ RunsFit(taskLists', taskRuns, cycle, written)
    BY <1>1, <1>6, <1>7, <1>8, <1>9, <1>10, <1>11, <1>12, ListSetFits
<1> QED
    BY <1>1, <1>13 DEF CycleInv

\* Statuses are written and runs go on.
LEMMA StatusesAndRunsMove ==
    ASSUME CycleInv, NEW t, NEW status \in anyStatus, taskLists' = WithStatus(t, status), cycle' = cycle,
           RunsGoOn(taskRuns, taskRuns'), written \subseteq written', status = "pending" => t \in written'
    PROVE  ListsFit(taskLists') /\ RunsFit(taskLists', taskRuns', cycle', written') /\ cycle' \in Cycles
<1>1. ListsFit(taskLists) /\ RunsFit(taskLists, taskRuns, cycle, written) /\ cycle \in Cycles
    BY DEF CycleInv
<1>2. SameTasks(taskLists, taskLists')
    BY <1>1, WithStatusKeeps
<1>3. NobodyElsePending(taskLists, taskLists', written')
    <2>1. \A l \in DOMAIN taskLists : \A i \in DOMAIN taskLists[l] :
             taskLists'[l][i].status = IF taskLists[l][i].id = t THEN status ELSE taskLists[l][i].status
        BY <1>1, WithStatusKeeps
    <2> QED BY <2>1 DEF NobodyElsePending
<1>4. ListsFit(taskLists')
    BY <1>1, <1>2, SameTasksFit
<1>5. RunsFit(taskLists', taskRuns', cycle, written')
    BY <1>1, <1>2, <1>3, RunsGoOnFit
<1> QED
    BY <1>1, <1>4, <1>5

\* One run changes its stage and its status.
OneMoves(runs, further, r) ==
    /\ DOMAIN further = DOMAIN runs /\ further = [s \in DOMAIN runs |-> further[s]]
    /\ \A s \in DOMAIN runs \ {r} : further[s] = runs[s]
    /\ further[r].task = runs[r].task /\ further[r].list = runs[r].list /\ further[r].ancestry = runs[r].ancestry
    /\ further[r].stage \in EntryStage .. LastStage
    /\ further[r].status \in {"running", "awaiting_decision"} \union overStatus
    /\ further[r] = [runs[r] EXCEPT !.stage = further[r].stage, !.status = further[r].status]

\* A run that moves is still the run of its task.
LEMMA OneMovesOn ==
    ASSUME NEW runs \in Seq(LoopRun), NEW further, NEW r \in OpenIn(runs), OneMoves(runs, further, r)
    PROVE  RunsGoOn(runs, further)
<1>1. DOMAIN runs = 1 .. Len(runs) /\ Len(runs) \in Nat /\ r \in DOMAIN runs
    BY DEF OpenIn
<1>2. \A s \in DOMAIN runs : runs[s] \in LoopRun
    BY <1>1
<1>3. \A s \in DOMAIN runs : further[s] \in LoopRun
    <2>1. further[r] \in LoopRun
        <3>1. runs[r] \in LoopRun
            BY <1>1, <1>2
        <3> QED BY <3>1 DEF LoopRun, OneMoves
    <2> QED BY <1>2, <2>1 DEF OneMoves
<1>4. further \in Seq(LoopRun)
    <2>1. further = [s \in 1 .. Len(runs) |-> further[s]]
        BY <1>1 DEF OneMoves
    <2> QED BY <1>1, <1>3, <2>1
<1>5. OpenIn(further) \subseteq OpenIn(runs)
    BY DEF OneMoves, OpenIn
<1> QED
    BY <1>4, <1>5 DEF OneMoves, RunsGoOn

\* workflow-tasks-set-status: with "cancelled" every open run of the task is closed, and its context and calls go.
LEMMA WriteStatusKeeps ==
    ASSUME CycleInv, NEW t, NEW status \in anyStatus, WriteStatus(t, status)
    PROVE  CycleInv'
<1> DEFINE stopped == IF status = "cancelled" THEN OpenRunsFor(t) ELSE {}
<1>1. /\ taskLists' = WithStatus(t, status)
      /\ taskRuns' = [r \in DOMAIN taskRuns |->
                        IF r \in stopped THEN [taskRuns[r] EXCEPT !.status = "cancelled"] ELSE taskRuns[r]]
      /\ taskContexts' = ContextsWithout(stopped) /\ taskCalls' = taskCalls \ stopped
      /\ written' = written \union {t} /\ cycle' = cycle /\ retryQuestions' = retryQuestions
    BY DEF WriteStatus
<1>0. taskRuns \in Seq(LoopRun)
    BY DEF CycleInv, RunsFit
<1>2. stopped \subseteq OpenIn(taskRuns) /\ \A r \in stopped : r \in DOMAIN taskRuns /\ taskRuns[r].task = t
    BY OfTheLists DEF OpenRunsFor, OpenIn
<1> HIDE DEF stopped
<1>3. DOMAIN taskRuns = 1 .. Len(taskRuns) /\ Len(taskRuns) \in Nat /\ \A r \in DOMAIN taskRuns : taskRuns[r] \in LoopRun
    BY <1>0
<1>4. ASSUME NEW r \in DOMAIN taskRuns
      PROVE  /\ taskRuns'[r] \in LoopRun /\ taskRuns'[r].task = taskRuns[r].task
             /\ taskRuns'[r].list = taskRuns[r].list /\ taskRuns'[r].ancestry = taskRuns[r].ancestry
             /\ r \in stopped => taskRuns'[r].status = "cancelled"
             /\ r \notin stopped => taskRuns'[r] = taskRuns[r]
    <2>1. taskRuns'[r] = IF r \in stopped THEN [taskRuns[r] EXCEPT !.status = "cancelled"] ELSE taskRuns[r]
        BY <1>1
    <2>2. taskRuns[r] \in LoopRun
        BY <1>3
    <2> QED BY <2>1, <2>2 DEF LoopRun, overStatus
<1>5. taskRuns' \in Seq(LoopRun) /\ DOMAIN taskRuns' = DOMAIN taskRuns
    <2>1. taskRuns' = [r \in 1 .. Len(taskRuns) |-> taskRuns'[r]]
        BY <1>1, <1>3
    <2> QED BY <1>3, <1>4, <2>1
<1>6. OpenIn(taskRuns') = OpenIn(taskRuns) \ stopped
    BY <1>4, <1>5 DEF OpenIn
<1>7. RunsGoOn(taskRuns, taskRuns')
    BY <1>4, <1>5, <1>6 DEF RunsGoOn
<1>8. ListsFit(taskLists') /\ RunsFit(taskLists', taskRuns', cycle', written') /\ cycle' \in Cycles
    BY <1>1, <1>7, StatusesAndRunsMove
<1>9. /\ DOMAIN taskContexts' = DOMAIN taskContexts \ stopped
      /\ \A r \in DOMAIN taskContexts' : taskContexts'[r] = taskContexts[r]
    BY <1>1 DEF ContextsWithout, Restrict
<1>10. ContextsFit(taskRuns, taskContexts, taskCalls) /\ QuestionsFit(taskRuns, taskContexts, retryQuestions, written)
    BY DEF CycleInv
<1>11. ContextsFit(taskRuns', taskContexts', taskCalls')
    <2>1. DOMAIN taskContexts \subseteq DOMAIN taskRuns
        BY <1>10 DEF ContextsFit, OpenIn
    <2> QED BY <1>1, <1>4, <1>6, <1>9, <1>10, <2>1 DEF ContextsFit
<1>12. QuestionsFit(taskRuns', taskContexts', retryQuestions', written')
    <2>1. \A r \in DOMAIN taskRuns : taskRuns[r].task \notin written' => r \notin stopped /\ taskRuns[r].task \notin written
        BY <1>1, <1>2
    <2>2. \A d \in retryQuestions : d.task \notin written' =>
             /\ d.run \in DOMAIN taskRuns' /\ taskRuns'[d.run].status = "awaiting_decision" /\ taskRuns'[d.run].task = d.task
        BY <1>1, <1>4, <1>5, <1>10, <2>1 DEF QuestionsFit
    <2>3. \A r \in DOMAIN taskRuns' : taskRuns'[r].status = "awaiting_decision" /\ taskRuns'[r].task \notin written' =>
             /\ [task |-> taskRuns'[r].task, run |-> r] \in retryQuestions
             /\ r \in DOMAIN taskContexts' /\ taskContexts'[r].status = "awaiting_decision"
        BY <1>4, <1>5, <1>9, <1>10, <2>1 DEF QuestionsFit
    <2> QED BY <1>1, <1>10, <2>2, <2>3 DEF QuestionsFit
<1> QED
    BY <1>8, <1>11, <1>12 DEF CycleInv

\* The next call of a run gives it the context it may have had.
LEMMA DispatchOpenRunKeeps ==
    ASSUME CycleInv, NEW t, DispatchOpenRun(t)
    PROVE  CycleInv'
<1>1. PICK r \in OpenRunsFor(t) \ taskCalls :
         /\ taskRuns[r].status = "running"
         /\ taskCalls' = taskCalls \union {r}
         /\ taskContexts' = ContextOfCall(r, t)
    BY DEF DispatchOpenRun
<1>2. UNCHANGED <<cycle, taskLists, taskRuns, retryQuestions, written>>
    BY DEF DispatchOpenRun
<1>3. r \in OpenIn(taskRuns) /\ r \in DOMAIN taskRuns /\ taskRuns[r].task = t
    BY OfTheLists DEF OpenRunsFor, OpenIn
<1>4. /\ DOMAIN taskContexts' = DOMAIN taskContexts \union {r}
      /\ taskContexts'[r] = [task |-> t, status |-> "running"]
      /\ \A s \in DOMAIN taskContexts \ {r} : taskContexts'[s] = taskContexts[s]
    BY <1>1 DEF ContextOfCall, SetAt
<1>5. ContextsFit(taskRuns, taskContexts, taskCalls) /\ QuestionsFit(taskRuns, taskContexts, retryQuestions, written)
    BY DEF CycleInv
<1>6. ContextsFit(taskRuns, taskContexts', taskCalls')
    <2>1. taskContexts'[r] = [task |-> taskRuns[r].task, status |-> taskContexts'[r].status]
        BY <1>3, <1>4
    <2>2. \A s \in DOMAIN taskContexts' : taskContexts'[s] = [task |-> taskRuns[s].task, status |-> taskContexts'[s].status]
        BY <1>4, <1>5, <2>1 DEF ContextsFit
    <2> QED BY <1>1, <1>3, <1>4, <1>5, <2>2 DEF ContextsFit
<1>7. QuestionsFit(taskRuns, taskContexts', retryQuestions, written)
    BY <1>1, <1>4, <1>5 DEF QuestionsFit
<1> QED
    BY <1>2, <1>6, <1>7 DEF CycleInv

\* A call that ends without a verdict leaves the run where it is.
LEMMA CallEndsKeeps ==
    ASSUME CycleInv, NEW r, CallEnds(r)
    PROVE  CycleInv'
<1>1. taskCalls' = taskCalls \ {r} /\ UNCHANGED <<cycle, taskLists, taskRuns, taskContexts, retryQuestions, written>>
    BY DEF CallEnds
<1>2. ContextsFit(taskRuns, taskContexts, taskCalls')
    BY <1>1 DEF CycleInv, ContextsFit
<1> QED
    BY <1>1, <1>2 DEF CycleInv

\* The context of a run at work names its task, and that of no other run changes.
OneContextMoved(contexts, after, r, context) ==
    /\ DOMAIN after = DOMAIN contexts /\ after[r] = context
    /\ \A s \in DOMAIN contexts \ {r} : after[s] = contexts[s]
OneContextLess(contexts, after, r) ==
    /\ DOMAIN after = DOMAIN contexts \ {r}
    /\ \A s \in DOMAIN contexts \ {r} : after[s] = contexts[s]

LEMMA ContextsOfOne ==
    ASSUME CycleInv, NEW r \in DOMAIN taskContexts
    PROVE  /\ r \in OpenIn(taskRuns) /\ r \in DOMAIN taskRuns /\ taskContexts[r].task = taskRuns[r].task
           /\ \A status : OneContextMoved(taskContexts, ContextMoved(r, status), r,
                                          [task |-> taskRuns[r].task, status |-> status])
           /\ OneContextLess(taskContexts, ContextsWithout({r}), r)
<1>1. r \in OpenIn(taskRuns) /\ r \in DOMAIN taskRuns /\ taskContexts[r].task = taskRuns[r].task
    BY DEF CycleInv, ContextsFit, OpenIn
<1>2. OneContextLess(taskContexts, ContextsWithout({r}), r)
    BY DEF ContextsWithout, Restrict, OneContextLess
<1>3. ASSUME NEW status
      PROVE  OneContextMoved(taskContexts, ContextMoved(r, status), r, [task |-> taskRuns[r].task, status |-> status])
    <2>1. DOMAIN taskContexts \union {r} = DOMAIN taskContexts
        OBVIOUS
    <2> QED BY <1>1, <2>1 DEF ContextMoved, SetAt, OneContextMoved
<1> QED
    BY <1>1, <1>2, <1>3

\* What becomes of contexts and calls when one run moves.
LEMMA ContextsFollow ==
    ASSUME CycleInv, NEW r \in DOMAIN taskContexts, OneMoves(taskRuns, taskRuns', r),
           taskCalls' = taskCalls \ {r},
           \/ /\ taskRuns'[r].status \in {"running", "awaiting_decision"}
              /\ \E status : taskContexts' = ContextMoved(r, status)
           \/ taskRuns'[r].status \in overStatus /\ taskContexts' = ContextsWithout({r})
    PROVE  ContextsFit(taskRuns', taskContexts', taskCalls')
<1>1. ContextsFit(taskRuns, taskContexts, taskCalls)
    BY DEF CycleInv
<1>2. r \in OpenIn(taskRuns) /\ r \in DOMAIN taskRuns
    BY ContextsOfOne
<1>3. \A s \in DOMAIN taskRuns : s # r => taskRuns'[s] = taskRuns[s]
    BY DEF OneMoves
<1>4. DOMAIN taskContexts \subseteq DOMAIN taskRuns /\ DOMAIN taskRuns' = DOMAIN taskRuns
    BY <1>1 DEF ContextsFit, OpenIn, OneMoves
<1>5. \A s \in OpenIn(taskRuns) : s # r => s \in OpenIn(taskRuns')
    BY <1>3, <1>4 DEF OpenIn
<1>6. \A s \in taskCalls' : s \in DOMAIN taskContexts /\ s # r /\ taskRuns'[s].status = "running"
    BY <1>1, <1>3, <1>4 DEF ContextsFit
<1>7. CASE /\ taskRuns'[r].status \in {"running", "awaiting_decision"}
           /\ \E status : taskContexts' = ContextMoved(r, status)
    <2>1. PICK status : taskContexts' = ContextMoved(r, status)
        BY <1>7
    <2>2. /\ DOMAIN taskContexts' = DOMAIN taskContexts
          /\ taskContexts'[r] = [task |-> taskRuns[r].task, status |-> status]
          /\ \A s \in DOMAIN taskContexts \ {r} : taskContexts'[s] = taskContexts[s]
        <3>1. OneContextMoved(taskContexts, ContextMoved(r, status), r, [task |-> taskRuns[r].task, status |-> status])
            BY ContextsOfOne
        <3> QED BY <2>1, <3>1 DEF OneContextMoved
    <2>3. r \in OpenIn(taskRuns') /\ taskRuns'[r].task = taskRuns[r].task
        BY <1>2, <1>4, <1>7 DEF OpenIn, OneMoves
    <2>4. taskContexts'[r] = [task |-> taskRuns'[r].task, status |-> taskContexts'[r].status]
        BY <2>2, <2>3
    <2>5. \A s \in DOMAIN taskContexts' : taskContexts'[s] = [task |-> taskRuns'[s].task, status |-> taskContexts'[s].status]
        BY <1>1, <1>3, <1>4, <2>2, <2>4 DEF ContextsFit
    <2> QED BY <1>1, <1>5, <1>6, <2>2, <2>3, <2>5 DEF ContextsFit
<1>8. CASE taskRuns'[r].status \in overStatus /\ taskContexts' = ContextsWithout({r})
    <2>1. /\ DOMAIN taskContexts' = DOMAIN taskContexts \ {r}
          /\ \A s \in DOMAIN taskContexts \ {r} : taskContexts'[s] = taskContexts[s]
        <3>1. OneContextLess(taskContexts, ContextsWithout({r}), r)
            BY ContextsOfOne
        <3> QED BY <1>8, <3>1 DEF OneContextLess
    <2>2. \A s \in DOMAIN taskContexts' : taskContexts'[s] = [task |-> taskRuns'[s].task, status |-> taskContexts'[s].status]
        BY <1>1, <1>3, <1>4, <2>1 DEF ContextsFit
    <2> QED BY <1>1, <1>5, <1>6, <2>1, <2>2 DEF ContextsFit
<1> QED
    BY <1>7, <1>8

\* The questions of the other runs stay, and their contexts.
LEMMA QuestionsOfOthers ==
    ASSUME CycleInv, NEW r \in DOMAIN taskRuns, OneMoves(taskRuns, taskRuns', r), written' = written,
           \A s \in DOMAIN taskContexts \ {r} : s \in DOMAIN taskContexts' /\ taskContexts'[s] = taskContexts[s],
           \A d \in retryQuestions' : d \in retryQuestions \/ d = [task |-> taskRuns[r].task, run |-> r],
           \A d \in retryQuestions : d.run # r => d \in retryQuestions',
           \A d \in retryQuestions' : d.run = r /\ d.task \notin written => taskRuns'[r].status = "awaiting_decision",
           taskRuns'[r].status = "awaiting_decision" /\ taskRuns[r].task \notin written =>
             /\ [task |-> taskRuns[r].task, run |-> r] \in retryQuestions'
             /\ r \in DOMAIN taskContexts' /\ taskContexts'[r].status = "awaiting_decision"
    PROVE  QuestionsFit(taskRuns', taskContexts', retryQuestions', written')
<1>1. QuestionsFit(taskRuns, taskContexts, retryQuestions, written)
    BY DEF CycleInv
<1>2. /\ \A s \in DOMAIN taskRuns : s # r => taskRuns'[s] = taskRuns[s]
      /\ taskRuns'[r].task = taskRuns[r].task /\ DOMAIN taskRuns' = DOMAIN taskRuns
    BY DEF OneMoves
<1>3. \A d \in retryQuestions' : DOMAIN d = {"task", "run"} /\ d = [task |-> d.task, run |-> d.run]
    BY <1>1 DEF QuestionsFit
<1>4. ASSUME NEW d \in retryQuestions', d.task \notin written'
      PROVE  d.run \in DOMAIN taskRuns' /\ taskRuns'[d.run].status = "awaiting_decision" /\ taskRuns'[d.run].task = d.task
    <2>1. CASE d = [task |-> taskRuns[r].task, run |-> r]
        <3>1. d.run = r /\ d.task = taskRuns[r].task
            BY <2>1
        <3> QED BY <1>2, <1>4, <3>1
    <2>2. CASE d \in retryQuestions
        <3>1. d.run \in DOMAIN taskRuns /\ taskRuns[d.run].status = "awaiting_decision" /\ taskRuns[d.run].task = d.task
            BY <1>1, <1>4, <2>2 DEF QuestionsFit
        <3>2. d.run = r => taskRuns'[r].status = "awaiting_decision"
            BY <1>4
        <3> QED BY <1>2, <3>1, <3>2
    <2> QED BY <2>1, <2>2
<1>5. ASSUME NEW s \in DOMAIN taskRuns', taskRuns'[s].status = "awaiting_decision", taskRuns'[s].task \notin written'
      PROVE  /\ [task |-> taskRuns'[s].task, run |-> s] \in retryQuestions'
             /\ s \in DOMAIN taskContexts' /\ taskContexts'[s].status = "awaiting_decision"
    <2>1. CASE s = r
        BY <1>2, <1>5, <2>1
    <2>2. CASE s # r
        <3>1. s \in DOMAIN taskRuns /\ taskRuns'[s] = taskRuns[s]
            BY <1>2, <2>2
        <3>2. /\ [task |-> taskRuns[s].task, run |-> s] \in retryQuestions
              /\ s \in DOMAIN taskContexts /\ taskContexts[s].status = "awaiting_decision"
            BY <1>1, <1>5, <3>1 DEF QuestionsFit
        <3>3. [task |-> taskRuns[s].task, run |-> s].run # r
            BY <2>2
        <3>4. [task |-> taskRuns[s].task, run |-> s] \in retryQuestions'
            BY <3>2, <3>3
        <3> QED BY <2>2, <3>1, <3>2, <3>4
    <2> QED BY <2>1, <2>2
<1> QED
    BY <1>3, <1>4, <1>5 DEF QuestionsFit

\* No question is about a run at work, unless its controller wrote.
LEMMA NobodyAsksOfWork ==
    ASSUME CycleInv, NEW r \in taskCalls
    PROVE  /\ r \in DOMAIN taskContexts /\ r \in OpenIn(taskRuns) /\ r \in DOMAIN taskRuns
           /\ taskRuns[r] \in LoopRun /\ taskRuns[r].status = "running"
           /\ \A d \in retryQuestions : d.task \notin written => d.run # r /\ d.task # taskRuns[r].task
<1>1. r \in DOMAIN taskContexts /\ r \in OpenIn(taskRuns) /\ r \in DOMAIN taskRuns /\ taskRuns[r].status = "running"
    BY DEF CycleInv, ContextsFit, OpenIn
<1>2. taskRuns[r] \in LoopRun
    <2>1. taskRuns \in Seq(LoopRun)
        BY DEF CycleInv, RunsFit
    <2> QED BY <1>1, <2>1
<1>3. ASSUME NEW d \in retryQuestions, d.task \notin written
      PROVE  d.run # r /\ d.task # taskRuns[r].task
    <2>1. d.run \in DOMAIN taskRuns /\ taskRuns[d.run].status = "awaiting_decision" /\ taskRuns[d.run].task = d.task
        BY <1>3 DEF CycleInv, QuestionsFit
    <2>2. d.run # r /\ d.run \in OpenIn(taskRuns)
        BY <1>1, <2>1 DEF OpenIn
    <2>3. taskRuns[d.run].task # taskRuns[r].task
        BY <1>1, <2>2 DEF CycleInv, RunsFit, OneRunPerTask
    <2> QED BY <2>1, <2>2, <2>3
<1> QED
    BY <1>1, <1>2, <1>3

\* A verdict that passes moves the run, or ends it with its context.
LEMMA MoveOnKeeps ==
    ASSUME CycleInv, NEW r \in taskCalls, MoveOn(r)
    PROVE  CycleInv'
<1>1. /\ r \in DOMAIN taskContexts /\ r \in OpenIn(taskRuns) /\ r \in DOMAIN taskRuns
      /\ taskRuns[r] \in LoopRun /\ taskRuns[r].status = "running"
      /\ \A d \in retryQuestions : d.task \notin written => d.run # r
    BY NobodyAsksOfWork
<1>2. taskCalls' = taskCalls \ {r} /\ UNCHANGED <<cycle, retryQuestions, written>>
    BY DEF MoveOn
<1>3. /\ OneMoves(taskRuns, taskRuns', r)
      /\ \/ taskRuns'[r].status = "running" /\ taskContexts' = ContextMoved(r, "running")
         \/ taskRuns'[r].status = "completed" /\ taskContexts' = ContextsWithout({r})
      /\ \E status \in {"running", "completed"} : taskLists' = WithStatus(taskRuns[r].task, status)
    <2>1. CASE taskRuns[r].stage = LastStage
        <3>1. /\ taskRuns' = [taskRuns EXCEPT ![r].status = "completed"]
              /\ taskLists' = WithStatus(taskRuns[r].task, "completed") /\ taskContexts' = ContextsWithout({r})
            BY <2>1 DEF MoveOn
        <3>2. taskRuns'[r] = [taskRuns[r] EXCEPT !.status = "completed"] /\ DOMAIN taskRuns' = DOMAIN taskRuns
            BY <1>1, <3>1
        <3>3. /\ taskRuns'[r].status = "completed" /\ taskRuns'[r].stage = taskRuns[r].stage
              /\ taskRuns'[r] = [taskRuns[r] EXCEPT !.stage = taskRuns'[r].stage, !.status = taskRuns'[r].status]
              /\ taskRuns[r].stage \in EntryStage .. LastStage
            BY <1>1, <3>2 DEF LoopRun
        <3>4. OneMoves(taskRuns, taskRuns', r)
            BY <1>1, <3>1, <3>2, <3>3 DEF OneMoves, overStatus, LoopRun
        <3> QED BY <3>1, <3>3, <3>4
    <2>2. CASE taskRuns[r].stage # LastStage
        <3>1. /\ taskRuns' = [taskRuns EXCEPT ![r].stage = @ + 1]
              /\ taskLists' = WithStatus(taskRuns[r].task, "running") /\ taskContexts' = ContextMoved(r, "running")
            BY <2>2 DEF MoveOn
        <3>2. taskRuns'[r] = [taskRuns[r] EXCEPT !.stage = taskRuns[r].stage + 1] /\ DOMAIN taskRuns' = DOMAIN taskRuns
            BY <1>1, <3>1
        <3>3. /\ taskRuns'[r].status = "running" /\ taskRuns'[r].stage = taskRuns[r].stage + 1
              /\ taskRuns'[r] = [taskRuns[r] EXCEPT !.stage = taskRuns'[r].stage, !.status = taskRuns'[r].status]
              /\ taskRuns[r].stage \in EntryStage .. LastStage
            BY <1>1, <3>2 DEF LoopRun
        <3>5. taskRuns'[r].stage \in EntryStage .. LastStage
            BY <2>2, <3>3 DEF EntryStage, LastStage
        <3>4. OneMoves(taskRuns, taskRuns', r)
            BY <1>1, <3>1, <3>2, <3>3, <3>5 DEF OneMoves, LoopRun
        <3> QED BY <3>1, <3>3, <3>4
    <2> QED BY <2>1, <2>2
<1>4. RunsGoOn(taskRuns, taskRuns')
    BY <1>1, <1>3, OneMovesOn DEF CycleInv, RunsFit
<1>5. ListsFit(taskLists') /\ RunsFit(taskLists', taskRuns', cycle', written') /\ cycle' \in Cycles
    <2>1. PICK status \in {"running", "completed"} : taskLists' = WithStatus(taskRuns[r].task, status)
        BY <1>3
    <2>2. status \in anyStatus /\ status # "pending"
        BY DEF anyStatus, overStatus
    <2> QED BY <1>2, <1>4, <2>1, <2>2, StatusesAndRunsMove
<1>6. ContextsFit(taskRuns', taskContexts', taskCalls')
    BY <1>1, <1>2, <1>3, ContextsFollow DEF overStatus
<1>7. QuestionsFit(taskRuns', taskContexts', retryQuestions', written')
    <2>1. taskRuns'[r].status # "awaiting_decision"
        BY <1>3
    <2>2. \A s \in DOMAIN taskContexts \ {r} : s \in DOMAIN taskContexts' /\ taskContexts'[s] = taskContexts[s]
        <3>0. /\ OneContextMoved(taskContexts, ContextMoved(r, "running"), r, [task |-> taskRuns[r].task, status |-> "running"])
              /\ OneContextLess(taskContexts, ContextsWithout({r}), r)
            BY <1>1, ContextsOfOne
        <3>1. CASE taskContexts' = ContextMoved(r, "running")
            BY <3>0, <3>1 DEF OneContextMoved
        <3>2. CASE taskContexts' = ContextsWithout({r})
            BY <3>0, <3>2 DEF OneContextLess
        <3> QED BY <1>3, <3>1, <3>2
    <2> QED BY <1>1, <1>2, <1>3, <2>1, <2>2, QuestionsOfOthers
<1> QED
    BY <1>5, <1>6, <1>7 DEF CycleInv

\* A verdict that fails sends the run back; with the budget spent the run waits and is asked about.
LEMMA SendBackKeeps ==
    ASSUME CycleInv, NEW r \in taskCalls, NEW spent \in BOOLEAN, SendBack(r, spent)
    PROVE  CycleInv'
<1> DEFINE status == IF spent THEN "awaiting_decision" ELSE "running"
           t == taskRuns[r].task
<1>0. status \in {"running", "awaiting_decision"} /\ (status = "awaiting_decision" <=> spent)
    OBVIOUS
<1>1. /\ r \in DOMAIN taskContexts /\ r \in OpenIn(taskRuns) /\ r \in DOMAIN taskRuns
      /\ taskRuns[r] \in LoopRun /\ taskRuns[r].status = "running"
      /\ \A d \in retryQuestions : d.task \notin written => d.run # r /\ d.task # t
    BY NobodyAsksOfWork
<1>2. /\ taskRuns' = [taskRuns EXCEPT ![r].stage = EntryStage, ![r].status = status]
      /\ taskLists' = WithStatus(t, "running") /\ taskContexts' = ContextMoved(r, status)
      /\ retryQuestions' = IF spent THEN AskedAbout(r) ELSE retryQuestions
      /\ taskCalls' = taskCalls \ {r} /\ UNCHANGED <<cycle, written>>
    BY DEF SendBack
<1> HIDE DEF status
<1>3. OneMoves(taskRuns, taskRuns', r) /\ taskRuns'[r].status = status
    <2>1. taskRuns'[r] = [taskRuns[r] EXCEPT !.stage = EntryStage, !.status = status] /\ DOMAIN taskRuns' = DOMAIN taskRuns
        BY <1>1, <1>2
    <2>2. /\ taskRuns'[r].status = status /\ taskRuns'[r].stage = EntryStage
          /\ taskRuns'[r] = [taskRuns[r] EXCEPT !.stage = taskRuns'[r].stage, !.status = taskRuns'[r].status]
        BY <1>1, <2>1 DEF LoopRun
    <2>3. EntryStage \in EntryStage .. LastStage
        BY DEF EntryStage, LastStage
    <2> QED BY <1>0, <1>1, <1>2, <2>1, <2>2, <2>3 DEF OneMoves, LoopRun
<1>4. RunsGoOn(taskRuns, taskRuns')
    BY <1>1, <1>3, OneMovesOn DEF CycleInv, RunsFit
<1>5. ListsFit(taskLists') /\ RunsFit(taskLists', taskRuns', cycle', written') /\ cycle' \in Cycles
    BY <1>2, <1>4, StatusesAndRunsMove DEF anyStatus
<1>6. ContextsFit(taskRuns', taskContexts', taskCalls')
    BY <1>0, <1>1, <1>2, <1>3, ContextsFollow
<1>7. OneContextMoved(taskContexts, taskContexts', r, [task |-> t, status |-> status])
    <2>1. OneContextMoved(taskContexts, ContextMoved(r, status), r, [task |-> t, status |-> status])
        BY <1>1, ContextsOfOne
    <2> QED BY <1>2, <2>1
<1>8. /\ \A d \in retryQuestions' : d \in retryQuestions \/ (spent /\ d = [task |-> t, run |-> r])
      /\ \A d \in retryQuestions : d \in retryQuestions'
      /\ spent /\ t \notin written => [task |-> t, run |-> r] \in retryQuestions'
    <2>1. CASE spent /\ (\E d \in retryQuestions : d.task = t)
        <3>1. retryQuestions' = retryQuestions
            BY <1>2, <2>1 DEF AskedAbout
        <3>2. t \in written
            BY <1>1, <2>1
        <3> QED BY <3>1, <3>2
    <2>2. CASE spent /\ ~ (\E d \in retryQuestions : d.task = t)
        <3>1. retryQuestions' = retryQuestions \union {[task |-> t, run |-> r]}
            BY <1>2, <2>2 DEF AskedAbout
        <3> QED BY <2>2, <3>1
    <2>3. CASE ~ spent
        BY <1>2, <2>3
    <2> QED BY <2>1, <2>2, <2>3
<1>9. QuestionsFit(taskRuns', taskContexts', retryQuestions', written')
    <2>1. \A s \in DOMAIN taskContexts \ {r} : s \in DOMAIN taskContexts' /\ taskContexts'[s] = taskContexts[s]
        BY <1>7 DEF OneContextMoved
    <2>2. r \in DOMAIN taskContexts' /\ taskContexts'[r].status = status
        BY <1>1, <1>7 DEF OneContextMoved
    <2>3. \A d \in retryQuestions' : d \in retryQuestions \/ d = [task |-> taskRuns[r].task, run |-> r]
        BY <1>8
    <2>4. \A d \in retryQuestions' : d.run = r /\ d.task \notin written => taskRuns'[r].status = "awaiting_decision"
        BY <1>0, <1>1, <1>3, <1>8
    <2>5. taskRuns'[r].status = "awaiting_decision" /\ taskRuns[r].task \notin written =>
             /\ [task |-> taskRuns[r].task, run |-> r] \in retryQuestions'
             /\ r \in DOMAIN taskContexts' /\ taskContexts'[r].status = "awaiting_decision"
        BY <1>0, <1>3, <1>8, <2>2
    <2> QED BY <1>1, <1>2, <1>3, <1>8, <2>1, <2>3, <2>4, <2>5, QuestionsOfOthers
<1> QED
    BY <1>5, <1>6, <1>9 DEF CycleInv

\* A decision takes its question away and moves the run it was about, and no other question was about that run.
LEMMA ResolveDecisionKeeps ==
    ASSUME CycleInv, NEW d \in retryQuestions, NEW answer \in {"increase", "cancelled"}, ResolveDecision(d, answer)
    PROVE  CycleInv'
<1> DEFINE r == d.run
           again == answer = "increase"
           status == IF again THEN "running" ELSE answer
<1>1. /\ r \in DOMAIN taskContexts /\ taskContexts[r] = [task |-> d.task, status |-> "awaiting_decision"]
      /\ taskRuns[r].status = "awaiting_decision"
    BY DEF ResolveDecision, Decidable
<1>2. /\ taskRuns' = [taskRuns EXCEPT ![r].stage = IF again THEN EntryStage ELSE @, ![r].status = status]
      /\ taskLists' = WithStatus(d.task, status)
      /\ taskContexts' = IF again THEN ContextMoved(r, "running") ELSE ContextsWithout({r})
      /\ retryQuestions' = retryQuestions \ {d}
      /\ UNCHANGED <<cycle, taskCalls, written>>
    BY DEF ResolveDecision, QuestionsAfter
<1>3. r \in OpenIn(taskRuns) /\ r \in DOMAIN taskRuns /\ taskRuns[r].task = d.task
    <2>1. taskContexts[r].task = d.task
        BY <1>1
    <2>2. r \in DOMAIN taskContexts
        BY <1>1
    <2> HIDE DEF r
    <2> QED BY <2>1, <2>2, ContextsOfOne
<1>4. taskRuns[r] \in LoopRun
    <2>1. taskRuns \in Seq(LoopRun)
        BY DEF CycleInv, RunsFit
    <2> QED BY <1>3, <2>1
<1>5. /\ status \in {"running", "cancelled"} /\ (again <=> status = "running")
      /\ (~ again => status \in overStatus) /\ status \in anyStatus
    BY DEF overStatus, anyStatus
<1> HIDE DEF r, again, status
<1>6. OneMoves(taskRuns, taskRuns', r) /\ taskRuns'[r].status = status
    <2> DEFINE stage == IF again THEN EntryStage ELSE taskRuns[r].stage
    <2>1. taskRuns'[r] = [taskRuns[r] EXCEPT !.stage = stage, !.status = status] /\ DOMAIN taskRuns' = DOMAIN taskRuns
        BY <1>2, <1>3
    <2>2. stage \in EntryStage .. LastStage
        BY <1>4 DEF EntryStage, LastStage, LoopRun
    <2> HIDE DEF stage
    <2>3. /\ taskRuns'[r].status = status /\ taskRuns'[r].stage = stage
          /\ taskRuns'[r] = [taskRuns[r] EXCEPT !.stage = taskRuns'[r].stage, !.status = taskRuns'[r].status]
        BY <1>4, <2>1 DEF LoopRun
    <2> QED BY <1>2, <1>3, <1>4, <1>5, <2>1, <2>2, <2>3 DEF OneMoves, LoopRun, overStatus
<1>7. RunsGoOn(taskRuns, taskRuns')
    BY <1>3, <1>6, OneMovesOn DEF CycleInv, RunsFit
<1>8. ListsFit(taskLists') /\ RunsFit(taskLists', taskRuns', cycle', written') /\ cycle' \in Cycles
    BY <1>2, <1>5, <1>7, StatusesAndRunsMove
<1>9. r \notin taskCalls
    BY <1>1, <1>3 DEF CycleInv, ContextsFit, r
<1>10. ContextsFit(taskRuns', taskContexts', taskCalls')
    <2>1. taskCalls' = taskCalls \ {r}
        BY <1>2, <1>9
    <2>2. r \in DOMAIN taskContexts
        BY <1>1
    <2>3. again => taskContexts' = ContextMoved(r, "running")
        BY <1>2
    <2>4. ~ again => taskContexts' = ContextsWithout({r})
        BY <1>2
    <2> QED BY <1>5, <1>6, <2>1, <2>2, <2>3, <2>4, ContextsFollow
<1>11. \A s \in DOMAIN taskContexts \ {r} : s \in DOMAIN taskContexts' /\ taskContexts'[s] = taskContexts[s]
    <2>0. /\ OneContextMoved(taskContexts, ContextMoved(r, "running"), r, [task |-> taskRuns[r].task, status |-> "running"])
          /\ OneContextLess(taskContexts, ContextsWithout({r}), r)
        BY <1>1, ContextsOfOne
    <2>1. CASE again
        <3>1. taskContexts' = ContextMoved(r, "running")
            BY <1>2, <2>1
        <3> QED BY <2>0, <3>1 DEF OneContextMoved
    <2>2. CASE ~ again
        <3>1. taskContexts' = ContextsWithout({r})
            BY <1>2, <2>2
        <3> QED BY <2>0, <3>1 DEF OneContextLess
    <2> QED BY <2>1, <2>2
<1>12. \A e \in retryQuestions' : e.run = r => e.task \in written
    <2> SUFFICES ASSUME NEW e \in retryQuestions', e.run = r, e.task \notin written PROVE FALSE
        OBVIOUS
    <2>1. e \in retryQuestions /\ e # d
        BY <1>2
    <2>2. taskRuns[e.run].task = e.task /\ e = [task |-> e.task, run |-> e.run] /\ d = [task |-> d.task, run |-> d.run]
        BY <2>1 DEF CycleInv, QuestionsFit
    <2>3. e.task = d.task /\ e.run = d.run
        BY <1>3, <2>2 DEF r
    <2> QED BY <2>1, <2>2, <2>3
<1>13. QuestionsFit(taskRuns', taskContexts', retryQuestions', written')
    <2>1. taskRuns'[r].status # "awaiting_decision"
        BY <1>5, <1>6
    <2>2. \A e \in retryQuestions : e.run # r => e \in retryQuestions'
        BY <1>2 DEF r
    <2>3. \A e \in retryQuestions' : e \in retryQuestions \/ e = [task |-> taskRuns[r].task, run |-> r]
        BY <1>2
    <2> QED BY <1>2, <1>3, <1>6, <1>11, <1>12, <2>1, <2>2, <2>3, QuestionsOfOthers
<1> QED
    BY <1>8, <1>10, <1>13 DEF CycleInv

\* A task that is to be at work is pending no more: the lists fit, and the runs there are.
LEMMA TaskIsToRun ==
    ASSUME CycleInv, NEW t, taskLists' = WithStatus(t, "running")
    PROVE  /\ ListsFit(taskLists') /\ SameTasks(taskLists, taskLists')
           /\ RunsFit(taskLists', taskRuns, cycle, written)
           /\ \A l \in DOMAIN taskLists : \A i \in DOMAIN taskLists[l] :
                taskLists'[l][i].status = IF taskLists[l][i].id = t THEN "running" ELSE taskLists[l][i].status
<1>1. ListsFit(taskLists) /\ RunsFit(taskLists, taskRuns, cycle, written) /\ cycle \in Cycles /\ "running" \in anyStatus
    BY DEF CycleInv, anyStatus
<1>2. /\ SameTasks(taskLists, taskLists')
      /\ \A l \in DOMAIN taskLists : \A i \in DOMAIN taskLists[l] :
            taskLists'[l][i].status = IF taskLists[l][i].id = t THEN "running" ELSE taskLists[l][i].status
    BY <1>1, WithStatusKeeps
<1>3. ListsFit(taskLists')
    BY <1>1, <1>2, SameTasksFit
<1>4. NobodyElsePending(taskLists, taskLists', written)
    BY <1>2 DEF NobodyElsePending
<1>5. RunsGoOn(taskRuns, taskRuns)
    BY <1>1 DEF RunsGoOn, RunsFit
<1>6. RunsFit(taskLists', taskRuns, cycle, written)
    BY <1>1, <1>2, <1>4, <1>5, RunsGoOnFit
<1> QED
    BY <1>2, <1>3, <1>6

\* A run that is opened has no question and, unless it is called, no context.
LEMMA OpenedRunFits ==
    ASSUME CycleInv, NEW run \in LoopRun, taskRuns' = Append(taskRuns, run), run.status = "running",
           UNCHANGED <<retryQuestions, written>>,
           \/ taskCalls' = taskCalls \union {Len(taskRuns) + 1} /\ taskContexts' = ContextOfCall(Len(taskRuns) + 1, run.task)
           \/ taskCalls' = taskCalls /\ taskContexts' = taskContexts
    PROVE  /\ ContextsFit(taskRuns', taskContexts', taskCalls')
           /\ QuestionsFit(taskRuns', taskContexts', retryQuestions', written')
<1> DEFINE m == Len(taskRuns) + 1
<1>0. taskRuns \in Seq(LoopRun)
    BY DEF CycleInv, RunsFit
<1>1. m \in Nat /\ DOMAIN taskRuns' = DOMAIN taskRuns \union {m} /\ m \notin DOMAIN taskRuns
    BY <1>0
<1>2. taskRuns'[m] = run /\ \A r \in DOMAIN taskRuns : taskRuns'[r] = taskRuns[r]
    BY <1>0
<1> HIDE DEF m
<1>3. ContextsFit(taskRuns, taskContexts, taskCalls) /\ QuestionsFit(taskRuns, taskContexts, retryQuestions, written)
    BY DEF CycleInv
<1>4. DOMAIN taskContexts \subseteq DOMAIN taskRuns /\ m \notin DOMAIN taskContexts
    BY <1>1, <1>3 DEF ContextsFit, OpenIn
<1>5. \A r \in OpenIn(taskRuns) : r \in OpenIn(taskRuns')
    BY <1>1, <1>2 DEF OpenIn
<1>6. m \in OpenIn(taskRuns')
    BY <1>1, <1>2 DEF OpenIn
<1>7. /\ DOMAIN taskContexts' \subseteq DOMAIN taskContexts \union {m}
      /\ \A r \in DOMAIN taskContexts : r \in DOMAIN taskContexts' /\ taskContexts'[r] = taskContexts[r]
      /\ taskCalls' \subseteq taskCalls \union {m}
      /\ m \in taskCalls' => m \in DOMAIN taskContexts'
      /\ m \in DOMAIN taskContexts' => taskContexts'[m] = [task |-> run.task, status |-> "running"]
    <2>1. CASE taskCalls' = taskCalls \union {m} /\ taskContexts' = ContextOfCall(m, run.task)
        BY <1>4, <2>1 DEF ContextOfCall, SetAt
    <2>2. CASE taskCalls' = taskCalls /\ taskContexts' = taskContexts
        <3>1. m \notin taskCalls
            BY <1>3, <1>4 DEF ContextsFit
        <3> QED BY <1>4, <2>2, <3>1
    <2> QED BY <2>1, <2>2 DEF m
<1>8. ContextsFit(taskRuns', taskContexts', taskCalls')
    <2>1. DOMAIN taskContexts' \subseteq OpenIn(taskRuns')
        BY <1>3, <1>5, <1>6, <1>7 DEF ContextsFit
    <2>2. ASSUME NEW r \in DOMAIN taskContexts'
          PROVE  taskContexts'[r] = [task |-> taskRuns'[r].task, status |-> taskContexts'[r].status]
        <3>1. CASE r = m
            <4>1. taskContexts'[m] = [task |-> run.task, status |-> "running"] /\ taskRuns'[m].task = run.task
                BY <1>2, <1>7, <3>1
            <4>2. taskContexts'[m].status = "running"
                BY <4>1
            <4> QED BY <3>1, <4>1, <4>2
        <3>2. CASE r # m
            <4>1. r \in DOMAIN taskContexts /\ taskContexts'[r] = taskContexts[r] /\ taskRuns'[r] = taskRuns[r]
                BY <1>2, <1>4, <1>7, <3>2
            <4> QED BY <1>3, <4>1 DEF ContextsFit
        <3> QED BY <3>1, <3>2
    <2>3. taskCalls' \subseteq DOMAIN taskContexts'
        BY <1>3, <1>7 DEF ContextsFit
    <2>4. ASSUME NEW r \in taskCalls' PROVE taskRuns'[r].status = "running"
        <3>1. CASE r = m
            BY <1>2, <3>1
        <3>2. CASE r # m
            <4>1. r \in taskCalls /\ r \in DOMAIN taskRuns
                BY <1>3, <1>4, <1>7, <3>2 DEF ContextsFit
            <4> QED BY <1>2, <1>3, <4>1 DEF ContextsFit
        <3> QED BY <3>1, <3>2
    <2> QED BY <2>1, <2>2, <2>3, <2>4 DEF ContextsFit
<1>9. QuestionsFit(taskRuns', taskContexts', retryQuestions', written')
    <2>1. \A d \in retryQuestions : d.task \notin written =>
             /\ d.run \in DOMAIN taskRuns' /\ taskRuns'[d.run].status = "awaiting_decision" /\ taskRuns'[d.run].task = d.task
        BY <1>1, <1>2, <1>3 DEF QuestionsFit
    <2>2. \A r \in DOMAIN taskRuns' : taskRuns'[r].status = "awaiting_decision" /\ taskRuns'[r].task \notin written =>
             /\ [task |-> taskRuns'[r].task, run |-> r] \in retryQuestions
             /\ r \in DOMAIN taskContexts' /\ taskContexts'[r].status = "awaiting_decision"
        BY <1>1, <1>2, <1>3, <1>7 DEF QuestionsFit
    <2> QED BY <1>3, <2>1, <2>2 DEF QuestionsFit
<1> QED
    BY <1>8, <1>9

\* An edit opens a run only where none is open and its task is the last that is not over.
LEMMA EditOpensRunKeeps ==
    ASSUME CycleInv, EditOpensRun
    PROVE  CycleInv'
<1>1. PICK t \in IdsOf(taskLists[OuterList]) :
         /\ {i \in DOMAIN taskLists[OuterList] : taskLists[OuterList][i].status \notin overStatus}
              = {i \in DOMAIN taskLists[OuterList] : taskLists[OuterList][i].id = t}
         /\ taskRuns' = Append(taskRuns, NewLoopRun(t, OuterList, <<>>))
         /\ taskLists' = WithStatus(t, "running")
    BY DEF EditOpensRun
<1>2. OpenIn(taskRuns) = {} /\ OuterList \in DOMAIN taskLists
    BY OfTheLists DEF EditOpensRun
<1>3. UNCHANGED <<cycle, taskContexts, taskCalls, retryQuestions, written>>
    BY DEF EditOpensRun
<1>4. PICK i \in DOMAIN taskLists[OuterList] : taskLists[OuterList][i].id = t
    BY <1>1 DEF IdsOf
<1> DEFINE run == NewLoopRun(t, OuterList, <<>>)
<1>5. /\ run.task = t /\ run.list = OuterList /\ run.ancestry = <<>> /\ run.status = "running" /\ run \in LoopRun
    <2>1. t \in 0 .. MaxTaskId
        <3>1. taskLists[OuterList][i] \in PlannedTask
            BY <1>2 DEF CycleInv, ListsFit, PlannedLists
        <3> QED BY <1>4, <3>1 DEF PlannedTask
    <2>2. OuterList \in ListKeys /\ <<>> \in Seq(PlaceAbove) /\ EntryStage \in EntryStage .. LastStage
        BY EmptySeq DEF ListKeys, EntryStage, LastStage
    <2> QED BY <2>1, <2>2 DEF NewLoopRun, LoopRun
<1>6. /\ ListsFit(taskLists') /\ SameTasks(taskLists, taskLists') /\ RunsFit(taskLists', taskRuns, cycle, written)
      /\ \A l \in DOMAIN taskLists : \A j \in DOMAIN taskLists[l] :
            taskLists'[l][j].status = IF taskLists[l][j].id = t THEN "running" ELSE taskLists[l][j].status
    BY <1>1, TaskIsToRun
<1>7. /\ OuterList \in DOMAIN taskLists' /\ i \in DOMAIN taskLists'[OuterList]
      /\ taskLists'[OuterList][i].id = t /\ taskLists'[OuterList][i].status = "running"
    BY <1>2, <1>4, <1>6 DEF SameTasks
<1>8. AncestryIn(taskLists', OuterList) = <<>>
    <2>1. PICK up : /\ \A list : AncestryIn(taskLists', list) = up[MaxTaskId + 1][list]
                    /\ \A n \in 1 .. (MaxTaskId + 1) : up[n] = StepUp(taskLists', up[n - 1])
        BY AncestryTakesSteps
    <2>2. up[MaxTaskId + 1] = StepUp(taskLists', up[(MaxTaskId + 1) - 1])
        BY <2>1, TaskPlansAssumption
    <2>3. OuterList \in ListKeys
        BY DEF ListKeys
    <2> QED BY <2>1, <2>2, <2>3 DEF StepUp
<1>9. \A j \in DOMAIN taskLists'[OuterList] : taskLists'[OuterList][j].status # "pending"
    <2> SUFFICES ASSUME NEW j \in DOMAIN taskLists[OuterList] PROVE taskLists'[OuterList][j].status # "pending"
        BY <1>2, <1>6 DEF SameTasks
    <2>1. CASE taskLists[OuterList][j].id = t
        BY <1>2, <1>6, <2>1
    <2>2. CASE taskLists[OuterList][j].id # t
        <3>1. taskLists[OuterList][j].status \in overStatus
            BY <1>1, <2>2
        <3> QED BY <1>2, <1>6, <2>2, <3>1 DEF overStatus
    <2> QED BY <2>1, <2>2
<1>10. Cardinality({r \in OpenIn(taskRuns) : taskRuns[r].list = run.list}) < MostIn(cycle, run.list)
    <2> DEFINE A == {r \in OpenIn(taskRuns) : taskRuns[r].list = run.list}
    <2>1. A = {}
        BY <1>2
    <2>2. MostIn(cycle, run.list) \in Nat /\ MostIn(cycle, run.list) > 0
        BY CyclesAssumption DEF MostIn, DispatchIn, CycleInv
    <2> HIDE DEF A, run
    <2>3. Cardinality(A) = 0
        BY <2>1, FS_EmptySet
    <2>4. Cardinality(A) < MostIn(cycle, run.list)
        BY <2>2, <2>3
    <2> QED BY <2>4 DEF A
<1>11. cycle \in Cycles
    BY DEF CycleInv
<1> HIDE DEF run
<1>12. RunsFit(taskLists', Append(taskRuns, run), cycle, written)
    BY <1>2, <1>5, <1>6, <1>7, <1>8, <1>9, <1>10, <1>11, RunAddedFits
<1>13. /\ ContextsFit(taskRuns', taskContexts', taskCalls')
       /\ QuestionsFit(taskRuns', taskContexts', retryQuestions', written')
    BY <1>1, <1>3, <1>5, OpenedRunFits DEF run
<1> QED
    BY <1>1, <1>3, <1>6, <1>11, <1>12, <1>13 DEF CycleInv, run

\* What admission asks of a list and of the runs there are.
LEMMA AdmissionHolds ==
    ASSUME CycleInv, NEW l \in DOMAIN taskLists, NEW i \in DOMAIN taskLists[l], CycleAdmits(l, i)
    PROVE  /\ Cardinality({r \in OpenIn(taskRuns) : taskRuns[r].list = l}) < MostIn(cycle, l)
           /\ DispatchIn(cycle, l).strategy # "serial" =>
                \A r \in OpenIn(taskRuns) :
                   ~ scopesIntersecting(TaskIn(taskLists, taskRuns[r].task).scope, taskLists[l][i].scope)
           /\ DispatchIn(cycle, l).strategy = "serial_with_overlap" =>
                \A j \in DOMAIN taskLists[l] :
                   j < i /\ taskLists[l][j].status = "pending" => taskLists[l][j].id \in written
<1>0. CycleRuns(l) = {r \in OpenIn(taskRuns) : taskRuns[r].list = l}
    BY OfTheLists DEF CycleRuns
<1>1. DOMAIN taskLists[l] = 1 .. Len(taskLists[l]) /\ Len(taskLists[l]) \in Nat
    <2>1. taskLists[l] \in Seq(PlannedTask)
        BY DEF CycleInv, ListsFit, PlannedLists
    <2> QED BY <2>1
<1>2. CASE DispatchIn(cycle, l).strategy = "serial"
    <2>1. CycleRuns(l) = {}
        BY <1>2, OfTheLists DEF CycleAdmits, SerialAdmitsNext
    <2>2. Cardinality(CycleRuns(l)) = 0 /\ MostIn(cycle, l) = 1
        BY <1>2, <2>1, FS_EmptySet DEF MostIn
    <2>3. Cardinality(CycleRuns(l)) < MostIn(cycle, l)
        BY <2>2
    <2> QED BY <1>0, <1>2, <2>3
<1>3. CASE DispatchIn(cycle, l).strategy # "serial"
    <2>1. /\ Cardinality(CycleRuns(l)) < MostIn(cycle, l)
          /\ ~ OverlapsSomeRun(l, i)
          /\ DispatchIn(cycle, l).strategy = "parallel" \/ OverlapAdmits(l, i)
        BY <1>3, OfTheLists DEF CycleAdmits, MostIn
    <2>2. ASSUME NEW r \in OpenIn(taskRuns)
          PROVE  ~ scopesIntersecting(TaskIn(taskLists, taskRuns[r].task).scope, taskLists[l][i].scope)
        <3>1. ListsWith(taskRuns[r].task) # {}
            <4>1. WithIn(taskLists, taskRuns[r].task) # {}
                BY DEF CycleInv, RunsFit, PlacesKept, PlaceKept, WithIn
            <4> QED BY <4>1, OfTheLists
        <3>2. ~ scopesIntersecting(taskLists[l][i].scope, TaskIn(taskLists, taskRuns[r].task).scope)
            BY <2>1, <3>1, OfTheLists DEF OverlapsSomeRun
        <3> QED BY <3>2 DEF scopesIntersecting
    <2>3. ASSUME DispatchIn(cycle, l).strategy = "serial_with_overlap", NEW j \in DOMAIN taskLists[l],
                 j < i, taskLists[l][j].status = "pending"
          PROVE  taskLists[l][j].id \in written
        <3>1. OverlapAdmits(l, i) /\ i # 1 /\ j \in 1 .. (i - 1)
            BY <1>1, <2>1, <2>3
        <3>2. /\ \/ taskLists[l][i - 1].status \in overStatus
                 \/ \E r \in CycleRuns(l) : taskRuns[r].task = taskLists[l][i - 1].id
              /\ \A k \in 1 .. (i - 2) : taskLists[l][k].status # "pending"
            BY <3>1 DEF OverlapAdmits
        <3>3. j = i - 1
            BY <1>1, <2>3, <3>1, <3>2
        <3>4. PICK r \in CycleRuns(l) : taskRuns[r].task = taskLists[l][j].id
            BY <2>3, <3>2, <3>3 DEF overStatus
        <3>5. OneRunPerTask(taskLists, taskRuns, written)
            BY DEF CycleInv, RunsFit
        <3> QED BY <1>0, <2>3, <3>4, <3>5 DEF OneRunPerTask
    <2> QED BY <1>0, <2>1, <2>2, <2>3
<1> QED
    BY <1>2, <1>3

\* A dispatch opens a run as admission allows.
LEMMA DispatchNewRunKeeps ==
    ASSUME CycleInv, NEW t, DispatchNewRun(t)
    PROVE  CycleInv'
<1> DEFINE m == Len(taskRuns) + 1
<1>1. PICK l \in AdmissionLists(t) :
        /\ \E i \in DOMAIN taskLists[l] : /\ taskLists[l][i].id = t
                                          /\ taskLists[l][i].status = "pending"
                                          /\ CycleAdmits(l, i)
        /\ taskRuns' = Append(taskRuns, NewLoopRun(t, l, Ancestry(l)))
    BY DEF DispatchNewRun
<1>2. PICK i \in DOMAIN taskLists[l] : taskLists[l][i].id = t /\ CycleAdmits(l, i)
    BY <1>1
<1>3. /\ OpenRunsFor(t) = {} /\ taskLists' = WithStatus(t, "running")
      /\ taskCalls' = taskCalls \union {m} /\ taskContexts' = ContextOfCall(m, t)
      /\ UNCHANGED <<cycle, retryQuestions, written>>
    BY DEF DispatchNewRun
<1>4. l \in DOMAIN taskLists
    BY DEF AdmissionLists, ListsWith
<1> DEFINE run == NewLoopRun(t, l, Ancestry(l))
<1>5. /\ run.task = t /\ run.list = l /\ run.ancestry = AncestryIn(taskLists, l) /\ run.status = "running" /\ run \in LoopRun
    <2>1. t \in 0 .. MaxTaskId
        <3>1. taskLists[l][i] \in PlannedTask
            BY <1>4 DEF CycleInv, ListsFit, PlannedLists
        <3> QED BY <1>2, <3>1 DEF PlannedTask
    <2>2. l \in ListKeys /\ Ancestry(l) = AncestryIn(taskLists, l) /\ Ancestry(l) \in Seq(PlaceAbove)
        <3>1. l \in ListKeys
            BY <1>4 DEF CycleInv, ListsFit, PlannedLists
        <3>2. AncestryIn(taskLists, l) \in Seq(PlaceAbove)
            BY <1>4, TheRootIsOuter DEF CycleInv, ListsFit
        <3>3. Ancestry(l) = AncestryIn(taskLists, l)
            BY OfTheLists
        <3> QED BY <3>1, <3>2, <3>3
    <2>3. EntryStage \in EntryStage .. LastStage
        BY DEF EntryStage, LastStage
    <2> QED BY <2>1, <2>2, <2>3 DEF NewLoopRun, LoopRun
<1>6. /\ ListsFit(taskLists') /\ SameTasks(taskLists, taskLists') /\ RunsFit(taskLists', taskRuns, cycle, written)
      /\ \A k \in DOMAIN taskLists : \A j \in DOMAIN taskLists[k] :
            taskLists'[k][j].status = IF taskLists[k][j].id = t THEN "running" ELSE taskLists[k][j].status
    BY <1>3, TaskIsToRun
<1>7. /\ l \in DOMAIN taskLists' /\ i \in DOMAIN taskLists'[l]
      /\ taskLists'[l][i].id = t /\ taskLists'[l][i].status = "running" /\ taskLists'[l][i].scope = taskLists[l][i].scope
    BY <1>2, <1>4, <1>6 DEF SameTasks
<1>8. AncestryIn(taskLists', l) = AncestryIn(taskLists, l)
    BY <1>4, <1>6, SameTasksFit DEF CycleInv
<1>9. \A r \in OpenIn(taskRuns) : taskRuns[r].task # t
    BY <1>3, OfTheLists DEF OpenRunsFor
<1>10. Cardinality({r \in OpenIn(taskRuns) : taskRuns[r].list = l}) < MostIn(cycle, l)
    BY <1>2, <1>4, AdmissionHolds
<1>11. DispatchIn(cycle, l).strategy # "serial" =>
         \A r \in OpenIn(taskRuns) : ~ scopesIntersecting(TaskIn(taskLists', taskRuns[r].task).scope, taskLists'[l][i].scope)
    <2> SUFFICES ASSUME DispatchIn(cycle, l).strategy # "serial", NEW r \in OpenIn(taskRuns)
                 PROVE  ~ scopesIntersecting(TaskIn(taskLists', taskRuns[r].task).scope, taskLists'[l][i].scope)
        OBVIOUS
    <2>1. ~ scopesIntersecting(TaskIn(taskLists, taskRuns[r].task).scope, taskLists[l][i].scope)
        BY <1>2, <1>4, AdmissionHolds
    <2>2. WithIn(taskLists, taskRuns[r].task) # {}
        BY DEF CycleInv, RunsFit, PlacesKept, PlaceKept, WithIn
    <2>3. TaskIn(taskLists', taskRuns[r].task).scope = TaskIn(taskLists, taskRuns[r].task).scope
        BY <1>6, <2>2, SameTasksFit DEF CycleInv
    <2> QED BY <1>7, <2>1, <2>3
<1>12. DispatchIn(cycle, l).strategy = "serial_with_overlap" =>
         \A j \in DOMAIN taskLists'[l] : j < i /\ taskLists'[l][j].status = "pending" => taskLists'[l][j].id \in written
    <2> SUFFICES ASSUME DispatchIn(cycle, l).strategy = "serial_with_overlap", NEW j \in DOMAIN taskLists'[l],
                        j < i, taskLists'[l][j].status = "pending"
                 PROVE  taskLists'[l][j].id \in written
        OBVIOUS
    <2>1. j \in DOMAIN taskLists[l] /\ taskLists'[l][j].id = taskLists[l][j].id
        BY <1>4, <1>6 DEF SameTasks
    <2>2. taskLists[l][j].status = "pending"
        BY <1>4, <1>6, <2>1
    <2> QED BY <1>2, <1>4, <2>1, <2>2, AdmissionHolds
<1>13. cycle \in Cycles
    BY DEF CycleInv
<1>14. /\ ContextsFit(taskRuns', taskContexts', taskCalls')
       /\ QuestionsFit(taskRuns', taskContexts', retryQuestions', written')
    BY <1>1, <1>3, <1>5, OpenedRunFits DEF run, m
<1> HIDE DEF run
<1>15. RunsFit(taskLists', Append(taskRuns, run), cycle, written)
    BY <1>5, <1>6, <1>7, <1>8, <1>9, <1>10, <1>11, <1>12, <1>13, RunAddedFits
<1> QED
    BY <1>1, <1>3, <1>6, <1>13, <1>14, <1>15 DEF CycleInv, run

-----------------------------------------------------------------------------
(* What the invariant says of the session.                                 *)
LEMMA SomeTaskGoesOn ==
    ASSUME CycleInv
    PROVE  SomethingIsAdmissible
<1> SUFFICES ASSUME NEW l \in DOMAIN taskLists,
                    {i \in DOMAIN taskLists[l] : taskLists[l][i].status = "pending"} # {},
                    \A i \in DOMAIN taskLists[l] :
                       taskLists[l][i].status # "running" /\ OpenRunsFor(taskLists[l][i].id) = {}
             PROVE  \E i \in {i \in DOMAIN taskLists[l] : taskLists[l][i].status = "pending"} :
                       \/ CycleAdmits(l, i)
                       \/ DispatchOf(l).strategy # "serial" /\ OverlapsSomeRun(l, i)
    BY DEF SomethingIsAdmissible
<1> DEFINE waiting == {i \in DOMAIN taskLists[l] : taskLists[l][i].status = "pending"}
<1>1. /\ DOMAIN taskLists[l] = 1 .. Len(taskLists[l]) /\ Len(taskLists[l]) \in Nat
      /\ \A j \in DOMAIN taskLists[l] : taskLists[l][j].status \in anyStatus
    <2>1. taskLists[l] \in Seq(PlannedTask)
        BY DEF CycleInv, ListsFit, PlannedLists
    <2>2. \A j \in DOMAIN taskLists[l] : taskLists[l][j] \in PlannedTask
        BY <2>1
    <2> QED BY <2>1, <2>2 DEF PlannedTask
<1>2. PICK i \in waiting : \A j \in waiting : i <= j
    <2>1. waiting \in SUBSET Nat
        BY <1>1
    <2> QED BY <2>1, LeastNumber
<1>3. \A j \in 1 .. (i - 1) : taskLists[l][j].status \in overStatus
    <2> SUFFICES ASSUME NEW j \in 1 .. (i - 1) PROVE taskLists[l][j].status \in overStatus
        OBVIOUS
    <2>1. j \in DOMAIN taskLists[l] /\ ~ (i <= j)
        BY <1>1, <1>2
    <2>2. taskLists[l][j].status # "pending"
        BY <1>2, <2>1
    <2> QED BY <1>1, <2>1, <2>2 DEF anyStatus
<1>4. CycleRuns(l) = {}
    <2> SUFFICES ASSUME NEW r \in OpenIn(taskRuns), taskRuns[r].list = l PROVE FALSE
        BY OfTheLists DEF CycleRuns
    <2>1. PlaceKept(taskLists, taskRuns[r])
        BY DEF CycleInv, RunsFit, PlacesKept
    <2>2. PICK j \in DOMAIN taskLists[l] : taskLists[l][j].id = taskRuns[r].task
        BY <2>1 DEF PlaceKept
    <2>3. r \in OpenRunsFor(taskLists[l][j].id)
        BY <2>2, OfTheLists DEF OpenRunsFor
    <2> QED BY <2>3
<1>5. DispatchOf(l).max \in Nat /\ DispatchOf(l).max > 0
    /\ DispatchOf(l).strategy \in {"serial", "serial_with_overlap", "parallel"}
    BY CyclesAssumption DEF CycleInv, DispatchOf
<1>6. CASE DispatchOf(l).strategy = "serial"
    <2>1. CycleAdmits(l, i)
        BY <1>3, <1>4, <1>6 DEF CycleAdmits, SerialAdmitsNext
    <2> QED BY <1>2, <2>1
<1>7. CASE DispatchOf(l).strategy # "serial" /\ ~ OverlapsSomeRun(l, i)
    <2>1. Cardinality(CycleRuns(l)) < DispatchOf(l).max
        <3>1. Cardinality(CycleRuns(l)) = 0
            BY <1>4, FS_EmptySet
        <3> QED BY <1>5, <3>1
    <2>2. OverlapAdmits(l, i)
        <3>1. CASE i = 1
            BY <1>4, <3>1 DEF OverlapAdmits
        <3>2. CASE i # 1
            <4>1. i - 1 \in 1 .. (i - 1) /\ \A j \in 1 .. (i - 2) : j \in 1 .. (i - 1)
                BY <1>1, <1>2, <3>2
            <4>2. taskLists[l][i - 1].status \in overStatus /\ \A j \in 1 .. (i - 2) : taskLists[l][j].status # "pending"
                BY <1>3, <4>1 DEF overStatus
            <4> QED BY <3>2, <4>2 DEF OverlapAdmits
        <3> QED BY <3>1, <3>2
    <2>3. CycleAdmits(l, i)
        BY <1>7, <2>1, <2>2 DEF CycleAdmits
    <2> QED BY <1>2, <2>3
<1>8. CASE DispatchOf(l).strategy # "serial" /\ OverlapsSomeRun(l, i)
    BY <1>2, <1>8
<1> QED
    BY <1>6, <1>7, <1>8

\* The parts of the property, each from the parts of the invariant it is made of.
LEMMA CyclesAgree ==
    ASSUME CycleInv
    PROVE  ListsAndRunsAgree
<1>0. /\ ListsFit(taskLists) /\ RunsFit(taskLists, taskRuns, cycle, written)
      /\ ContextsFit(taskRuns, taskContexts, taskCalls) /\ QuestionsFit(taskRuns, taskContexts, retryQuestions, written)
    BY DEF CycleInv
<1>1. OpenRunsAreApart
    <2>1. \A l \in DOMAIN taskLists :
             Cardinality({r \in OpenLoopRuns : taskRuns[r].list = l})
               <= IF DispatchOf(l).strategy = "serial" THEN 1 ELSE DispatchOf(l).max
        BY <1>0, OfTheLists, Zenon DEF RunsFit, NotTooMany, MostIn
    <2>2. \A r, s \in OpenLoopRuns :
             r < s /\ DispatchOf(taskRuns[s].list).strategy # "serial" =>
               ~ scopesIntersecting(TaskNamed(taskRuns[r].task).scope, TaskNamed(taskRuns[s].task).scope)
        BY <1>0, OfTheLists, Zenon DEF RunsFit, ScopesApart
    <2> QED BY <2>1, <2>2 DEF OpenRunsAreApart
<1>2. RunsKeepTheirPlace
    <2> SUFFICES ASSUME NEW r \in OpenIn(taskRuns)
                 PROVE  /\ taskRuns[r].list \in DOMAIN taskLists /\ taskRuns[r].task \in IdsOf(taskLists[taskRuns[r].list])
                        /\ taskRuns[r].ancestry = Ancestry(taskRuns[r].list)
                        /\ taskRuns[r].list # OuterList =>
                             taskRuns[r].ancestry # <<>> /\ taskRuns[r].ancestry[1].list = OuterList
        BY OfTheLists, Zenon DEF RunsKeepTheirPlace
    <2>1. PlaceKept(taskLists, taskRuns[r])
        BY <1>0 DEF RunsFit, PlacesKept
    <2>2. Ancestry(taskRuns[r].list) = AncestryIn(taskLists, taskRuns[r].list)
        BY OfTheLists
    <2> QED BY <2>1, <2>2 DEF PlaceKept, IdsOf
<1>3. SomethingIsAdmissible
    BY SomeTaskGoesOn
<1>4. OverlapKeepsOrder
    BY <1>0, OfTheLists, Zenon DEF RunsFit, OrderKept, OverlapKeepsOrder
<1>5. SavesAreAccepted
    <2> SUFFICES ASSUME NEW r \in DOMAIN taskContexts PROVE taskContexts[r].task = taskRuns[r].task
        BY DEF SavesAreAccepted
    <2>1. taskContexts[r] = [task |-> taskRuns[r].task, status |-> taskContexts[r].status]
        BY <1>0 DEF ContextsFit
    <2>2. [task |-> taskRuns[r].task, status |-> taskContexts[r].status].task = taskRuns[r].task
        OBVIOUS
    <2> QED BY <2>1, <2>2, Zenon
<1>6. DecisionsFindTheirRun
    <2> SUFFICES ASSUME NEW r \in DOMAIN taskRuns, taskRuns[r].status = "awaiting_decision", taskRuns[r].task \notin written
                 PROVE  \E d \in retryQuestions : d.run = r /\ Decidable(d)
        BY DEF DecisionsFindTheirRun
    <2> DEFINE d == [task |-> taskRuns[r].task, run |-> r]
    <2>1. d \in retryQuestions /\ r \in DOMAIN taskContexts /\ taskContexts[r].status = "awaiting_decision"
        BY <1>0 DEF QuestionsFit
    <2>2. d.run = r /\ d.task = taskRuns[r].task
        OBVIOUS
    <2>3. taskContexts[r] = [task |-> d.task, status |-> "awaiting_decision"]
        BY <1>0, <2>1 DEF ContextsFit
    <2>4. ListsWith(d.task) # {}
        <3>1. r \in OpenIn(taskRuns)
            BY DEF OpenIn
        <3>2. WithIn(taskLists, taskRuns[r].task) # {}
            BY <1>0, <3>1 DEF RunsFit, PlacesKept, PlaceKept, WithIn
        <3> QED BY <2>2, <3>2, OfTheLists
    <2> HIDE DEF d
    <2>5. Decidable(d)
        BY <2>1, <2>2, <2>3, <2>4 DEF Decidable
    <2> QED BY <2>1, <2>2, <2>5
<1> QED
    BY <1>1, <1>2, <1>3, <1>4, <1>5, <1>6 DEF ListsAndRunsAgree

\* Every step keeps the invariant.
LEMMA CyclesGoOn ==
    ASSUME CycleInv, [CycleNext]_cycleVars
    PROVE  CycleInv'
<1>1. ASSUME NEW l \in ListKeys, NEW scopes \in TaskPlans, SetTaskList(l, scopes) PROVE CycleInv'
    BY <1>1, SetTaskListKeeps
<1>2. ASSUME NEW t \in 0 .. MaxTaskId, NEW status \in anyStatus, WriteStatus(t, status) PROVE CycleInv'
    BY <1>2, WriteStatusKeeps
<1>3. ASSUME NEW t \in 0 .. MaxTaskId, DispatchNewRun(t) PROVE CycleInv'
    BY <1>3, DispatchNewRunKeeps
<1>4. ASSUME NEW t \in 0 .. MaxTaskId, DispatchOpenRun(t) PROVE CycleInv'
    BY <1>4, DispatchOpenRunKeeps
<1>5. ASSUME EditOpensRun PROVE CycleInv'
    BY <1>5, EditOpensRunKeeps
<1>6. ASSUME NEW r \in taskCalls, MoveOn(r) PROVE CycleInv'
    BY <1>6, MoveOnKeeps
<1>7. ASSUME NEW r \in taskCalls, CallEnds(r) PROVE CycleInv'
    BY <1>7, CallEndsKeeps
<1>8. ASSUME NEW r \in taskCalls, NEW spent \in BOOLEAN, SendBack(r, spent) PROVE CycleInv'
    BY <1>8, SendBackKeeps
<1>9. ASSUME NEW d \in retryQuestions, NEW answer \in {"increase", "cancelled"}, ResolveDecision(d, answer) PROVE CycleInv'
    BY <1>9, ResolveDecisionKeeps
<1>10. ASSUME UNCHANGED cycleVars PROVE CycleInv'
    BY <1>10, Zenon DEF CycleInv, cycleVars
<1> QED
    BY <1>1, <1>2, <1>3, <1>4, <1>5, <1>6, <1>7, <1>8, <1>9, <1>10 DEF CycleNext

\* Lists, runs, contexts and decisions of a session agree with one another at all times
\* (task-api.ts, task-admission.ts, session/helpers.ts, workflow-tool-surface.ts): no list
\* has more runs open than its loop admits, runs keep their place and write apart, a context
\* names the task of its run, a run that waits has its question, and in a list of which
\* nothing is under way some pending task can go on.
THEOREM ListsAndRunsAlwaysAgree == CycleSpec => []ListsAndRunsAgree
<1>1. CycleInit => CycleInv
    BY CyclesBegin
<1>2. CycleInv /\ [CycleNext]_cycleVars => CycleInv'
    BY CyclesGoOn
<1>3. CycleInv => ListsAndRunsAgree
    BY CyclesAgree
<1> QED
    BY <1>1, <1>2, <1>3, PTL DEF CycleSpec
=============================================================================
