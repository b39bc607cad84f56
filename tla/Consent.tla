------------------------------ MODULE Consent ------------------------------
(***************************************************************************)
(* Consent of the operator (src/app/consent-orchestrator.ts, consent.ts,   *)
(* src/domain/approvals.ts): a question that carries a consent request     *)
(* leaves a pending approval over the documents it names; the answer turns *)
(* it into a granted one if those documents still are what they were.      *)
(*                                                                         *)
(* The documents are read before the question's transaction waits for the  *)
(* session, and they are edited at any time.  A transaction is one step    *)
(* (SessionExecutor) and may be refused its save, which leaves no trace.   *)
(* A document is [text, blanks]; a digest is what it is taken of.          *)
(***************************************************************************)
EXTENDS Naturals, Sequences, FiniteSets, SequencesExt

CONSTANTS
    Document,     \* the files a manifest may name
    Content,      \* what they may hold
    FirstContent, \* what all of them hold at first
    Question,     \* the calls of the question tool
    RequestOf,    \* per call: [asText, type, files, grant, decline]
    PlanDocument, \* documents named .../plan.md
    Answers,      \* what an operator may answer: sequences of texts
    AutoApprove,  \* HARNESS_AUTO_APPROVE
    MaxEdits,     \* bound: edits of documents
    MaxRefusals,  \* bound: saves refused
    MaxAsked      \* bound: questions shown

ASSUME ConsentAssumption ==
    /\ \A q \in Question : ToSet(RequestOf[q].files) \subseteq Document
    /\ AutoApprove \in BOOLEAN /\ FirstContent \in Content
    /\ MaxEdits \in Nat /\ MaxRefusals \in Nat /\ MaxAsked \in Nat

VARIABLES
    documents,     \* what is on disk: content, or Missing
    approvals,     \* session.approvals
    refs,          \* session.refs: per type the document asked about
    consentedCalls,\* session.consentedCallIDs
    question,      \* per call: where it is and the evidence it has read
    consentBounds, \* edits and refused saves so far
    decisions      \* history: per call what the operator answered while it was
                   \* open, and what its documents said at that time

consentVars == <<documents, approvals, refs, consentedCalls, question,
                 consentBounds, decisions>>

Missing == [text |-> "missing", blanks |-> 0]
Undecided == [answer |-> <<>>, texts |-> <<>>]
Types == {RequestOf[q].type : q \in Question}

-----------------------------------------------------------------------------
(* Pure parts.                                                             *)
\* Line ends, trailing blanks and a byte order mark do not count.
canonicalizePlan(content) == content.text

\* Mutant: only the first document is hashed.
FirstDocumentEvidence(files) ==
    << <<files[1], canonicalizePlan(documents[files[1]])>> >>

calculateDocumentSetEvidence(files) ==
    [i \in DOMAIN files |-> <<files[i], canonicalizePlan(documents[files[i]])>>]

\* The tag workflow-consent hands out repeats the list of files as it was
\* given: a list given as text is read, but no parser takes its tag.
parseConsentRequest(q) == ~ RequestOf[q].asText

consentTypeOf(q) == RequestOf[q].type

\* Mutant: the label of a grant is looked for first.
GrantFirst(answer, q) ==
    CASE Len(answer) # 1 -> "unrecognized"
      [] Len(answer) = 1 /\ IsPrefix(RequestOf[q].grant, answer[1]) -> "grant"
      [] OTHER -> "decline"

classifyConsentAnswer(answer, q) ==
    CASE Len(answer) # 1 -> "unrecognized"
      [] Len(answer) = 1 /\ IsPrefix(RequestOf[q].decline, answer[1]) -> "decline"
      [] Len(answer) = 1 /\ ~ IsPrefix(RequestOf[q].decline, answer[1])
           /\ IsPrefix(RequestOf[q].grant, answer[1]) -> "grant"
      [] OTHER -> "unrecognized"

-----------------------------------------------------------------------------
ConsentInit ==
    /\ documents = [d \in Document |-> FirstContent]
    /\ approvals = {}
    /\ refs = [t \in Types |-> "none"]
    /\ consentedCalls = {}
    /\ question = [q \in Question |-> [at |-> "new", evidence |-> <<>>]]
    /\ consentBounds = [edits |-> 0, refusals |-> 0, asked |-> 0]
    /\ decisions = [q \in Question |-> Undecided]

OfType(type) == {a \in approvals : a.type = type}
Open(q) == {a \in approvals : a.call = q /\ a.status = "pending"}

\* Mutant: a pending approval is found by its type.
OpenOfType(q) ==
    {a \in approvals : a.type = RequestOf[q].type /\ a.status = "pending"}

\* findOpenApproval
findOpenApproval(q) == Open(q)

Approval(q, status, evidence) ==
    [type |-> consentTypeOf(q), call |-> q, status |-> status,
     evidence |-> evidence, files |-> RequestOf[q].files]

TextsOf(q) == [i \in DOMAIN RequestOf[q].files |-> documents[RequestOf[q].files[i]].text]

PrimaryDocument(q) ==
    LET files == RequestOf[q].files
        plans == SelectSeq(files, LAMBDA d : d \in PlanDocument)
    IN  Head(plans \o files)

Readable(q) == \A i \in DOMAIN RequestOf[q].files : documents[RequestOf[q].files[i]] # Missing

(* workflow-consent: the tag is made of the request and its digest; the    *)
(* documents are read for the text of the answer alone.                    *)
Prepare(q) ==
    /\ question[q].at = "new"
    /\ Readable(q)
    /\ question' = [question EXCEPT ![q].at = "tagged"]
    /\ UNCHANGED <<documents, approvals, refs, consentedCalls, consentBounds, decisions>>

(* The question is about to be shown: its request is checked and every     *)
(* document read, outside of any transaction.  A host that answers that    *)
(* the session has no messages ends it.                                    *)
Ask(q, hasMessageContext) ==
    /\ question[q].at = "tagged"
    /\ consentBounds.asked < MaxAsked
    /\ consentBounds' = [consentBounds EXCEPT !.asked = @ + 1]
    /\ question' = [question EXCEPT ![q] =
         IF parseConsentRequest(q) /\ hasMessageContext /\ Readable(q)
         THEN [at |-> "read",
               evidence |-> calculateDocumentSetEvidence(RequestOf[q].files)]
         ELSE [at |-> "shown", evidence |-> <<>>]]
    /\ UNCHANGED <<documents, approvals, refs, consentedCalls, decisions>>

\* Mutant: only a plan is asked for again.
OtherThanPlan(type) == {a \in approvals : a.type # "plan" \/ type # "plan"}

\* Asking again withdraws what was decided before.
Withdrawn(type) == approvals \ OfType(type)

Record(q) ==
    /\ question[q].at = "read"
    /\ question' = [question EXCEPT ![q] = [at |-> "shown", evidence |-> <<>>]]
    /\ IF q \in consentedCalls
       THEN UNCHANGED <<approvals, refs, consentedCalls>>
       ELSE /\ approvals' = Withdrawn(consentTypeOf(q)) \union
                 {Approval(q, IF AutoApprove THEN "granted" ELSE "pending",
                           question[q].evidence)}
            /\ refs' = [refs EXCEPT ![consentTypeOf(q)] = PrimaryDocument(q)]
            /\ consentedCalls' = consentedCalls \union {q}
    /\ UNCHANGED <<documents, consentBounds, decisions>>

-----------------------------------------------------------------------------
(* The answer: only the pending approval of that very call is decided, and *)
(* a grant reads the documents once more.                                  *)
verifyPlanEvidenceAtDecision(a) ==
    /\ \A i \in DOMAIN a.files : documents[a.files[i]] # Missing
    /\ calculateDocumentSetEvidence(a.files) = a.evidence

Decide(q, answer, a) ==
    CASE classifyConsentAnswer(answer, q) # "grant" ->
           /\ approvals' = approvals \ {a}
           /\ UNCHANGED refs
      [] classifyConsentAnswer(answer, q) = "grant"
           /\ ~ verifyPlanEvidenceAtDecision(a) ->
           /\ approvals' = approvals \ {a}
           /\ refs' = [refs EXCEPT ![a.type] = "none"]
      [] OTHER ->
           \* approve: one record of a type, which keeps its files
           /\ approvals' = (approvals \ OfType(a.type)) \union
                              {[a EXCEPT !.status = "granted", !.call = q]}
           /\ UNCHANGED refs

Answer(q, answer) ==
    /\ question[q].at = "shown"
    /\ question' = [question EXCEPT ![q].at = "answered"]
    /\ decisions' = [decisions EXCEPT ![q] =
         IF Open(q) = {} THEN @ ELSE [answer |-> answer, texts |-> TextsOf(q)]]
    /\ IF findOpenApproval(q) = {} THEN UNCHANGED <<approvals, refs>>
       ELSE Decide(q, answer, CHOOSE a \in findOpenApproval(q) : TRUE)
    /\ UNCHANGED <<documents, consentedCalls, consentBounds>>

(* The hook before or after the question is refused its save; the hook     *)
(* before then fails the call, so that the question is not shown.          *)
SaveRefused(q) ==
    /\ question[q].at \in {"read", "shown"}
    /\ consentBounds.refusals < MaxRefusals
    /\ consentBounds' = [consentBounds EXCEPT !.refusals = @ + 1]
    /\ question' = [question EXCEPT ![q] = [at |-> "answered", evidence |-> <<>>]]
    /\ UNCHANGED <<documents, approvals, refs, consentedCalls, decisions>>

\* The host shows the same call again.
AskAgain(q) ==
    /\ question[q].at = "answered" /\ q \in consentedCalls
    /\ question' = [question EXCEPT ![q].at = "tagged"]
    /\ UNCHANGED <<documents, approvals, refs, consentedCalls, consentBounds, decisions>>

Edit(d, content) ==
    /\ consentBounds.edits < MaxEdits
    /\ content # documents[d]
    /\ documents' = [documents EXCEPT ![d] = content]
    /\ consentBounds' = [consentBounds EXCEPT !.edits = @ + 1]
    /\ UNCHANGED <<approvals, refs, consentedCalls, question, decisions>>

ConsentNext ==
    \/ \E q \in Question :
          \/ Prepare(q) \/ \E known \in BOOLEAN : Ask(q, known)
          \/ Record(q) \/ SaveRefused(q) \/ AskAgain(q)
          \/ \E answer \in Answers : Answer(q, answer)
    \/ \E d \in Document, content \in Content \union {Missing} : Edit(d, content)

ConsentSpec == ConsentInit /\ [][ConsentNext]_consentVars

-----------------------------------------------------------------------------
(* No type has two approvals, and one that is being asked for has no       *)
(* standing grant: "approved" never speaks of an earlier document.         *)
OneApprovalPerType ==
    \A a, b \in approvals : a.type = b.type => a = b

(* What is granted was granted by the operator: in answer to the question  *)
(* it names, which asked for that type, by a text that is no refusal, when *)
(* every document of the manifest was what it had been when the question   *)
(* was put.                                                                *)
GrantIsTheOperators ==
    ~ AutoApprove =>
    \A a \in {b \in approvals : b.status = "granted"} :
       LET d == decisions[a.call]
       IN /\ d # Undecided
          /\ RequestOf[a.call].type = a.type
          /\ Len(d.answer) = 1
          /\ ~ IsPrefix(RequestOf[a.call].decline, d.answer[1])
          /\ IsPrefix(RequestOf[a.call].grant, d.answer[1])
          /\ LET files == RequestOf[a.call].files
             IN  a.evidence = [i \in DOMAIN files |-> <<files[i], d.texts[i]>>]

(* An approval stands for what the operator was shown and said last: one   *)
(* for a type, and granted only by his answer about the documents as they  *)
(* were.                                                                   *)
ConsentIsOfWhatWasShown == OneApprovalPerType /\ GrantIsTheOperators
=============================================================================
