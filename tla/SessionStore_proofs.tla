------------------------ MODULE SessionStore_proofs ------------------------
(***************************************************************************)
(* What holds of WorkflowStore for any number of instances and calls.      *)
(***************************************************************************)
EXTENDS SessionStore, TLAPS

USE HostOfAssumption

\* Settling a call keeps the bookkeeping well typed.
LEMMA SettleType ==
    ASSUME TypeOK, NEW c \in Call, NEW outcome \in Settled, Settle(c, outcome)
    PROVE  /\ tail' \in [Host -> Call \cup {NoCall}]
           /\ rev' \in [Call -> Nat]
           /\ pc' \in [Call -> PC]
  BY DEF TypeOK, Settle, Settled, PC, Content, IsSave

LEMMA TypeInit == Init => TypeOK
  <1> SUFFICES ASSUME Init PROVE TypeOK
    OBVIOUS
  <1>1. kind \in [Call -> AllKinds]
    BY KindsAssumption DEF Init
  <1>2. Absent \in Content /\ NoLock \in LockFile
    BY DEF Absent, NoLock, Content, LockFile
  <1>3. QED
    BY <1>1, <1>2 DEF Init, TypeOK, Absent, PC

\* Every action keeps the types, one step per action.
LEMMA TypeStep == TypeOK /\ [Next]_vars => TypeOK'
  <1> SUFFICES ASSUME TypeOK, [Next]_vars PROVE TypeOK'
    OBVIOUS
  <1> USE DEF TypeOK
  <1>1. ASSUME NEW c \in Call, Load(c) PROVE TypeOK'
    BY <1>1 DEF Load, Goto, Content, PC
  <1>2. ASSUME NEW c \in Call, Save(c) PROVE TypeOK'
    BY <1>2 DEF Save, Goto, Enqueue, PC
  <1>3. ASSUME NEW c \in Call, SaveInvalid(c) PROVE TypeOK'
    BY <1>3 DEF SaveInvalid, Goto, PC, Settled
  <1>4. ASSUME NEW c \in Call, RequestRemove(c) PROVE TypeOK'
    BY <1>4 DEF RequestRemove, Goto, Enqueue, PC
  <1>5. ASSUME NEW c \in Call, Start(c) PROVE TypeOK'
    BY <1>5 DEF Start, Goto, PC, InLoop
  <1>6. ASSUME NEW c \in Call, FailBehind(c) PROVE TypeOK'
    BY <1>6, SettleType DEF FailBehind, Settled
  <1>7. ASSUME NEW c \in Call, TryLock(c) PROVE TypeOK'
    BY <1>7 DEF TryLock, LockFile, PC, InLoop, Holding
  <1>8. ASSUME NEW c \in Call, StatLock(c) PROVE TypeOK'
    <2>1. CASE Settle(c, "failed")
      BY <1>8, <2>1, SettleType DEF StatLock, Settled
    <2>2. CASE ~ Settle(c, "failed")
      BY <1>8, <2>2 DEF StatLock, PC, InLoop
    <2>3. QED BY <2>1, <2>2
  <1>9. ASSUME NEW c \in Call, BreakLock(c) PROVE TypeOK'
    BY <1>9 DEF BreakLock, Goto, NoLock, LockFile, PC, InLoop
  <1>10. ASSUME NEW c \in Call, CheckRevision(c) PROVE TypeOK'
    BY <1>10 DEF CheckRevision, Goto, PC, Holding
  <1>11. ASSUME NEW c \in Call, Write(c) PROVE TypeOK'
    BY <1>11 DEF Write, Goto, Content, PC, Holding
  <1>12. ASSUME NEW c \in Call, Remove(c) PROVE TypeOK'
    BY <1>12 DEF Remove, Goto, Content, Absent, PC, Holding
  <1>13. ASSUME NEW c \in Call, IOFailure(c) PROVE TypeOK'
    BY <1>13 DEF IOFailure, PC, Holding
  <1>14. ASSUME NEW c \in Call, Release(c) PROVE TypeOK'
    BY <1>14, SettleType DEF Release, NoLock, LockFile, Settled
  <1>15. ASSUME NEW c \in Call, DeadlinePasses(c) PROVE TypeOK'
    BY <1>15 DEF DeadlinePasses
  <1>16. ASSUME LockAges PROVE TypeOK'
    BY <1>16 DEF LockAges, LockFile
  <1>17. ASSUME NEW h \in Host, Crash(h) PROVE TypeOK'
    BY <1>17 DEF Crash, PC
  <1>18. ASSUME UNCHANGED vars PROVE TypeOK'
    BY <1>18 DEF vars
  <1>19. QED
    BY <1>1, <1>2, <1>3, <1>4, <1>5, <1>6, <1>7, <1>8, <1>9, <1>10, <1>11,
       <1>12, <1>13, <1>14, <1>15, <1>16, <1>17, <1>18 DEF Next, Step

\* Every variable keeps the range its code representation has.
THEOREM TypeCorrect == Spec => []TypeOK
  BY TypeInit, TypeStep, PTL DEF Spec

-----------------------------------------------------------------------------
(* The revision of a session object follows the outcome of its save.       *)

\* Submitted and not yet settled.
Pending == {"queued"} \cup InLoop \cup Holding

\* What RevisionMatchesOutcome needs to be inductive: the revision while the
\* save is under way.
RevisionInv ==
    \A c \in Call : IsSave(c) =>
        /\ pc[c] \in {"loaded", "failed"} => rev[c] = base[c].rev
        /\ pc[c] \in Pending \cup {"done"} => rev[c] = base[c].rev + 1

LEMMA RevisionInit == Init => RevisionInv
  BY DEF Init, RevisionInv, Pending, InLoop, Holding

\* A step that leaves the objects alone and moves calls only inside Pending
\* (or kills them) keeps the invariant.
LEMMA RevisionKept ==
    ASSUME TypeOK, RevisionInv, UNCHANGED <<kind, base, rev>>,
           \A c \in Call : \/ pc'[c] = pc[c]
                           \/ pc'[c] = "dead"
                           \/ pc[c] \in Pending /\ pc'[c] \in Pending
                           \/ pc[c] = "loaded" /\ pc'[c] = "failed"
    PROVE  RevisionInv'
  BY DEF RevisionInv, IsSave, Pending, InLoop, Holding, TypeOK

LEMMA RevisionSettle ==
    ASSUME TypeOK, RevisionInv, NEW c \in Call, NEW outcome \in Settled,
           pc[c] \in Pending, Settle(c, outcome), UNCHANGED <<kind, base>>
    PROVE  RevisionInv'
  <1> SUFFICES ASSUME NEW d \in Call, IsSave(d)'
               PROVE  /\ pc'[d] \in {"loaded", "failed"} => rev'[d] = base[d].rev
                      /\ pc'[d] \in Pending \cup {"done"} => rev'[d] = base[d].rev + 1
    BY DEF RevisionInv
  <1>1. IsSave(d)
    BY DEF IsSave
  <1>2. CASE d = c
    BY <1>1, <1>2 DEF RevisionInv, Settle, Settled, Pending, InLoop, Holding, TypeOK
  <1>3. CASE d # c
    BY <1>1, <1>3 DEF RevisionInv, Settle, TypeOK
  <1>4. QED BY <1>2, <1>3

LEMMA RevisionStep == TypeOK /\ RevisionInv /\ [Next]_vars => RevisionInv'
  <1> SUFFICES ASSUME TypeOK, RevisionInv, [Next]_vars PROVE RevisionInv'
    OBVIOUS
  <1> USE DEF Pending, InLoop, Holding
  <1>1. ASSUME NEW c \in Call, Load(c) PROVE RevisionInv'
    BY <1>1 DEF Load, Goto, RevisionInv, IsSave, TypeOK, Content
  <1>2. ASSUME NEW c \in Call, Save(c) PROVE RevisionInv'
    BY <1>2 DEF Save, Goto, RevisionInv, IsSave, TypeOK, Content
  <1>3. ASSUME NEW c \in Call, RequestRemove(c) PROVE RevisionInv'
    BY <1>3 DEF RequestRemove, Goto, RevisionInv, IsSave, TypeOK
  <1>4. ASSUME NEW c \in Call, FailBehind(c) PROVE RevisionInv'
    BY <1>4, RevisionSettle DEF FailBehind, Settled
  <1>5. ASSUME NEW c \in Call, Release(c) PROVE RevisionInv'
    BY <1>5, RevisionSettle DEF Release, Settled
  <1>6. ASSUME NEW c \in Call, StatLock(c) PROVE RevisionInv'
    <2>1. CASE Settle(c, "failed")
      BY <1>6, <2>1, RevisionSettle DEF StatLock, Settled
    <2>2. CASE ~ Settle(c, "failed")
      BY <1>6, <2>2, RevisionKept DEF StatLock, TypeOK
    <2>3. QED BY <2>1, <2>2
  <1>7. ASSUME NEW c \in Call, SaveInvalid(c) PROVE RevisionInv'
    BY <1>7, RevisionKept DEF SaveInvalid, Goto, TypeOK
  <1>8. ASSUME NEW c \in Call,
               Start(c) \/ BreakLock(c) \/ CheckRevision(c) \/ Write(c) \/ Remove(c)
        PROVE  RevisionInv'
    BY <1>8, RevisionKept
    DEF Start, BreakLock, CheckRevision, Write, Remove, Goto, TypeOK
  <1>9. ASSUME NEW c \in Call, TryLock(c) \/ IOFailure(c) PROVE RevisionInv'
    BY <1>9, RevisionKept DEF TryLock, IOFailure, TypeOK
  <1>10. ASSUME NEW c \in Call, DeadlinePasses(c) PROVE RevisionInv'
    BY <1>10, RevisionKept DEF DeadlinePasses
  <1>11. ASSUME LockAges PROVE RevisionInv'
    BY <1>11, RevisionKept DEF LockAges
  <1>12. ASSUME NEW h \in Host, Crash(h) PROVE RevisionInv'
    BY <1>12, RevisionKept DEF Crash, TypeOK
  <1>13. ASSUME UNCHANGED vars PROVE RevisionInv'
    BY <1>13, RevisionKept DEF vars
  <1>14. QED
    BY <1>1, <1>2, <1>3, <1>4, <1>5, <1>6, <1>7, <1>8, <1>9, <1>10, <1>11,
       <1>12, <1>13 DEF Next, Step

\* The revision of an object tells its caller what became of the save, with
\* any number of crashes and however long a holder keeps the lock.
THEOREM RevisionCorrect == Spec => []RevisionMatchesOutcome
  <1>1. RevisionInv => RevisionMatchesOutcome
    BY DEF RevisionInv, RevisionMatchesOutcome
  <1>2. QED
    BY <1>1, TypeInit, TypeStep, RevisionInit, RevisionStep, PTL DEF Spec

-----------------------------------------------------------------------------
(* The lock excludes as long as no holder dies and none outlives the stale *)
(* age: the two cases in which the next caller breaks a lock.              *)

Healthy == MaxCrashes = 0 /\ ~ SlowHolders

\* The lock file exists exactly while its creator is at work, and is never
\* old enough to be broken.
LockInv ==
    /\ \A c \in Call : pc[c] \in Holding => lock = [age |-> "fresh", by |-> c]
    /\ lock # NoLock => lock.by \in Call /\ pc[lock.by] \in Holding
    /\ \A c \in Call : pc[c] \notin {"break", "dead"}
    /\ crashes = 0

LEMMA LockInit == Init => LockInv
  BY DEF Init, LockInv, Holding

LEMMA LockExcludes == LockInv => MutualExclusion
  BY DEF LockInv, MutualExclusion

\* A step that leaves the lock and every holder where they are.
LEMMA LockKept ==
    ASSUME TypeOK, LockInv, UNCHANGED <<lock, crashes>>,
           \A c \in Call : /\ pc'[c] \in Holding <=> pc[c] \in Holding
                           /\ pc'[c] \notin {"break", "dead"}
    PROVE  LockInv'
  BY DEF LockInv

LEMMA LockStep == Healthy /\ TypeOK /\ LockInv /\ [Next]_vars => LockInv'
  <1> SUFFICES ASSUME Healthy, TypeOK, LockInv, [Next]_vars PROVE LockInv'
    OBVIOUS
  <1> USE DEF Holding
  <1>0. lock = NoLock \/ lock.age = "fresh"
    BY DEF LockInv
  <1>1. ASSUME NEW c \in Call, Load(c) \/ Save(c) \/ SaveInvalid(c) \/ RequestRemove(c)
        PROVE  LockInv'
    BY <1>1, LockKept
    DEF Load, Save, SaveInvalid, RequestRemove, Goto, TypeOK, LockInv
  <1>2. ASSUME NEW c \in Call, Start(c) \/ CheckRevision(c) \/ Write(c) \/ Remove(c)
        PROVE  LockInv'
    BY <1>2, LockKept DEF Start, CheckRevision, Write, Remove, Goto, TypeOK, LockInv
  <1>3. ASSUME NEW c \in Call, FailBehind(c) PROVE LockInv'
    BY <1>3, LockKept DEF FailBehind, Settle, TypeOK, LockInv
  <1>4. ASSUME NEW c \in Call, IOFailure(c) PROVE LockInv'
    BY <1>4, LockKept DEF IOFailure, TypeOK, LockInv
  <1>5. ASSUME NEW c \in Call, TryLock(c) PROVE LockInv'
    <2>1. CASE lock = NoLock
      <3>1. \A d \in Call : pc[d] \notin Holding /\ pc[d] \notin {"break", "dead"}
        BY <2>1 DEF LockInv, NoLock
      <3>2. /\ lock' = [age |-> "fresh", by |-> c]
            /\ pc' = [pc EXCEPT ![c] = pc'[c]]
            /\ pc'[c] \in {"check", "remove"}
            /\ crashes' = crashes
        BY <1>5, <2>1 DEF TryLock, TypeOK
      <3>3. QED
        BY <3>1, <3>2 DEF LockInv, TypeOK
    <2>2. CASE lock # NoLock
      BY <1>5, <2>2, LockKept DEF TryLock, LockInv, TypeOK
    <2>3. QED BY <2>1, <2>2
  <1>6. ASSUME NEW c \in Call, StatLock(c) PROVE LockInv'
    <2>1. lock.age # "stale"
      BY <1>0 DEF NoLock
    <2>2. pc[c] = "stat" /\ UNCHANGED <<lock, crashes>>
      BY <1>6 DEF StatLock
    <2>3. /\ pc' = [pc EXCEPT ![c] = pc'[c]]
          /\ pc'[c] \in {"failed", "try"}
      BY <1>6, <2>1, <2>2 DEF StatLock, Settle, TypeOK
    <2>4. QED
      BY <2>2, <2>3, LockKept DEF TypeOK, LockInv
  <1>7. ASSUME NEW c \in Call, BreakLock(c) PROVE LockInv'
    BY <1>7 DEF BreakLock, Goto, LockInv
  <1>8. ASSUME NEW c \in Call, Release(c) PROVE LockInv'
    <2>1. \A d \in Call \ {c} : pc[d] \notin Holding
      BY <1>8 DEF Release, LockInv
    <2>2. pc' = [pc EXCEPT ![c] = pc'[c]] /\ pc'[c] \in Settled
      BY <1>8 DEF Release, Settle, Settled, TypeOK
    <2>3. QED
      BY <1>8, <2>1, <2>2 DEF Release, LockInv, TypeOK, Settled
  <1>9. ASSUME NEW c \in Call, DeadlinePasses(c) PROVE LockInv'
    BY <1>9, LockKept DEF DeadlinePasses, LockInv
  <1>10. ASSUME LockAges PROVE LockInv'
    <2>1. SlowHolders \/ ~ Live(lock.by)
      BY <1>10 DEF LockAges
    <2>2. Live(lock.by)
      BY <1>10 DEF LockAges, LockInv, NoLock, Live
    <2>3. QED BY <2>1, <2>2 DEF Healthy
  <1>11. ASSUME NEW h \in Host, Crash(h) PROVE LockInv'
    BY <1>11 DEF Crash, Healthy, LockInv
  <1>12. ASSUME UNCHANGED vars PROVE LockInv'
    BY <1>12, LockKept DEF vars, LockInv
  <1>13. QED
    BY <1>1, <1>2, <1>3, <1>4, <1>5, <1>6, <1>7, <1>8, <1>9, <1>10, <1>11,
       <1>12 DEF Next, Step

\* At most one call of any instance is under the lock file.
THEOREM LockMutualExclusion == ASSUME Healthy PROVE Spec => []MutualExclusion
  <1>1. TypeOK /\ LockInv /\ [Next]_vars => LockInv'
    BY LockStep
  <1>2. QED
    BY <1>1, TypeInit, TypeStep, LockInit, LockExcludes, PTL DEF Spec

\* Between the check of the revision and the rename, nobody else renames,
\* unlinks or archives the file.
LEMMA FileChangesUnderLock ==
    ASSUME TypeOK, [Next]_vars, file' # file
    PROVE  \E c \in Call : /\ Write(c) \/ Remove(c)
                          /\ pc[c] \in Holding /\ pc'[c] = "releaseOk"
  <1> USE DEF Holding
  <1>1. PICK c \in Call : Write(c) \/ Remove(c)
    BY DEF Next, Step, vars, Load, Save, SaveInvalid, RequestRemove, Start,
           FailBehind, TryLock, StatLock, BreakLock, CheckRevision, IOFailure,
           Release, DeadlinePasses, LockAges, Crash
  <1>2. QED
    BY <1>1 DEF Write, Remove, Goto, TypeOK

\* The comparison of the revision and the rename act as one step for every
\* instance.
THEOREM CheckAndWriteAtomic ==
    ASSUME Healthy PROVE Spec => CheckAndWriteAreOneStep
  <1>1. TypeOK /\ LockInv /\ [Next]_vars => LockInv'
    BY LockStep
  <1>2. TypeOK /\ LockInv /\ [Next]_vars
          => [\A c \in Call : pc[c] = "write" /\ pc'[c] = "write" => file' = file]_vars
    <2> SUFFICES ASSUME TypeOK, LockInv, [Next]_vars, file' # file,
                        NEW c \in Call, pc[c] = "write", pc'[c] = "write"
                 PROVE  FALSE
      OBVIOUS
    <2>1. PICK d \in Call : pc[d] \in Holding /\ pc'[d] = "releaseOk"
      BY FileChangesUnderLock
    <2>2. c = d
      BY <2>1, LockExcludes DEF MutualExclusion, Holding
    <2>3. QED BY <2>1, <2>2
  <1>3. QED
    BY <1>1, <1>2, TypeInit, TypeStep, LockInit, PTL DEF Spec, CheckAndWriteAreOneStep

-----------------------------------------------------------------------------
(* No lost update, while sessions are only saved: archive and delete reset *)
(* the revision, so a revision then no longer names one content.           *)

SavesOnly == Kinds \subseteq {"create", "update"}

\* Every object was built from a content the file had at its revision, and
\* the file has moved on only to higher revisions.
ContentInv ==
    /\ \A c \in Call : IsSave(c) /\ pc[c] # "remove"
    /\ file # Absent => file.rev > 0
    /\ \A c \in Call : /\ base[c].rev <= file.rev
                       /\ base[c].rev = file.rev => base[c] = file
                       /\ pc[c] = "write" => base[c].rev = file.rev

LEMMA ContentInit == SavesOnly /\ Init => ContentInv
  <1> SUFFICES ASSUME SavesOnly, Init PROVE ContentInv
    OBVIOUS
  <1>1. \A c \in Call : IsSave(c)
    BY DEF SavesOnly, Init, IsSave
  <1>2. QED
    BY <1>1 DEF Init, ContentInv, Absent

\* A step that touches neither the file nor the objects and sends no call to
\* its rename or its removal.
LEMMA ContentKept ==
    ASSUME TypeOK, ContentInv, UNCHANGED <<file, kind, base>>,
           \A c \in Call : pc'[c] # pc[c] => pc'[c] \notin {"write", "remove"}
    PROVE  ContentInv'
  BY DEF ContentInv, IsSave

LEMMA ContentStep ==
    TypeOK /\ RevisionInv /\ LockInv /\ ContentInv /\ [Next]_vars => ContentInv'
  <1> SUFFICES ASSUME TypeOK, RevisionInv, LockInv, ContentInv, [Next]_vars
               PROVE  ContentInv'
    OBVIOUS
  <1>1. ASSUME NEW c \in Call, Load(c) PROVE ContentInv'
    BY <1>1 DEF Load, Goto, ContentInv, IsSave, TypeOK, Content
  <1>2. ASSUME NEW c \in Call, Save(c) \/ SaveInvalid(c) PROVE ContentInv'
    BY <1>2, ContentKept DEF Save, SaveInvalid, Goto, TypeOK
  <1>3. ASSUME NEW c \in Call, RequestRemove(c) PROVE ContentInv'
    BY <1>3 DEF RequestRemove, ContentInv, IsSave
  <1>4. ASSUME NEW c \in Call, Start(c) \/ BreakLock(c) PROVE ContentInv'
    BY <1>4, ContentKept DEF Start, BreakLock, Goto, TypeOK
  <1>5. ASSUME NEW c \in Call, FailBehind(c) PROVE ContentInv'
    BY <1>5, ContentKept DEF FailBehind, Settle, TypeOK
  <1>6. ASSUME NEW c \in Call, TryLock(c) PROVE ContentInv'
    BY <1>6, ContentKept DEF TryLock, TypeOK, ContentInv
  <1>7. ASSUME NEW c \in Call, StatLock(c) PROVE ContentInv'
    BY <1>7, ContentKept DEF StatLock, Settle, TypeOK
  <1>8. ASSUME NEW c \in Call, CheckRevision(c) PROVE ContentInv'
    <2>1. CASE pc'[c] = "write"
      <3>1. base[c].rev = file.rev
        BY <1>8, <2>1 DEF CheckRevision, Goto, TypeOK, ContentInv, Absent, Content
      <3>2. QED
        BY <1>8, <2>1, <3>1 DEF CheckRevision, Goto, TypeOK, ContentInv, IsSave
    <2>2. CASE pc'[c] # "write"
      BY <1>8, <2>2, ContentKept DEF CheckRevision, Goto, TypeOK
    <2>3. QED BY <2>1, <2>2
  <1>9. ASSUME NEW c \in Call, Write(c) PROVE ContentInv'
    <2>1. file' = [rev |-> file.rev + 1, by |-> c]
      BY <1>9
      DEF Write, Goto, TypeOK, RevisionInv, ContentInv, Pending, Holding, Content
    <2>2. \A d \in Call : pc'[d] # "write"
      BY <1>9, LockExcludes DEF Write, Goto, TypeOK, MutualExclusion, Holding
    <2>3. file.rev \in Nat /\ \A d \in Call : base[d].rev \in Nat
      BY DEF TypeOK, Content
    <2>4. UNCHANGED <<kind, base>> /\ \A d \in Call : pc'[d] # "remove"
      BY <1>9 DEF Write, Goto, TypeOK, ContentInv
    <2>5. QED
      BY <2>1, <2>2, <2>3, <2>4 DEF ContentInv, IsSave
  <1>10. ASSUME NEW c \in Call, Remove(c) PROVE ContentInv'
    BY <1>10 DEF Remove, Goto, ContentInv
  <1>11. ASSUME NEW c \in Call, IOFailure(c) PROVE ContentInv'
    BY <1>11, ContentKept DEF IOFailure, TypeOK
  <1>12. ASSUME NEW c \in Call, Release(c) PROVE ContentInv'
    BY <1>12, ContentKept DEF Release, Settle, TypeOK
  <1>13. ASSUME NEW c \in Call, DeadlinePasses(c) PROVE ContentInv'
    BY <1>13, ContentKept DEF DeadlinePasses
  <1>14. ASSUME LockAges PROVE ContentInv'
    BY <1>14, ContentKept DEF LockAges
  <1>15. ASSUME NEW h \in Host, Crash(h) PROVE ContentInv'
    BY <1>15, ContentKept DEF Crash, TypeOK
  <1>16. ASSUME UNCHANGED vars PROVE ContentInv'
    BY <1>16, ContentKept DEF vars
  <1>17. QED
    BY <1>1, <1>2, <1>3, <1>4, <1>5, <1>6, <1>7, <1>8, <1>9, <1>10, <1>11,
       <1>12, <1>13, <1>14, <1>15, <1>16 DEF Next, Step

\* Whatever replaces a session file was built from the content it replaces,
\* for any number of instances and calls.
THEOREM UpdatesNotLost ==
    ASSUME Healthy, SavesOnly PROVE Spec => NoLostUpdate
  <1>1. TypeOK /\ LockInv /\ [Next]_vars => LockInv'
    BY LockStep
  <1>2. Init => ContentInv
    BY ContentInit
  <1>3. TypeOK /\ RevisionInv /\ LockInv /\ ContentInv /\ [Next]_vars
          => [file # Absent /\ file' # Absent /\ file' # file
                => base[file'.by] = file /\ file'.rev = file.rev + 1]_vars
    <2> SUFFICES ASSUME TypeOK, RevisionInv, LockInv, ContentInv, [Next]_vars,
                        file' # Absent, file' # file
                 PROVE  base[file'.by] = file /\ file'.rev = file.rev + 1
      OBVIOUS
    <2>1. PICK c \in Call : Write(c)
      BY FileChangesUnderLock DEF Remove
    <2>2. pc[c] = "write" /\ IsSave(c) /\ file' = [rev |-> rev[c], by |-> c]
      BY <2>1 DEF Write, Goto, ContentInv
    <2>3. base[c].rev = file.rev /\ base[c] = file
      BY <2>2 DEF ContentInv
    <2>4. rev[c] = base[c].rev + 1
      BY <2>2 DEF RevisionInv, Pending, Holding
    <2>5. QED BY <2>2, <2>3, <2>4
  <1>4. QED
    BY <1>1, <1>2, <1>3, TypeInit, TypeStep, RevisionInit, RevisionStep, LockInit,
       ContentStep, PTL DEF Spec, NoLostUpdate
=============================================================================
