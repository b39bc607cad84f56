---------------------------- MODULE SessionStore ----------------------------
(***************************************************************************)
(* WorkflowStore (src/session/session-store.ts): one session file shared   *)
(* by every plugin instance on the machine.  Inside an instance the calls  *)
(* on the session form a promise chain (`locks`); between instances a lock *)
(* file, created with open(path, 'wx'), is what a call must hold while it  *)
(* compares the revision it was built on with the one on disk and renames  *)
(* its payload into place.                                                 *)
(*                                                                         *)
(* A payload is abstracted to the call that wrote it: the content of a     *)
(* file is [rev, by], its revision field and its writer.  A call loads     *)
(* (or finds nothing and creates), then saves; delete and archive only     *)
(* need the name.  Time is abstracted to what the lock loop compares:      *)
(* whether the lock is older than LOCK_STALE_MS and whether the call is    *)
(* past its LOCK_TIMEOUT_MS deadline.                                      *)
(***************************************************************************)
EXTENDS Naturals, FiniteSets

CONSTANTS
    Host,         \* plugin instances, each with a WorkflowStore of its own
    Call,         \* the calls made on the session, each used once
    HostOf,       \* the instance that makes a call
    Kinds,        \* the kinds of call that may be made
    MaxCrashes,   \* bound on the number of process crashes
    SlowHolders,  \* may a live call hold the lock for longer than LOCK_STALE_MS?
    NoCall        \* null

AllKinds == {"create", "update", "delete", "archive"}

ASSUME HostOfAssumption == HostOf \in [Call -> Host]
ASSUME KindsAssumption == Kinds \subseteq AllKinds
ASSUME CrashesAssumption == MaxCrashes \in Nat
ASSUME SlowAssumption == SlowHolders \in BOOLEAN
ASSUME NoCallAssumption == NoCall \notin Call

VARIABLES
    file,     \* the session file in the runtime directory
    archived, \* the session file in archive/
    lock,     \* the lock file: its age, and (ghost) the call that created it
    tail,     \* per instance: the last promise of the chain (locks.get(key))
    prev,     \* per call: the promise it was chained on
    kind,     \* per call: what it was asked to do
    base,     \* per call: the content its session object was loaded from
    rev,      \* per call: `revision` of its session object in memory
    late,     \* per call: is it past the lock deadline?
    pc,       \* per call: where it is
    crashes   \* crashes so far

vars == <<file, archived, lock, tail, prev, kind, base, rev, late, pc, crashes>>

-----------------------------------------------------------------------------

\* No file.  createSession() starts a session at revision 0, so an object
\* that was created has the same base as one loaded from nothing.
Absent == [rev |-> 0, by |-> NoCall]

\* No lock file.
NoLock == [age |-> "none", by |-> NoCall]

Content == [rev : Nat, by : Call \cup {NoCall}]
LockFile == [age : {"none", "fresh", "stale"}, by : Call \cup {NoCall}]

Settled == {"done", "failed"}

\* The steps between acquiring the lock file and unlinking it.
Holding == {"check", "write", "remove", "releaseOk", "releaseErr"}

InLoop == {"try", "stat", "break"}

PC == {"idle", "loaded", "queued", "dead"} \cup InLoop \cup Holding \cup Settled

Init ==
    /\ file = Absent
    /\ archived = Absent
    /\ lock = NoLock
    /\ tail = [h \in Host |-> NoCall]
    /\ prev = [c \in Call |-> NoCall]
    /\ kind \in [Call -> Kinds]
    /\ base = [c \in Call |-> Absent]
    /\ rev = [c \in Call |-> 0]
    /\ late = [c \in Call |-> FALSE]
    /\ pc = [c \in Call |-> "idle"]
    /\ crashes = 0

Goto(c, from, to) ==
    /\ pc[c] = from
    /\ pc' = [pc EXCEPT ![c] = to]

IsSave(c) == kind[c] \in {"create", "update"}

-----------------------------------------------------------------------------
(* The caller: load, change the object, call save; or call delete/archive. *)

\* load(): null when there is no file, and then only a creation goes on.
Load(c) ==
    /\ kind[c] = IF file = Absent THEN "create" ELSE "update"
    /\ Goto(c, "idle", "loaded")
    /\ base' = [base EXCEPT ![c] = file]
    /\ rev' = [rev EXCEPT ![c] = file.rev]
    /\ UNCHANGED <<file, archived, lock, tail, prev, kind, late, crashes>>

\* The call takes its place at the end of its instance's chain.
Enqueue(c) ==
    /\ prev' = [prev EXCEPT ![c] = tail[HostOf[c]]]
    /\ tail' = [tail EXCEPT ![HostOf[c]] = c]

\* save(): bump the revision, serialise, join the chain.
Save(c) ==
    /\ Goto(c, "loaded", "queued")
    /\ rev' = [rev EXCEPT ![c] = @ + 1]
    /\ Enqueue(c)
    /\ UNCHANGED <<file, archived, lock, kind, base, late, crashes>>

\* Mutant: the bump is rolled back although the object never got it.
SaveInvalidTwice(c) ==
    /\ Goto(c, "loaded", "failed")
    /\ rev' = [rev EXCEPT ![c] = @ - 1]
    /\ UNCHANGED <<file, archived, lock, tail, prev, kind, base, late, crashes>>

\* save() of an object the schema rejects: the bump is rolled back before
\* anything is queued.
SaveInvalid(c) ==
    /\ Goto(c, "loaded", "failed")
    /\ UNCHANGED <<file, archived, lock, tail, prev, kind, base, rev, late, crashes>>

\* delete() and archive() join the chain with nothing but the name.
RequestRemove(c) ==
    /\ kind[c] \in {"delete", "archive"}
    /\ Goto(c, "idle", "queued")
    /\ Enqueue(c)
    /\ UNCHANGED <<file, archived, lock, kind, base, rev, late, crashes>>

-----------------------------------------------------------------------------
(* The promise chain of one instance.                                      *)

\* Mutant: the chain waits for the previous call to succeed.
PrevSucceeded(c) == prev[c] # NoCall => pc[prev[c]] = "done"

PrevSettled(c) == prev[c] # NoCall => pc[prev[c]] \in Settled
PrevFailed(c) == prev[c] # NoCall /\ pc[prev[c]] = "failed"

\* Mutant: a failed save keeps the bumped revision in memory.
SettleNoRollback(c, outcome) ==
    /\ pc' = [pc EXCEPT ![c] = outcome]
    /\ tail' = [tail EXCEPT ![HostOf[c]] = IF @ = c THEN NoCall ELSE @]
    /\ rev' = rev

\* The promise settles; the chain forgets it when nothing was added since.
Settle(c, outcome) ==
    /\ pc' = [pc EXCEPT ![c] = outcome]
    /\ tail' = [tail EXCEPT ![HostOf[c]] = IF @ = c THEN NoCall ELSE @]
    /\ rev' = [rev EXCEPT ![c] =
                  IF outcome = "failed" /\ IsSave(c) THEN base[c].rev ELSE @]

\* delete and archive chain on prev.catch(), save on prev itself.
Start(c) ==
    /\ PrevSettled(c)
    /\ ~ (IsSave(c) /\ PrevFailed(c))
    /\ Goto(c, "queued", "try")
    /\ UNCHANGED <<file, archived, lock, tail, prev, kind, base, rev, late, crashes>>

\* A save queued behind a call that failed fails with it, untried.
FailBehind(c) ==
    /\ pc[c] = "queued"
    /\ IsSave(c) /\ PrevFailed(c)
    /\ Settle(c, "failed")
    /\ UNCHANGED <<file, archived, lock, prev, kind, base, late, crashes>>

-----------------------------------------------------------------------------
(* withFileLock(): the acquisition loop.                                   *)

\* Mutant: open(path, 'w') instead of 'wx'.
TryLockShared(c) ==
    /\ pc[c] = "try"
    /\ lock' = [age |-> "fresh", by |-> c]
    /\ pc' = [pc EXCEPT ![c] = IF IsSave(c) THEN "check" ELSE "remove"]
    /\ UNCHANGED <<file, archived, tail, prev, kind, base, rev, late, crashes>>

TryLock(c) ==
    /\ pc[c] = "try"
    /\ IF lock = NoLock
       THEN /\ lock' = [age |-> "fresh", by |-> c]
            /\ pc' = [pc EXCEPT ![c] = IF IsSave(c) THEN "check" ELSE "remove"]
       ELSE /\ lock' = lock
            /\ pc' = [pc EXCEPT ![c] = "stat"]
    /\ UNCHANGED <<file, archived, tail, prev, kind, base, rev, late, crashes>>

\* Mutant: any lock found is taken for a stale one.
StatLockAnyAge(c) ==
    /\ Goto(c, "stat", "break")
    /\ UNCHANGED <<file, archived, lock, tail, prev, kind, base, rev, late, crashes>>

\* Mutant: the deadline is looked at before the age of the lock.
StatLockDeadlineFirst(c) ==
    /\ pc[c] = "stat"
    /\ IF late[c]
       THEN Settle(c, "failed")
       ELSE /\ pc' = [pc EXCEPT ![c] = IF lock.age = "stale" THEN "break" ELSE "try"]
            /\ UNCHANGED <<tail, rev>>
    /\ UNCHANGED <<file, archived, lock, prev, kind, base, late, crashes>>

\* EEXIST: look at the age.  A stale lock is to be broken; otherwise the call
\* gives up when it is past its deadline, or sleeps and tries again.
StatLock(c) ==
    /\ pc[c] = "stat"
    /\ \/ /\ lock.age = "stale"
          /\ pc' = [pc EXCEPT ![c] = "break"]
          /\ UNCHANGED <<tail, rev>>
       \/ /\ lock.age # "stale"
          /\ late[c]
          /\ Settle(c, "failed")
       \/ /\ lock.age # "stale"
          /\ ~ late[c]
          /\ pc' = [pc EXCEPT ![c] = "try"]
          /\ UNCHANGED <<tail, rev>>
    /\ UNCHANGED <<file, archived, lock, prev, kind, base, late, crashes>>

\* unlink() by name: it removes whatever lock is there by now.
BreakLock(c) ==
    /\ Goto(c, "break", "try")
    /\ lock' = NoLock
    /\ UNCHANGED <<file, archived, tail, prev, kind, base, rev, late, crashes>>

-----------------------------------------------------------------------------
(* Under the lock.                                                         *)

\* Mutant: the revision on disk is not compared.
CheckRevisionSkipped(c) ==
    /\ Goto(c, "check", "write")
    /\ UNCHANGED <<file, archived, lock, tail, prev, kind, base, rev, late, crashes>>

\* assertNotStale(): no file is no conflict.
CheckRevision(c) ==
    /\ Goto(c, "check",
            IF file = Absent \/ file.rev = base[c].rev THEN "write" ELSE "releaseErr")
    /\ UNCHANGED <<file, archived, lock, tail, prev, kind, base, rev, late, crashes>>

\* writeFile(tmp) and rename(tmp, target); the temporary file is the call's
\* own, so only the rename is visible to anyone else.
Write(c) ==
    /\ Goto(c, "write", "releaseOk")
    /\ file' = [rev |-> rev[c], by |-> c]
    /\ UNCHANGED <<archived, lock, tail, prev, kind, base, rev, late, crashes>>

\* unlink(file), or rename(file, archive/...); nothing to do without a file.
Remove(c) ==
    /\ Goto(c, "remove", "releaseOk")
    /\ file' = Absent
    /\ archived' = IF kind[c] = "archive" /\ file # Absent THEN file ELSE archived
    /\ UNCHANGED <<lock, tail, prev, kind, base, rev, late, crashes>>

\* The file system refuses (disk full, permissions): nothing was renamed.
IOFailure(c) ==
    /\ pc[c] \in {"write", "remove"}
    /\ pc' = [pc EXCEPT ![c] = "releaseErr"]
    /\ UNCHANGED <<file, archived, lock, tail, prev, kind, base, rev, late, crashes>>

\* finally: unlink() by name, whoever's lock it is, and settle.
Release(c) ==
    /\ pc[c] \in {"releaseOk", "releaseErr"}
    /\ lock' = NoLock
    /\ Settle(c, IF pc[c] = "releaseOk" THEN "done" ELSE "failed")
    /\ UNCHANGED <<file, archived, prev, kind, base, late, crashes>>

-----------------------------------------------------------------------------
(* Time and crashes.                                                       *)

Live(c) == pc[c] \in Holding

\* The lock passes LOCK_STALE_MS: always when its holder is gone, and while
\* its holder is still at work only if that may take so long.
LockAges ==
    /\ lock.age = "fresh"
    /\ SlowHolders \/ ~ Live(lock.by)
    /\ lock' = [lock EXCEPT !.age = "stale"]
    /\ UNCHANGED <<file, archived, tail, prev, kind, base, rev, late, pc, crashes>>

\* LOCK_TIMEOUT_MS passes for a call in the acquisition loop.
DeadlinePasses(c) ==
    /\ pc[c] \in InLoop
    /\ ~ late[c]
    /\ late' = [late EXCEPT ![c] = TRUE]
    /\ UNCHANGED <<file, archived, lock, tail, prev, kind, base, rev, pc, crashes>>

\* The process dies: its calls and its chain are gone, its lock file stays.
Crash(h) ==
    /\ crashes < MaxCrashes
    /\ crashes' = crashes + 1
    /\ pc' = [c \in Call |->
                IF HostOf[c] = h /\ pc[c] \notin {"idle"} \cup Settled
                THEN "dead" ELSE pc[c]]
    /\ tail' = [tail EXCEPT ![h] = NoCall]
    /\ UNCHANGED <<file, archived, lock, prev, kind, base, rev, late>>

-----------------------------------------------------------------------------

\* What the code does for a call once it was submitted.
Step(c) ==
    \/ Start(c)
    \/ FailBehind(c)
    \/ TryLock(c)
    \/ StatLock(c)
    \/ BreakLock(c)
    \/ CheckRevision(c)
    \/ Write(c)
    \/ Remove(c)
    \/ IOFailure(c)
    \/ Release(c)

Next ==
    \/ \E c \in Call :
          \/ Load(c)
          \/ Save(c)
          \/ SaveInvalid(c)
          \/ RequestRemove(c)
          \/ Step(c)
          \/ DeadlinePasses(c)
    \/ LockAges
    \/ \E h \in Host : Crash(h)

Spec == Init /\ [][Next]_vars

\* A submitted call keeps being run by the event loop, and time passes.
Fairness ==
    /\ \A c \in Call : WF_vars(Step(c)) /\ WF_vars(DeadlinePasses(c))
    /\ WF_vars(LockAges)

FairSpec == Spec /\ Fairness

-----------------------------------------------------------------------------
(* Properties.                                                             *)

\* Every variable stays in the range its code representation has.
TypeOK ==
    /\ file \in Content
    /\ archived \in Content
    /\ lock \in LockFile
    /\ tail \in [Host -> Call \cup {NoCall}]
    /\ prev \in [Call -> Call \cup {NoCall}]
    /\ kind \in [Call -> AllKinds]
    /\ base \in [Call -> Content]
    /\ rev \in [Call -> Nat]
    /\ late \in [Call -> BOOLEAN]
    /\ pc \in [Call -> PC]
    /\ crashes \in Nat

\* The lock file serialises the instances: at most one call of any instance
\* is between the open('wx') that created the lock and the unlink after it.
MutualExclusion ==
    \A c, d \in Call : pc[c] \in Holding /\ pc[d] \in Holding => c = d

\* "The revision check and the write are one step": between the moment a call
\* passes assertNotStale and its rename, no save, delete or archive of any
\* instance touches the file.
CheckAndWriteAreOneStep ==
    [][\A c \in Call : pc[c] = "write" /\ pc'[c] = "write" => file' = file]_vars

\* No update is lost: whatever replaces a session file was built from the very
\* content it replaces, one revision later, however the loads, queues and
\* locks of the instances interleaved.
NoLostUpdate ==
    [][file # Absent /\ file' # Absent /\ file' # file
         => /\ base[file'.by] = file
            /\ file'.rev = file.rev + 1]_vars

\* A caller can trust the answer: an object whose save was refused carries the
\* revision it was loaded with, so it can be reloaded and retried, and one
\* whose save was acknowledged carries the revision that was written.
RevisionMatchesOutcome ==
    \A c \in Call : IsSave(c) =>
        /\ pc[c] = "failed" => rev[c] = base[c].rev
        /\ pc[c] = "done" => rev[c] = base[c].rev + 1

\* Every call that was submitted gets an answer, even behind a dead lock: a
\* write that cannot finish does not stop the ones after it.
EveryCallSettles ==
    \A c \in Call : pc[c] = "queued" ~> pc[c] \in Settled \cup {"dead"}

\* A lock left behind by a dead process does not cost the calls after it their
\* write: a call that waits for one gets rid of it, past its own deadline too.
DeadLockIsBroken ==
    \A c \in Call : (lock.age = "stale" /\ pc[c] = "try")
                        ~> (lock.age # "stale" \/ pc[c] = "dead")
=============================================================================
