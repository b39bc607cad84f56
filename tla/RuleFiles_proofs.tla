--------------------------- MODULE RuleFiles_proofs ---------------------------
(***************************************************************************)
(* What holds of RuleCache and of MatchedRules for any files and           *)
(* directories, any number of loads under way and any number of edits, and *)
(* for any sessions with any writes and merges in their queues.            *)
(***************************************************************************)
EXTENDS RuleFiles, FiniteSetTheorems, SequenceTheorems, TLAPS

USE RuleDirsAssumption, FilesAssumption, FileStepsAssumption

-----------------------------------------------------------------------------
(* The invariant. A text is known by the number of the write that made it, *)
(* so that a later text of a file is a larger one.                         *)
Phase == {"idle", "listing", "next", "statted", "missed", "read", "loaded"}
Busy == {"statted", "missed", "read"}
InHand(l) == Head(reading[l].queue)
Now(f) == IF onDisk[f].there THEN onDisk[f].text ELSE Absent
LoadState == [phase : Phase, dirs : Seq(SUBSET RuleFile), queue : Seq(RuleFile),
              mtime : Nat, text : Nat, snapshots : Seq(RuleFile \X Nat)]

Types ==
    /\ onDisk \in [RuleFile -> [there : BOOLEAN, mtime : Nat, text : Nat]]
    /\ ruleCache \in [RuleFile -> [mtime : Nat, text : Nat]]
    /\ reading \in [Loader -> LoadState]
    /\ had \in [Loader -> [RuleFile -> SUBSET Nat]]
    /\ fileClock \in Nat

\* Something is left to list, and a file is in hand, where the phase says so.
NothingRunsOut ==
    \A l \in Loader : /\ reading[l].phase = "listing" => reading[l].dirs # <<>>
                      /\ reading[l].phase \in Busy => reading[l].queue # <<>>

\* The time of a file tells its text.
DiskFits ==
    \A f \in RuleFile :
        onDisk[f].there => /\ onDisk[f].mtime = onDisk[f].text
                           /\ 0 < onDisk[f].text /\ onDisk[f].text <= fileClock

\* An entry is no older than its time, and no newer than the file.
CacheFits ==
    \A f \in RuleFile : /\ ruleCache[f].mtime <= ruleCache[f].text
                        /\ ruleCache[f].text <= fileClock
                        /\ onDisk[f].there => ruleCache[f].text <= onDisk[f].text

\* The time a load has looked at is no later than the file, and no earlier
\* than the first write.
TimeFits ==
    \A l \in Loader : reading[l].phase \in Busy =>
        /\ 0 < reading[l].mtime /\ reading[l].mtime <= fileClock
        /\ onDisk[InHand(l)].there => reading[l].mtime <= onDisk[InHand(l)].text

\* What a load has read and not yet put is like an entry of the cache, and
\* belongs to it.
ReadFits ==
    \A l \in Loader : reading[l].phase = "read" =>
        /\ reading[l].mtime <= reading[l].text
        /\ reading[l].text <= fileClock
        /\ onDisk[InHand(l)].there => reading[l].text <= onDisk[InHand(l)].text
        /\ reading[l].text \in had[l][InHand(l)]

\* What a file is now belongs to every load that is under way.
NowBelongs == \A l \in Loader, f \in RuleFile : reading[l].phase # "idle" => Now(f) \in had[l][f]

\* What the cache holds, or another load is about to put there, belongs to a
\* load that has looked at the time of the file, if it is as late as that time.
LateTextsBelong ==
    \A l \in Loader : reading[l].phase \in Busy =>
        /\ reading[l].mtime <= ruleCache[InHand(l)].text => ruleCache[InHand(l)].text \in had[l][InHand(l)]
        /\ \A k \in Loader :
             reading[k].phase = "read" /\ InHand(k) = InHand(l) /\ reading[l].mtime <= reading[k].text =>
                reading[k].text \in had[l][InHand(l)]

CacheInv == /\ Types /\ NothingRunsOut /\ DiskFits /\ CacheFits /\ TimeFits
            /\ ReadFits /\ NowBelongs /\ LateTextsBelong /\ SnapshotsAreOfTheLoad

-----------------------------------------------------------------------------
(* Types.                                                                  *)

\* A listing is a sequence of rule files.
LEMMA ListingType ==
    ASSUME NEW dir \in SUBSET RuleFile, NEW listing \in Listings(dir)
    PROVE  listing \in Seq(RuleFile)
<1> DEFINE S == {f \in dir : onDisk[f].there}
<1>1. S \subseteq RuleFile
    OBVIOUS
<1>2. IsFiniteSet(S)
    BY <1>1, FS_Subset
<1>3. Cardinality(S) \in Nat
    BY <1>2, FS_CardinalityType
<1>4. listing \in [1 .. Cardinality(S) -> S]
    BY DEF Listings, SetToSeqs
<1> HIDE DEF S
<1>5. listing \in Seq(S)
    BY <1>3, <1>4, SeqDef
<1> QED
    BY <1>1, <1>5, SeqMonotonic

\* A load whose file in hand was answered goes on with the rest of the list.
LEMMA AnsweredType ==
    ASSUME Types, NEW l \in Loader, reading[l].queue # <<>>, NEW text \in Nat
    PROVE  /\ Answered(reading[l], text) \in LoadState
           /\ Answered(reading[l], text).phase = "next"
           /\ Answered(reading[l], text).snapshots =
                 IF text = Absent THEN reading[l].snapshots
                 ELSE Append(reading[l].snapshots, <<InHand(l), text>>)
           /\ InHand(l) \in RuleFile
<1>1. reading[l] \in LoadState
    BY DEF Types
<1>2. /\ Head(reading[l].queue) \in RuleFile
      /\ Tail(reading[l].queue) \in Seq(RuleFile)
    BY <1>1, HeadTailProperties DEF LoadState
<1>3. Append(reading[l].snapshots, <<Head(reading[l].queue), text>>) \in Seq(RuleFile \X Nat)
    BY <1>1, <1>2, AppendProperties DEF LoadState
<1> QED
    BY <1>1, <1>2, <1>3 DEF Answered, LeftAfter, LoadState, InHand, Phase

\* The fields that are numbers.
LEMMA Numbers ==
    ASSUME Types
    PROVE  /\ fileClock \in Nat
           /\ \A f \in RuleFile : /\ onDisk[f].mtime \in Nat /\ onDisk[f].text \in Nat
                                 /\ ruleCache[f].mtime \in Nat /\ ruleCache[f].text \in Nat
           /\ \A l \in Loader : reading[l].mtime \in Nat /\ reading[l].text \in Nat
BY DEF Types, LoadState

\* At the start nothing is cached, and nothing is loading.
THEOREM CacheInvInit == RuleCacheInit => CacheInv
<1> SUFFICES ASSUME RuleCacheInit PROVE CacheInv
    OBVIOUS
<1>1. Types
    BY DEF RuleCacheInit, Types, NotLoading, NotCached, LoadState, Phase
<1>2. NothingRunsOut /\ TimeFits /\ ReadFits /\ NowBelongs /\ LateTextsBelong
    BY DEF RuleCacheInit, NothingRunsOut, TimeFits, ReadFits, NowBelongs, LateTextsBelong, NotLoading, Busy
<1>3. DiskFits /\ CacheFits
    BY DEF RuleCacheInit, DiskFits, CacheFits, NotCached
<1>4. SnapshotsAreOfTheLoad
    BY DEF RuleCacheInit, SnapshotsAreOfTheLoad, NotLoading
<1> QED
    BY <1>1, <1>2, <1>3, <1>4 DEF CacheInv

-----------------------------------------------------------------------------
(* The user.                                                               *)

\* A write or a removal: later texts are larger, and belong to every load.
LEMMA UserStep ==
    ASSUME CacheInv, NEW f \in RuleFile, WriteRule(f) \/ RemoveRule(f)
    PROVE  CacheInv'
<1> PICK now \in [there : BOOLEAN, mtime : Nat, text : Nat] :
        /\ UserChanges(f, now)
        /\ now.there => now.mtime = fileClock + 1 /\ now.text = fileClock + 1
    <2> DEFINE written == [there |-> TRUE, mtime |-> fileClock + 1, text |-> fileClock + 1]
               removed == [there |-> FALSE, mtime |-> 0, text |-> Absent]
    <2> written \in [there : BOOLEAN, mtime : Nat, text : Nat] /\ removed \in [there : BOOLEAN, mtime : Nat, text : Nat]
        BY DEF CacheInv, Types, Absent
    <2>2. CASE WriteRule(f)
        <3> WITNESS written \in [there : BOOLEAN, mtime : Nat, text : Nat]
        <3> QED
            BY <2>2 DEF WriteRule
    <2>3. CASE RemoveRule(f)
        <3> WITNESS removed \in [there : BOOLEAN, mtime : Nat, text : Nat]
        <3> QED
            BY <2>3 DEF RemoveRule
    <2> QED
        BY <2>2, <2>3
<1>1. /\ fileClock' = fileClock + 1 /\ fileClock \in Nat
      /\ onDisk'[f] = now
      /\ \A g \in RuleFile : g # f => onDisk'[g] = onDisk[g]
      /\ \A l \in Loader, g \in RuleFile : had[l][g] \subseteq had'[l][g]
      /\ \A l \in Loader : (IF now.there THEN now.text ELSE Absent) \in had'[l][f]
      /\ UNCHANGED <<ruleCache, reading>>
    BY DEF UserChanges, CacheInv, Types
<1>2. Types'
    BY DEF UserChanges, CacheInv, Types, Absent
<1>3. NothingRunsOut'
    BY <1>1 DEF CacheInv, NothingRunsOut
<1>4. DiskFits'
    BY <1>1, Numbers DEF CacheInv, DiskFits
<1>5. CacheFits'
    BY <1>1, Numbers DEF CacheInv, CacheFits
<1>6. \A l \in Loader : reading[l].phase \in Busy => InHand(l) \in RuleFile /\ InHand(l)' = InHand(l)
    <2> SUFFICES ASSUME NEW l \in Loader, reading[l].phase \in Busy
                 PROVE  InHand(l) \in RuleFile /\ InHand(l)' = InHand(l)
        OBVIOUS
    <2>1. reading[l].queue \in Seq(RuleFile) /\ reading[l].queue # <<>>
        BY DEF CacheInv, Types, LoadState, NothingRunsOut
    <2> QED
        BY <1>1, <2>1, HeadTailProperties DEF InHand
<1>n. /\ \A g \in RuleFile : onDisk[g].mtime \in Nat /\ onDisk[g].text \in Nat
      /\ \A l \in Loader : reading[l].mtime \in Nat /\ reading[l].text \in Nat
    BY Numbers DEF CacheInv
<1>7. TimeFits'
    <2> SUFFICES ASSUME NEW l \in Loader, reading[l].phase \in Busy
                 PROVE  /\ 0 < reading[l].mtime /\ reading[l].mtime <= fileClock'
                        /\ onDisk'[InHand(l)].there => reading[l].mtime <= onDisk'[InHand(l)].text
        BY <1>1, <1>6 DEF TimeFits
    <2>1. /\ 0 < reading[l].mtime /\ reading[l].mtime <= fileClock /\ InHand(l) \in RuleFile
          /\ onDisk[InHand(l)].there => reading[l].mtime <= onDisk[InHand(l)].text
        BY <1>6 DEF CacheInv, TimeFits
    <2> HIDE DEF InHand
    <2>2. CASE InHand(l) = f
        BY <1>1, <1>n, <2>1, <2>2
    <2>3. CASE InHand(l) # f
        BY <1>1, <1>n, <2>1, <2>3
    <2> QED
        BY <2>2, <2>3
<1>8. ReadFits'
    <2> SUFFICES ASSUME NEW l \in Loader, reading[l].phase = "read"
                 PROVE  /\ reading[l].mtime <= reading[l].text /\ reading[l].text <= fileClock'
                        /\ onDisk'[InHand(l)].there => reading[l].text <= onDisk'[InHand(l)].text
                        /\ reading[l].text \in had'[l][InHand(l)]
        BY <1>1, <1>6 DEF ReadFits, Busy
    <2>1. /\ reading[l].mtime <= reading[l].text /\ reading[l].text <= fileClock /\ InHand(l) \in RuleFile
          /\ onDisk[InHand(l)].there => reading[l].text <= onDisk[InHand(l)].text
          /\ reading[l].text \in had[l][InHand(l)]
        BY <1>6 DEF CacheInv, ReadFits, Busy
    <2> HIDE DEF InHand
    <2>2. CASE InHand(l) = f
        BY <1>1, <1>n, <2>1, <2>2
    <2>3. CASE InHand(l) # f
        BY <1>1, <1>n, <2>1, <2>3
    <2> QED
        BY <2>1, <2>2, <2>3
<1>9. NowBelongs'
    BY <1>1 DEF CacheInv, NowBelongs, Now
<1>10. LateTextsBelong'
    BY <1>1, <1>6 DEF CacheInv, LateTextsBelong, Busy
<1>11. SnapshotsAreOfTheLoad'
    <2> SUFFICES ASSUME NEW l \in Loader, NEW i \in DOMAIN reading[l].snapshots
                 PROVE  reading[l].snapshots[i][2] \in had'[l][reading[l].snapshots[i][1]]
        BY <1>1 DEF SnapshotsAreOfTheLoad
    <2>1. reading[l].snapshots \in Seq(RuleFile \X Nat)
        BY DEF CacheInv, Types, LoadState
    <2>2. reading[l].snapshots[i] \in RuleFile \X Nat
        BY <2>1, LenProperties, ElementOfSeq
    <2>3. reading[l].snapshots[i][2] \in had[l][reading[l].snapshots[i][1]]
        BY DEF CacheInv, SnapshotsAreOfTheLoad
    <2> QED
        BY <1>1, <2>2, <2>3
<1> QED
    BY <1>2, <1>3, <1>4, <1>5, <1>7, <1>8, <1>9, <1>10, <1>11 DEF CacheInv

-----------------------------------------------------------------------------
(* The loads.                                                              *)

\* The file in hand of a load that is about to look at it.
LEMMA InHandType ==
    ASSUME CacheInv, NEW l \in Loader, reading[l].queue # <<>>
    PROVE  InHand(l) \in RuleFile
BY HeadTailProperties DEF CacheInv, Types, LoadState, InHand

\* A load that has no file in hand after its step disturbs nobody, if what it
\* leaves in the cache may be taken by the loads that have looked at its time.
LEMMA LoadGoesOn ==
    ASSUME CacheInv, NEW l \in Loader, NEW r \in LoadState,
           reading' = [reading EXCEPT ![l] = r],
           r.phase \notin Busy, r.phase # "idle", reading[l].phase # "idle",
           r.phase = "listing" => r.dirs # <<>>,
           \A i \in DOMAIN r.snapshots : r.snapshots[i][2] \in had[l][r.snapshots[i][1]],
           ruleCache' \in [RuleFile -> [mtime : Nat, text : Nat]],
           \A f \in RuleFile : ruleCache'[f] # ruleCache[f] =>
              /\ ruleCache'[f].mtime <= ruleCache'[f].text /\ ruleCache'[f].text <= fileClock
              /\ onDisk[f].there => ruleCache'[f].text <= onDisk[f].text
              /\ \A k \in Loader : (/\ k # l /\ reading[k].phase \in Busy /\ InHand(k) = f
                                    /\ reading[k].mtime <= ruleCache'[f].text)
                                    => ruleCache'[f].text \in had[k][f],
           UNCHANGED <<onDisk, had, fileClock>>
    PROVE  CacheInv'
<1>1. /\ reading'[l] = r
      /\ \A k \in Loader : k # l => reading'[k] = reading[k] /\ InHand(k)' = InHand(k)
    BY DEF CacheInv, Types, InHand
<1>2. Types'
    BY DEF CacheInv, Types
<1>3. NothingRunsOut'
    BY <1>1 DEF CacheInv, NothingRunsOut
<1>4. DiskFits' /\ NowBelongs'
    BY <1>1 DEF CacheInv, DiskFits, NowBelongs, Now
<1>5. CacheFits'
    BY <1>1 DEF CacheInv, CacheFits
<1>6. TimeFits' /\ ReadFits'
    BY <1>1 DEF CacheInv, TimeFits, ReadFits, Busy
<1>7. LateTextsBelong'
    <2> SUFFICES ASSUME NEW k \in Loader, (reading[k].phase \in Busy)'
                 PROVE  /\ (reading[k].mtime <= ruleCache[InHand(k)].text
                              => ruleCache[InHand(k)].text \in had[k][InHand(k)])'
                        /\ (\A j \in Loader :
                              reading[j].phase = "read" /\ InHand(j) = InHand(k) /\ reading[k].mtime <= reading[j].text
                                => reading[j].text \in had[k][InHand(k)])'
        BY DEF LateTextsBelong
    <2>1. k # l /\ reading'[k] = reading[k] /\ InHand(k)' = InHand(k) /\ reading[k].phase \in Busy
        BY <1>1
    <2>2. InHand(k) \in RuleFile
        BY <2>1, InHandType DEF CacheInv, NothingRunsOut
    <2> QED
        BY <1>1, <2>1, <2>2 DEF CacheInv, LateTextsBelong, Busy
<1>8. SnapshotsAreOfTheLoad'
    BY <1>1 DEF CacheInv, SnapshotsAreOfTheLoad
<1> QED
    BY <1>2, <1>3, <1>4, <1>5, <1>6, <1>7, <1>8 DEF CacheInv

\* A load that keeps its file in hand leaves cache and snapshots as they are;
\* what it holds then is what its own phase asks for.
LEMMA LoadLooks ==
    ASSUME CacheInv, NEW l \in Loader, NEW r \in LoadState,
           reading' = [reading EXCEPT ![l] = r],
           r.phase \in Busy, reading[l].phase # "idle",
           reading[l].queue # <<>>, r.queue = reading[l].queue, r.snapshots = reading[l].snapshots,
           NEW f \in RuleFile, f = InHand(l),
           0 < r.mtime, r.mtime <= fileClock,
           onDisk[f].there => r.mtime <= onDisk[f].text,
           r.phase = "read" => onDisk[f].there /\ r.text = onDisk[f].text,
           r.mtime <= ruleCache[f].text => ruleCache[f].text \in had[l][f],
           \A k \in Loader : (/\ k # l /\ reading[k].phase = "read" /\ InHand(k) = f
                              /\ r.mtime <= reading[k].text) => reading[k].text \in had[l][f],
           UNCHANGED <<onDisk, ruleCache, had, fileClock>>
    PROVE  CacheInv'
<1>1. /\ reading'[l] = r /\ InHand(l)' = f
      /\ \A k \in Loader : k # l => reading'[k] = reading[k] /\ InHand(k)' = InHand(k)
    BY DEF CacheInv, Types, InHand
<1>2. Types'
    BY DEF CacheInv, Types
<1>3. NothingRunsOut'
    BY <1>1 DEF CacheInv, NothingRunsOut, Busy
<1>4. DiskFits' /\ NowBelongs' /\ CacheFits'
    BY <1>1 DEF CacheInv, DiskFits, NowBelongs, Now, CacheFits, Busy
<1>5. TimeFits'
    BY <1>1 DEF CacheInv, TimeFits
<1>6. onDisk[f].there => onDisk[f].text <= fileClock /\ \A k \in Loader : reading[k].phase # "idle" => onDisk[f].text \in had[k][f]
    BY DEF CacheInv, DiskFits, NowBelongs, Now
<1>7. ReadFits'
    BY <1>1, <1>6, Numbers DEF CacheInv, ReadFits
<1>8. LateTextsBelong'
    <2> SUFFICES ASSUME NEW k \in Loader, (reading[k].phase \in Busy)'
                 PROVE  /\ (reading[k].mtime <= ruleCache[InHand(k)].text
                              => ruleCache[InHand(k)].text \in had[k][InHand(k)])'
                        /\ (\A j \in Loader :
                              reading[j].phase = "read" /\ InHand(j) = InHand(k) /\ reading[k].mtime <= reading[j].text
                                => reading[j].text \in had[k][InHand(k)])'
        BY DEF LateTextsBelong
    <2>1. CASE k = l
        BY <1>1, <1>6, <2>1
    <2>2. CASE k # l
        BY <1>1, <1>6, <2>2 DEF CacheInv, LateTextsBelong, Busy
    <2> QED
        BY <2>1, <2>2
<1>9. SnapshotsAreOfTheLoad'
    BY <1>1 DEF CacheInv, SnapshotsAreOfTheLoad
<1> QED
    BY <1>2, <1>3, <1>4, <1>5, <1>7, <1>8, <1>9 DEF CacheInv

\* A snapshot that belongs to the load is added to those that do.
LEMMA SnapshotsGrow ==
    ASSUME CacheInv, NEW l \in Loader, NEW f \in RuleFile, NEW text \in had[l][f],
           NEW snapshots, snapshots = Append(reading[l].snapshots, <<f, text>>)
    PROVE  \A i \in DOMAIN snapshots : snapshots[i][2] \in had[l][snapshots[i][1]]
<1> DEFINE before == reading[l].snapshots
<1>1. before \in Seq(RuleFile \X Nat) /\ <<f, text>> \in RuleFile \X Nat
    BY DEF CacheInv, Types, LoadState
<1>2. \A i \in 1 .. Len(before) : before[i][2] \in had[l][before[i][1]]
    BY <1>1, LenProperties DEF CacheInv, SnapshotsAreOfTheLoad
<1>3. /\ snapshots \in Seq(RuleFile \X Nat)
      /\ Len(snapshots) = Len(before) + 1 /\ Len(before) \in Nat
      /\ \A i \in 1 .. Len(before) : snapshots[i] = before[i]
      /\ snapshots[Len(before) + 1] = <<f, text>>
    BY <1>1, AppendProperties, LenProperties
<1>4. DOMAIN snapshots = 1 .. Len(before) + 1
    BY <1>3, LenProperties
<1> HIDE DEF before
<1>5. ASSUME NEW i \in DOMAIN snapshots
      PROVE  snapshots[i][2] \in had[l][snapshots[i][1]]
    <2>1. CASE i = Len(before) + 1
        <3>1. snapshots[i][1] = f /\ snapshots[i][2] = text
            BY <1>3, <2>1
        <3> QED
            BY <3>1
    <2>2. CASE i # Len(before) + 1
        <3>1. i \in 1 .. Len(before)
            BY <1>3, <1>4, <2>2
        <3>2. snapshots[i] = before[i]
            BY <1>3, <3>1
        <3> QED
            BY <1>2, <3>1, <3>2
    <2> QED
        BY <2>1, <2>2
<1> QED
    BY <1>5

\* The load starts: what the files are now belongs to it.
LEMMA StartStep ==
    ASSUME CacheInv, NEW l \in Loader, StartLoading(l)
    PROVE  CacheInv'
<1> DEFINE r == [NotLoading EXCEPT !.phase = "listing", !.dirs = RuleDirs]
<1>1. /\ r \in LoadState /\ r.phase = "listing" /\ r.dirs # <<>> /\ r.snapshots = <<>>
      /\ reading' = [reading EXCEPT ![l] = r]
    <2>1. /\ <<>> \in Seq(RuleFile) /\ <<>> \in Seq(RuleFile \X Nat)
          /\ RuleDirs \in Seq(SUBSET RuleFile) /\ RuleDirs # <<>>
        BY EmptySeq
    <2>2. NotLoading \in LoadState /\ NotLoading.snapshots = <<>>
        BY <2>1 DEF NotLoading, LoadState, Phase
    <2>3. r \in LoadState /\ r.phase = "listing" /\ r.dirs = RuleDirs /\ r.snapshots = <<>>
        BY <2>1, <2>2 DEF LoadState, Phase
    <2> QED
        BY <2>1, <2>3 DEF StartLoading
<1> HIDE DEF r
<1>2. /\ reading'[l] = r
      /\ \A k \in Loader : k # l => reading'[k] = reading[k] /\ InHand(k)' = InHand(k) /\ had'[k] = had[k]
      /\ \A f \in RuleFile : had'[l][f] = {Now(f)}
      /\ UNCHANGED <<onDisk, ruleCache, fileClock>>
    BY <1>1 DEF StartLoading, CacheInv, Types, InHand, Now
<1>3. Types'
    <2>1. \A f \in RuleFile : Now(f) \in Nat
        BY DEF CacheInv, Types, Now, Absent
    <2>2. had' \in [Loader -> [RuleFile -> SUBSET Nat]]
        BY <2>1 DEF StartLoading, CacheInv, Types, Now
    <2> QED
        BY <1>1, <1>2, <2>2 DEF CacheInv, Types
<1>4. NothingRunsOut' /\ DiskFits' /\ CacheFits'
    BY <1>1, <1>2 DEF CacheInv, NothingRunsOut, DiskFits, CacheFits, Busy
<1>5. TimeFits' /\ ReadFits'
    BY <1>1, <1>2 DEF CacheInv, TimeFits, ReadFits, Busy
<1>6. NowBelongs'
    BY <1>1, <1>2 DEF CacheInv, NowBelongs, Now
<1>7. LateTextsBelong'
    BY <1>1, <1>2 DEF CacheInv, LateTextsBelong, Busy
<1>8. SnapshotsAreOfTheLoad'
    BY <1>1, <1>2 DEF CacheInv, SnapshotsAreOfTheLoad
<1> QED
    BY <1>3, <1>4, <1>5, <1>6, <1>7, <1>8 DEF CacheInv

\* A directory is listed, or the load ends: the list grows, nothing else.
LEMMA ListStep ==
    ASSUME CacheInv, NEW l \in Loader, ListDirectory(l) \/ EndLoading(l)
    PROVE  CacheInv'
<1>1. reading[l] \in LoadState /\ reading \in [Loader -> LoadState]
    BY DEF CacheInv, Types
<1>2. PICK r \in LoadState :
        /\ reading' = [reading EXCEPT ![l] = r]
        /\ r.phase \notin Busy /\ r.phase # "idle"
        /\ r.phase = "listing" => r.dirs # <<>>
        /\ r.snapshots = reading[l].snapshots
        /\ reading[l].phase # "idle"
    <2>1. CASE EndLoading(l)
        <3> DEFINE r == [reading[l] EXCEPT !.phase = "loaded"]
        <3>1. r \in LoadState /\ reading' = [reading EXCEPT ![l] = r]
            BY <1>1, <2>1 DEF EndLoading, LoadState, Phase
        <3> QED
            BY <1>1, <2>1, <3>1 DEF EndLoading, LoadState, Busy
    <2>2. CASE ListDirectory(l)
        <3>1. PICK listing \in Listings(Head(reading[l].dirs)) :
                reading' = [reading EXCEPT ![l] = Listed(@, listing)]
            BY <2>2 DEF ListDirectory
        <3>2. reading[l].phase = "listing" /\ reading[l].dirs # <<>> /\ reading[l].dirs \in Seq(SUBSET RuleFile)
            BY <1>1, <2>2 DEF ListDirectory, CacheInv, NothingRunsOut, LoadState
        <3>3. /\ Head(reading[l].dirs) \in SUBSET RuleFile
              /\ Tail(reading[l].dirs) \in Seq(SUBSET RuleFile)
              /\ Len(Tail(reading[l].dirs)) = Len(reading[l].dirs) - 1
              /\ Len(reading[l].dirs) \in Nat
            BY <3>2, HeadTailProperties, LenProperties
        <3>4. listing \in Seq(RuleFile)
            BY <3>1, <3>3, ListingType
        <3>5. reading[l].queue \o listing \in Seq(RuleFile)
            BY <1>1, <3>4, ConcatProperties DEF LoadState
        <3>6. Len(reading[l].dirs) # 1 => Tail(reading[l].dirs) # <<>>
            <4>1. Tail(reading[l].dirs) = <<>> => Len(Tail(reading[l].dirs)) = 0
                BY EmptySeq
            <4> QED
                BY <3>3, <4>1
        <3> DEFINE r == Listed(reading[l], listing)
        <3>7. reading' = [reading EXCEPT ![l] = r]
            BY <3>1
        <3>8. /\ r \in LoadState /\ r.dirs = Tail(reading[l].dirs) /\ r.snapshots = reading[l].snapshots
              /\ r.phase = IF Len(reading[l].dirs) = 1 THEN "next" ELSE "listing"
            BY <1>1, <3>3, <3>5 DEF Listed, LoadState, Phase
        <3> HIDE DEF r
        <3> QED
            BY <3>2, <3>6, <3>7, <3>8 DEF Busy
    <2> QED
        BY <2>1, <2>2
<1>3. UNCHANGED <<onDisk, ruleCache, had, fileClock>>
    BY DEF ListDirectory, EndLoading
<1>4. ruleCache' \in [RuleFile -> [mtime : Nat, text : Nat]]
    BY <1>3 DEF CacheInv, Types
<1>5. \A i \in DOMAIN r.snapshots : r.snapshots[i][2] \in had[l][r.snapshots[i][1]]
    BY <1>2 DEF CacheInv, SnapshotsAreOfTheLoad
<1> QED
    BY <1>2, <1>3, <1>4, <1>5, LoadGoesOn

\* The answer to a file gives nothing, or a text that belongs to the load; the
\* load has no file in hand then, and what it leaves in the cache fits.
LEMMA AnswerStep ==
    ASSUME CacheInv, NEW l \in Loader, reading[l].queue # <<>>, reading[l].phase # "idle",
           NEW text \in Nat, text # Absent => text \in had[l][InHand(l)],
           reading' = [reading EXCEPT ![l] = Answered(@, text)],
           ruleCache' \in [RuleFile -> [mtime : Nat, text : Nat]],
           \A f \in RuleFile : ruleCache'[f] # ruleCache[f] =>
              /\ ruleCache'[f].mtime <= ruleCache'[f].text /\ ruleCache'[f].text <= fileClock
              /\ onDisk[f].there => ruleCache'[f].text <= onDisk[f].text
              /\ \A k \in Loader : (/\ k # l /\ reading[k].phase \in Busy /\ InHand(k) = f
                                    /\ reading[k].mtime <= ruleCache'[f].text)
                                    => ruleCache'[f].text \in had[k][f],
           UNCHANGED <<onDisk, had, fileClock>>
    PROVE  CacheInv'
<1> DEFINE r == Answered(reading[l], text)
<1>1. /\ r \in LoadState /\ r.phase = "next" /\ InHand(l) \in RuleFile
      /\ r.snapshots = IF text = Absent THEN reading[l].snapshots
                       ELSE Append(reading[l].snapshots, <<InHand(l), text>>)
    BY AnsweredType DEF CacheInv
<1>2. reading' = [reading EXCEPT ![l] = r]
    OBVIOUS
<1> HIDE DEF r
<1>3. \A i \in DOMAIN r.snapshots : r.snapshots[i][2] \in had[l][r.snapshots[i][1]]
    <2>1. CASE text = Absent
        BY <1>1, <2>1 DEF CacheInv, SnapshotsAreOfTheLoad
    <2>2. CASE text # Absent
        BY <1>1, <2>2, SnapshotsGrow
    <2> QED
        BY <2>1, <2>2
<1>4. r.phase \notin Busy /\ r.phase # "idle" /\ r.phase # "listing"
    BY <1>1 DEF Busy
<1> QED
    BY <1>1, <1>2, <1>3, <1>4, LoadGoesOn

\* A file that cannot be read takes its entry with it.
LEMMA GiveUpStep ==
    ASSUME CacheInv, NEW l \in Loader, reading[l].queue # <<>>, reading[l].phase # "idle",
           GiveUp(l, InHand(l)), UNCHANGED <<onDisk, had, fileClock>>
    PROVE  CacheInv'
<1>1. InHand(l) \in RuleFile
    BY InHandType
<1>2. /\ ruleCache' = [ruleCache EXCEPT ![InHand(l)] = NotCached]
      /\ NotCached \in [mtime : Nat, text : Nat] /\ NotCached.mtime = 0 /\ NotCached.text = 0
      /\ reading' = [reading EXCEPT ![l] = Answered(@, Absent)]
    BY DEF GiveUp, NotCached
<1>3. ruleCache' \in [RuleFile -> [mtime : Nat, text : Nat]]
    BY <1>2 DEF CacheInv, Types
<1>4. \A f \in RuleFile : ruleCache'[f] # ruleCache[f] => ruleCache'[f].mtime = 0 /\ ruleCache'[f].text = 0
    BY <1>1, <1>2 DEF CacheInv, Types
<1>5. \A k \in Loader : reading[k].phase \in Busy => ~ (reading[k].mtime <= 0)
    BY Numbers DEF CacheInv, TimeFits
<1>6. Absent \in Nat
    BY DEF Absent
<1>7. 0 <= fileClock /\ \A f \in RuleFile : 0 <= onDisk[f].text
    BY Numbers DEF CacheInv
<1>8. \A f \in RuleFile : ruleCache'[f] # ruleCache[f] =>
        /\ ruleCache'[f].mtime <= ruleCache'[f].text /\ ruleCache'[f].text <= fileClock
        /\ onDisk[f].there => ruleCache'[f].text <= onDisk[f].text
        /\ \A k \in Loader : (/\ k # l /\ reading[k].phase \in Busy /\ InHand(k) = f
                              /\ reading[k].mtime <= ruleCache'[f].text)
                              => ruleCache'[f].text \in had[k][f]
    BY <1>4, <1>5, <1>7
<1> QED
    BY <1>2, <1>3, <1>6, <1>8, AnswerStep

\* The time of the file is looked at: what the cache holds that is as late, or
\* another load is about to put there, is the text the file has now.
LEMMA StatStep ==
    ASSUME CacheInv, NEW l \in Loader, StatRule(l)
    PROVE  CacheInv'
<1> DEFINE f == InHand(l)
<1>1. /\ reading[l].phase = "next" /\ reading[l].queue # <<>> /\ f \in RuleFile
      /\ UNCHANGED <<onDisk, had, fileClock>>
    BY InHandType DEF StatRule
<1>2. CASE ~ onDisk[f].there
    <2>1. GiveUp(l, f)
        BY <1>2 DEF StatRule, InHand
    <2> QED
        BY <1>1, <2>1, GiveUpStep
<1>3. CASE onDisk[f].there
    <2> DEFINE r == [reading[l] EXCEPT !.phase = "statted", !.mtime = onDisk[f].mtime]
    <2>1. reading' = [reading EXCEPT ![l] = r] /\ UNCHANGED ruleCache
        BY <1>3 DEF StatRule, InHand, CacheInv, Types
    <2>2. reading[l] \in LoadState /\ onDisk[f].mtime \in Nat
        BY <1>1 DEF CacheInv, Types
    <2>3. /\ r \in LoadState /\ r.phase = "statted" /\ r.mtime = onDisk[f].mtime
          /\ r.queue = reading[l].queue /\ r.snapshots = reading[l].snapshots
        BY <2>2 DEF LoadState, Phase
    <2> HIDE DEF r
    <2>4. /\ onDisk[f].mtime = onDisk[f].text /\ 0 < onDisk[f].text /\ onDisk[f].text <= fileClock
          /\ onDisk[f].text \in had[l][f]
          /\ ruleCache[f].text <= onDisk[f].text
          /\ \A k \in Loader : reading[k].phase = "read" /\ InHand(k) = f => reading[k].text <= onDisk[f].text
        BY <1>1, <1>3 DEF CacheInv, DiskFits, NowBelongs, Now, CacheFits, ReadFits
    <2>5. r.mtime <= ruleCache[f].text => ruleCache[f].text \in had[l][f]
        BY <1>1, <2>3, <2>4, Numbers DEF CacheInv
    <2>6. \A k \in Loader : (/\ k # l /\ reading[k].phase = "read" /\ InHand(k) = f
                             /\ r.mtime <= reading[k].text) => reading[k].text \in had[l][f]
        BY <1>1, <2>3, <2>4, Numbers DEF CacheInv
    <2>7. 0 < r.mtime /\ r.mtime <= fileClock /\ (onDisk[f].there => r.mtime <= onDisk[f].text)
        BY <1>1, <2>3, <2>4, Numbers DEF CacheInv
    <2> HIDE DEF f
    <2>8. f = InHand(l) /\ r.phase \in Busy /\ r.phase # "read" /\ reading[l].phase # "idle"
        BY <1>1, <2>3 DEF Busy, f
    <2> QED
        BY <1>1, <2>1, <2>3, <2>5, <2>6, <2>7, <2>8, LoadLooks
<1> QED
    BY <1>2, <1>3

\* An entry of the time that was looked at is as late as that time.
LEMMA LookUpStep ==
    ASSUME CacheInv, NEW l \in Loader, LookUpRule(l)
    PROVE  CacheInv'
<1> DEFINE f == InHand(l)
           cached == ruleCache[f]
           hit == cached # NotCached /\ cached.mtime = reading[l].mtime
<1>1. /\ reading[l].phase = "statted" /\ reading[l].phase \in Busy
      /\ UNCHANGED <<onDisk, ruleCache, had, fileClock>>
    BY DEF LookUpRule, Busy
<1>2. reading[l].queue # <<>> /\ f \in RuleFile
    BY <1>1, InHandType DEF CacheInv, NothingRunsOut
<1>3. ruleCache' \in [RuleFile -> [mtime : Nat, text : Nat]]
    BY <1>1 DEF CacheInv, Types
<1>4. CASE hit
    <2>1. reading' = [reading EXCEPT ![l] = Answered(@, cached.text)]
        BY <1>4 DEF LookUpRule, InHand
    <2>2. cached.text \in Nat /\ reading[l].mtime <= cached.text
        BY <1>2, <1>4, Numbers DEF CacheInv, CacheFits
    <2>3. cached.text \in had[l][f]
        BY <1>1, <2>2 DEF CacheInv, LateTextsBelong
    <2> QED
        BY <1>1, <1>2, <1>3, <2>1, <2>2, <2>3, AnswerStep
<1>5. CASE ~ hit
    <2> DEFINE r == [reading[l] EXCEPT !.phase = "missed"]
    <2>1. reading' = [reading EXCEPT ![l] = r]
        BY <1>5 DEF LookUpRule, InHand
    <2>2. reading[l] \in LoadState
        BY DEF CacheInv, Types
    <2>3. /\ r \in LoadState /\ r.phase = "missed" /\ r.mtime = reading[l].mtime
          /\ r.queue = reading[l].queue /\ r.snapshots = reading[l].snapshots
        BY <2>2 DEF LoadState, Phase
    <2> HIDE DEF r
    <2>4. /\ 0 < r.mtime /\ r.mtime <= fileClock /\ (onDisk[f].there => r.mtime <= onDisk[f].text)
          /\ r.mtime <= ruleCache[f].text => ruleCache[f].text \in had[l][f]
          /\ \A k \in Loader : (/\ k # l /\ reading[k].phase = "read" /\ InHand(k) = f
                                /\ r.mtime <= reading[k].text) => reading[k].text \in had[l][f]
        BY <1>1, <2>3 DEF CacheInv, TimeFits, LateTextsBelong
    <2> HIDE DEF f
    <2>5. f = InHand(l) /\ r.phase \in Busy /\ r.phase # "read" /\ reading[l].phase # "idle"
        BY <1>1, <2>3 DEF Busy, f
    <2> QED
        BY <1>1, <1>2, <2>1, <2>3, <2>4, <2>5, LoadLooks
<1> QED
    BY <1>4, <1>5

\* What is read is the text the file has now, no older than the time looked at.
LEMMA ReadStep ==
    ASSUME CacheInv, NEW l \in Loader, ReadRule(l)
    PROVE  CacheInv'
<1> DEFINE f == InHand(l)
<1>1. /\ reading[l].phase = "missed" /\ reading[l].phase \in Busy
      /\ UNCHANGED <<onDisk, had, fileClock>>
    BY DEF ReadRule, Busy
<1>2. reading[l].queue # <<>> /\ f \in RuleFile
    BY <1>1, InHandType DEF CacheInv, NothingRunsOut
<1>3. CASE ~ onDisk[f].there
    <2>1. GiveUp(l, f)
        BY <1>3 DEF ReadRule, InHand
    <2> QED
        BY <1>1, <1>2, <2>1, GiveUpStep
<1>4. CASE onDisk[f].there
    <2> DEFINE r == [reading[l] EXCEPT !.phase = "read", !.text = onDisk[f].text]
    <2>1. reading' = [reading EXCEPT ![l] = r] /\ UNCHANGED ruleCache
        BY <1>4 DEF ReadRule, InHand, CacheInv, Types
    <2>2. reading[l] \in LoadState /\ onDisk[f].text \in Nat
        BY <1>2 DEF CacheInv, Types
    <2>3. /\ r \in LoadState /\ r.phase = "read" /\ r.mtime = reading[l].mtime /\ r.text = onDisk[f].text
          /\ r.queue = reading[l].queue /\ r.snapshots = reading[l].snapshots
        BY <2>2 DEF LoadState, Phase
    <2> HIDE DEF r
    <2>4. /\ 0 < r.mtime /\ r.mtime <= fileClock /\ (onDisk[f].there => r.mtime <= onDisk[f].text)
          /\ r.mtime <= ruleCache[f].text => ruleCache[f].text \in had[l][f]
          /\ \A k \in Loader : (/\ k # l /\ reading[k].phase = "read" /\ InHand(k) = f
                                /\ r.mtime <= reading[k].text) => reading[k].text \in had[l][f]
        BY <1>1, <2>3 DEF CacheInv, TimeFits, LateTextsBelong
    <2> HIDE DEF f
    <2>5. f = InHand(l) /\ r.phase \in Busy /\ reading[l].phase # "idle"
        BY <1>1, <2>3 DEF Busy, f
    <2> QED
        BY <1>1, <1>2, <1>4, <2>1, <2>3, <2>4, <2>5, LoadLooks
<1> QED
    BY <1>3, <1>4

\* What is put into the cache is what every load that has looked at its time
\* may take.
LEMMA PutStep ==
    ASSUME CacheInv, NEW l \in Loader, PutRule(l)
    PROVE  CacheInv'
<1> DEFINE f == InHand(l)
           entry == [mtime |-> reading[l].mtime, text |-> reading[l].text]
<1>1. /\ reading[l].phase = "read" /\ reading[l].phase \in Busy
      /\ ruleCache' = [ruleCache EXCEPT ![f] = entry]
      /\ reading' = [reading EXCEPT ![l] = Answered(@, reading[l].text)]
      /\ UNCHANGED <<onDisk, had, fileClock>>
    BY DEF PutRule, Busy, InHand, TimeOfStat, CacheInv, Types
<1>2. reading[l].queue # <<>> /\ f \in RuleFile
    BY <1>1, InHandType DEF CacheInv, NothingRunsOut
<1>3. entry \in [mtime : Nat, text : Nat] /\ entry.mtime = reading[l].mtime /\ entry.text = reading[l].text
    BY Numbers DEF CacheInv
<1> HIDE DEF entry
<1>4. /\ ruleCache' \in [RuleFile -> [mtime : Nat, text : Nat]]
      /\ \A g \in RuleFile : ruleCache'[g] # ruleCache[g] => g = f /\ ruleCache'[g] = entry
    BY <1>1, <1>2, <1>3 DEF CacheInv, Types
<1>5. /\ entry.mtime <= entry.text /\ entry.text <= fileClock
      /\ onDisk[f].there => entry.text <= onDisk[f].text
      /\ entry.text \in had[l][f]
    BY <1>1, <1>3 DEF CacheInv, ReadFits
<1>6. \A k \in Loader : (/\ k # l /\ reading[k].phase \in Busy /\ InHand(k) = f
                         /\ reading[k].mtime <= entry.text) => entry.text \in had[k][f]
    BY <1>1, <1>3 DEF CacheInv, LateTextsBelong
<1>7. \A g \in RuleFile : ruleCache'[g] # ruleCache[g] =>
        /\ ruleCache'[g].mtime <= ruleCache'[g].text /\ ruleCache'[g].text <= fileClock
        /\ onDisk[g].there => ruleCache'[g].text <= onDisk[g].text
        /\ \A k \in Loader : (/\ k # l /\ reading[k].phase \in Busy /\ InHand(k) = g
                              /\ reading[k].mtime <= ruleCache'[g].text)
                              => ruleCache'[g].text \in had[k][g]
    BY <1>4, <1>5, <1>6
<1>8. reading[l].text \in Nat /\ reading[l].text \in had[l][f] /\ reading[l].phase # "idle"
    BY <1>1, <1>3, <1>5, Numbers DEF CacheInv
<1> QED
    BY <1>1, <1>2, <1>4, <1>7, <1>8, AnswerStep

-----------------------------------------------------------------------------
(* Every step keeps the invariant: one case per action.                    *)
THEOREM CacheInvStep == CacheInv /\ [RuleCacheNext]_ruleCacheVars => CacheInv'
<1> SUFFICES ASSUME CacheInv, [RuleCacheNext]_ruleCacheVars PROVE CacheInv'
    OBVIOUS
<1>1. ASSUME NEW f \in RuleFile, WriteRule(f) \/ RemoveRule(f) PROVE CacheInv'
    BY <1>1, UserStep
<1>2. ASSUME NEW l \in Loader, StartLoading(l) PROVE CacheInv'
    BY <1>2, StartStep
<1>3. ASSUME NEW l \in Loader, ListDirectory(l) \/ EndLoading(l) PROVE CacheInv'
    BY <1>3, ListStep
<1>4. ASSUME NEW l \in Loader, StatRule(l) PROVE CacheInv'
    BY <1>4, StatStep
<1>5. ASSUME NEW l \in Loader, LookUpRule(l) PROVE CacheInv'
    BY <1>5, LookUpStep
<1>6. ASSUME NEW l \in Loader, ReadRule(l) PROVE CacheInv'
    BY <1>6, ReadStep
<1>7. ASSUME NEW l \in Loader, PutRule(l) PROVE CacheInv'
    BY <1>7, PutStep
<1>8. CASE UNCHANGED ruleCacheVars
    BY <1>8 DEF ruleCacheVars, CacheInv, Types, NothingRunsOut, DiskFits, CacheFits, TimeFits,
                ReadFits, NowBelongs, LateTextsBelong, SnapshotsAreOfTheLoad, InHand, Now
<1> QED
    BY <1>1, <1>2, <1>3, <1>4, <1>5, <1>6, <1>7, <1>8 DEF RuleCacheNext

\* What getCachedRule gives a load is a text its file had during the load, for
\* any number of loads that share the cache, whatever the user does meanwhile,
\* as long as a write gives a file a new mtime.
THEOREM SnapshotsAreOfTheLoadAlways == RuleCacheSpec => []SnapshotsAreOfTheLoad
<1>1. CacheInv => SnapshotsAreOfTheLoad
    BY DEF CacheInv
<1> QED
    BY <1>1, CacheInvInit, CacheInvStep, PTL DEF RuleCacheSpec

-----------------------------------------------------------------------------
(* No rule is skipped. The snapshots of a load and what it has still to    *)
(* read are one row of names, which is in the order of the directories.    *)
Total(r) == Len(r.snapshots) + Len(r.queue)
NameIn(r, i) == IF i <= Len(r.snapshots) THEN r.snapshots[i][1] ELSE r.queue[i - Len(r.snapshots)]
ListedDirs(r) == Len(RuleDirs) - Len(r.dirs)

\* The directories that are left are the last ones.
DirsAreLeft(r) ==
    /\ Len(r.dirs) <= Len(RuleDirs)
    /\ \A k \in 1 .. Len(r.dirs) : r.dirs[k] = RuleDirs[ListedDirs(r) + k]
    /\ r.phase # "listing" => r.dirs = <<>>
    /\ r.phase = "loaded" => r.queue = <<>>

\* Every name is of a directory that was listed, and none comes before one of
\* an earlier directory or twice.
RowIsInOrder(r) ==
    /\ \A i \in 1 .. Total(r) : \E d \in 1 .. ListedDirs(r) : NameIn(r, i) \in RuleDirs[d]
    /\ \A i, j \in 1 .. Total(r) : i < j =>
         /\ NameIn(r, i) # NameIn(r, j)
         /\ \A d, e \in DOMAIN RuleDirs : NameIn(r, i) \in RuleDirs[d] /\ NameIn(r, j) \in RuleDirs[e] => d <= e

\* A file of a directory that was listed is in the row, or it was not there for
\* some of the time.
NoneIsMissing(r, has) ==
    \A d \in 1 .. ListedDirs(r) : \A f \in RuleDirs[d] :
        Absent \in has[f] \/ \E i \in 1 .. Total(r) : NameIn(r, i) = f

RowOK(r, has) == DirsAreLeft(r) /\ RowIsInOrder(r) /\ NoneIsMissing(r, has)
RowsInv == \A l \in Loader : reading[l].phase # "idle" => RowOK(reading[l], had[l])

\* The numbers a row is made of.
LEMMA RowNumbers ==
    ASSUME NEW r \in LoadState
    PROVE  /\ Len(r.snapshots) \in Nat /\ Len(r.queue) \in Nat /\ Len(r.dirs) \in Nat
           /\ Total(r) \in Nat /\ Len(RuleDirs) \in Nat /\ DOMAIN RuleDirs = 1 .. Len(RuleDirs)
           /\ \A i \in 1 .. Total(r) : NameIn(r, i) \in RuleFile
<1> DEFINE S == r.snapshots
           Q == r.queue
           a == Len(S)
           b == Len(Q)
<1>1. S \in Seq(RuleFile \X Nat) /\ Q \in Seq(RuleFile) /\ r.dirs \in Seq(SUBSET RuleFile)
    BY DEF LoadState
<1>2. RuleDirs \in Seq(SUBSET RuleFile)
    OBVIOUS
<1>3. /\ a \in Nat /\ b \in Nat /\ Len(r.dirs) \in Nat
      /\ Len(RuleDirs) \in Nat /\ DOMAIN RuleDirs = 1 .. Len(RuleDirs)
    BY <1>1, <1>2, LenProperties
<1>4. \A i \in 1 .. a : S[i][1] \in RuleFile
    <2>1. \A i \in 1 .. a : S[i] \in RuleFile \X Nat
        BY <1>1, ElementOfSeq
    <2> QED
        BY <2>1
<1>5. \A i \in 1 .. b : Q[i] \in RuleFile
    BY <1>1, ElementOfSeq
<1>6. Total(r) = a + b /\ \A i \in Int : NameIn(r, i) = IF i <= a THEN S[i][1] ELSE Q[i - a]
    BY DEF Total, NameIn
<1>7. a = Len(r.snapshots) /\ b = Len(r.queue)
    OBVIOUS
<1> HIDE DEF S, Q, a, b
<1>8. \A i \in 1 .. Total(r) : NameIn(r, i) \in RuleFile
    <2> SUFFICES ASSUME NEW i \in 1 .. a + b PROVE NameIn(r, i) \in RuleFile
        BY <1>6
    <2>1. CASE i <= a
        BY <1>3, <1>4, <1>6, <2>1
    <2>2. CASE ~ (i <= a)
        <3>1. i - a \in 1 .. b
            BY <1>3, <2>2
        <3> QED
            BY <1>5, <1>6, <2>2, <3>1
    <2> QED
        BY <2>1, <2>2
<1>9. Total(r) \in Nat /\ Len(r.snapshots) \in Nat /\ Len(r.queue) \in Nat
    <2>1. Total(r) \in Nat
        BY <1>3, <1>6
    <2> QED
        BY <1>3, <1>7, <2>1
<1> QED
    BY <1>3, <1>8, <1>9

\* What an answer does to the row: nothing, or the file in hand is left out.
LEMMA RowAnswered ==
    ASSUME NEW r \in LoadState, r.queue # <<>>, NEW text \in Nat, NEW q, q = Answered(r, text)
    PROVE  /\ q.dirs = r.dirs /\ q.phase = "next"
           /\ Len(r.snapshots) + 1 \in 1 .. Total(r) /\ NameIn(r, Len(r.snapshots) + 1) = Head(r.queue)
           /\ text # Absent => /\ Total(q) = Total(r)
                               /\ \A i \in 1 .. Total(r) : NameIn(q, i) = NameIn(r, i)
           /\ text = Absent => /\ Total(q) = Total(r) - 1
                               /\ \A i \in 1 .. Total(q) :
                                    NameIn(q, i) = NameIn(r, IF i <= Len(r.snapshots) THEN i ELSE i + 1)
<1> DEFINE S == r.snapshots
           Q == r.queue
           T == Tail(Q)
           U == q.snapshots
           a == Len(S)
           b == Len(Q)
<1>1. S \in Seq(RuleFile \X Nat) /\ Q \in Seq(RuleFile) /\ Q # <<>>
    BY DEF LoadState
<1>2. /\ q.dirs = r.dirs /\ q.phase = "next" /\ q.queue = T
      /\ U = IF text = Absent THEN S ELSE Append(S, <<Head(Q), text>>)
    BY DEF Answered, LeftAfter, LoadState
<1>3. /\ Head(Q) \in RuleFile /\ Head(Q) = Q[1]
      /\ b \in Nat /\ b >= 1
      /\ Len(T) = b - 1
      /\ \A i \in 1 .. b - 1 : T[i] = Q[i + 1]
    BY <1>1, HeadTailProperties, EmptySeq, LenProperties
<1>4. a \in Nat
    BY <1>1, LenProperties
<1>5. /\ Total(r) = a + b /\ \A i \in Int : NameIn(r, i) = IF i <= a THEN S[i][1] ELSE Q[i - a]
      /\ Total(q) = Len(U) + Len(T) /\ \A i \in Int : NameIn(q, i) = IF i <= Len(U) THEN U[i][1] ELSE T[i - Len(U)]
    BY <1>2 DEF Total, NameIn
<1>6. /\ text = Absent => U = S
      /\ text # Absent => /\ Len(U) = a + 1
                          /\ \A i \in 1 .. a : U[i] = S[i]
                          /\ U[a + 1] = <<Head(Q), text>>
    <2>1. <<Head(Q), text>> \in RuleFile \X Nat
        BY <1>3
    <2> QED
        BY <1>1, <1>2, <2>1, AppendProperties
<1>7. a = Len(r.snapshots) /\ Q = r.queue /\ a = Len(S)
    OBVIOUS
<1> HIDE DEF S, Q, T, U, a, b
<1>8. a + 1 \in 1 .. Total(r) /\ NameIn(r, a + 1) = Head(Q)
    <2>1. (a + 1) - a = 1 /\ ~ (a + 1 <= a) /\ a + 1 \in 1 .. a + b
        BY <1>3, <1>4
    <2> QED
        BY <1>3, <1>5, <2>1
<1>9. ASSUME text = Absent
      PROVE  /\ Total(q) = Total(r) - 1
             /\ \A i \in 1 .. Total(q) : NameIn(q, i) = NameIn(r, IF i <= a THEN i ELSE i + 1)
    <2>1. Len(U) = a /\ U = S
        BY <1>6, <1>7, <1>9
    <2>2. Total(q) = a + (b - 1) /\ Total(q) = Total(r) - 1
        BY <1>3, <1>4, <1>5, <2>1
    <2>3. ASSUME NEW i \in 1 .. Total(q)
          PROVE  NameIn(q, i) = NameIn(r, IF i <= a THEN i ELSE i + 1)
        <3>1. CASE i <= a
            BY <1>5, <2>1, <3>1
        <3>2. CASE ~ (i <= a)
            <4>1. i - a \in 1 .. b - 1 /\ (i - a) + 1 = (i + 1) - a /\ ~ (i + 1 <= a)
                BY <1>3, <1>4, <2>2, <3>2
            <4>2. i \in Int /\ i + 1 \in Int
                BY <1>3, <1>4, <2>2
            <4>3. NameIn(q, i) = T[i - a]
                BY <1>5, <2>1, <3>2, <4>2
            <4>4. T[i - a] = Q[(i - a) + 1]
                BY <1>3, <4>1
            <4>5. NameIn(r, i + 1) = Q[(i + 1) - a]
                BY <1>5, <4>1, <4>2
            <4> QED
                BY <3>2, <4>1, <4>3, <4>4, <4>5
        <3> QED
            BY <3>1, <3>2
    <2> QED
        BY <2>2, <2>3
<1>10. ASSUME text # Absent
       PROVE  /\ Total(q) = Total(r)
              /\ \A i \in 1 .. Total(r) : NameIn(q, i) = NameIn(r, i)
    <2>1. /\ Len(U) = a + 1
          /\ \A i \in 1 .. a : U[i] = S[i]
          /\ U[a + 1] = <<Head(Q), text>>
        BY <1>6, <1>10
    <2>2. Total(q) = Total(r)
        BY <1>3, <1>4, <1>5, <2>1
    <2>3. ASSUME NEW i \in 1 .. Total(r)
          PROVE  NameIn(q, i) = NameIn(r, i)
        <3>1. CASE i <= a
            <4>1. i <= a + 1 /\ i \in 1 .. a /\ i \in Int
                BY <1>3, <1>4, <1>5, <3>1
            <4>2. U[i] = S[i]
                BY <2>1, <4>1
            <4>3. NameIn(q, i) = U[i][1]
                BY <1>5, <2>1, <4>1
            <4>4. NameIn(r, i) = S[i][1]
                BY <1>5, <3>1, <4>1
            <4> QED
                BY <4>2, <4>3, <4>4
        <3>2. CASE i = a + 1
            <4>1. NameIn(q, i) = U[a + 1][1]
                BY <1>4, <1>5, <2>1, <3>2
            <4>2. U[a + 1][1] = Head(Q)
                BY <2>1
            <4> QED
                BY <1>8, <3>2, <4>1, <4>2
        <3>3. CASE i > a + 1
            <4>1. i - (a + 1) \in 1 .. b - 1 /\ (i - (a + 1)) + 1 = i - a /\ ~ (i <= a) /\ ~ (i <= a + 1)
                BY <1>3, <1>4, <1>5, <3>3
            <4>2. i \in Int
                BY <1>3, <1>4, <1>5
            <4>3. NameIn(q, i) = T[i - (a + 1)]
                BY <1>5, <2>1, <4>1, <4>2
            <4>4. T[i - (a + 1)] = Q[(i - (a + 1)) + 1]
                BY <1>3, <4>1
            <4>5. NameIn(r, i) = Q[i - a]
                BY <1>5, <4>1, <4>2
            <4> QED
                BY <4>1, <4>3, <4>4, <4>5
        <3>4. i <= a \/ i = a + 1 \/ i > a + 1
            BY <1>3, <1>4, <1>5
        <3> QED
            BY <3>1, <3>2, <3>3, <3>4
    <2> QED
        BY <2>2, <2>3
<1> QED
    BY <1>2, <1>7, <1>8, <1>9, <1>10

\* What a listing does to the row: its files come behind.
LEMMA RowListed ==
    ASSUME NEW r \in LoadState, NEW listing \in Seq(RuleFile), NEW q, q = Listed(r, listing)
    PROVE  /\ Total(q) = Total(r) + Len(listing)
           /\ \A i \in 1 .. Total(q) :
                NameIn(q, i) = IF i <= Total(r) THEN NameIn(r, i) ELSE listing[i - Total(r)]
           /\ q.queue = r.queue \o listing
           /\ q.snapshots = r.snapshots
<1> DEFINE S == r.snapshots
           Q == r.queue
           R == q.queue
           a == Len(S)
           b == Len(Q)
           c == Len(listing)
<1>1. S \in Seq(RuleFile \X Nat) /\ Q \in Seq(RuleFile)
    BY DEF LoadState
<1>2. R = Q \o listing /\ q.snapshots = S
    BY DEF Listed, LoadState
<1>3. a \in Nat /\ b \in Nat /\ c \in Nat
    BY <1>1, LenProperties
<1>4. /\ Len(R) = b + c
      /\ \A i \in 1 .. b + c : R[i] = IF i <= b THEN Q[i] ELSE listing[i - b]
    BY <1>1, <1>2, ConcatProperties
<1>5. /\ Total(r) = a + b /\ \A i \in Int : NameIn(r, i) = IF i <= a THEN S[i][1] ELSE Q[i - a]
      /\ Total(q) = a + Len(R) /\ \A i \in Int : NameIn(q, i) = IF i <= a THEN S[i][1] ELSE R[i - a]
    BY <1>2 DEF Total, NameIn
<1>6. c = Len(listing)
    OBVIOUS
<1>7. R = r.queue \o listing /\ q.snapshots = r.snapshots /\ R = q.queue
    BY <1>2
<1> HIDE DEF S, Q, R, a, b, c
<1>8. Total(q) = Total(r) + c
    BY <1>3, <1>4, <1>5
<1>9. ASSUME NEW i \in 1 .. Total(q)
      PROVE  NameIn(q, i) = IF i <= Total(r) THEN NameIn(r, i) ELSE listing[i - Total(r)]
    <2>1. CASE i <= a
        <3>1. i <= a + b
            BY <1>3, <1>5, <1>8, <2>1
        <3> QED
            BY <1>5, <2>1, <3>1
    <2>2. CASE ~ (i <= a)
        <3>0. i \in Int /\ i <= (a + b) + c
            BY <1>3, <1>5, <1>8
        <3>1. /\ i - a \in 1 .. b + c
              /\ (i <= a + b) <=> (i - a <= b)
              /\ (i - a) - b = i - (a + b)
            BY <1>3, <2>2, <3>0
        <3> QED
            BY <1>4, <1>5, <2>2, <3>1
    <2> QED
        BY <2>1, <2>2
<1> QED
    BY <1>6, <1>7, <1>8, <1>9

\* A load that keeps its row keeps what holds of it.
LEMMA RowKept ==
    ASSUME NEW r, NEW q, NEW has, RowOK(r, has),
           q.dirs = r.dirs, q.queue = r.queue, q.snapshots = r.snapshots,
           r.phase = "listing" => q.phase = "listing",
           q.phase = "loaded" => r.queue = <<>>
    PROVE  RowOK(q, has)
<1>1. Total(q) = Total(r) /\ ListedDirs(q) = ListedDirs(r) /\ \A i : NameIn(q, i) = NameIn(r, i)
    BY DEF Total, ListedDirs, NameIn
<1>2. DirsAreLeft(q)
    BY <1>1 DEF RowOK, DirsAreLeft
<1>3. RowIsInOrder(q) /\ NoneIsMissing(q, has)
    BY <1>1 DEF RowOK, RowIsInOrder, NoneIsMissing
<1> QED
    BY <1>2, <1>3 DEF RowOK

\* What a file was is not taken back.
LEMMA RowOutlivesEdits ==
    ASSUME NEW r \in LoadState, NEW has, NEW now, RowOK(r, has),
           \A f \in RuleFile : has[f] \subseteq now[f]
    PROVE  RowOK(r, now)
<1>1. \A d \in 1 .. ListedDirs(r) : RuleDirs[d] \subseteq RuleFile
    <2>1. \A d \in 1 .. Len(RuleDirs) : RuleDirs[d] \in SUBSET RuleFile
        BY ElementOfSeq
    <2>2. Len(r.dirs) \in Nat /\ Len(RuleDirs) \in Nat
        BY RowNumbers
    <2> QED
        BY <2>1, <2>2 DEF ListedDirs
<1>2. NoneIsMissing(r, now)
    BY <1>1 DEF RowOK, NoneIsMissing
<1> QED
    BY <1>2 DEF RowOK

\* A file that cannot be read is left out, any other one becomes a snapshot.
LEMMA RowAfterAnswer ==
    ASSUME NEW r \in LoadState, NEW has, RowOK(r, has), r.queue # <<>>, r.phase # "listing",
           NEW text \in Nat, text = Absent => Absent \in has[Head(r.queue)],
           NEW q, q = Answered(r, text)
    PROVE  RowOK(q, has)
<1> DEFINE a == Len(r.snapshots)
           n == Total(r)
           m == Total(q)
           from(i) == IF text = Absent /\ ~ (i <= a) THEN i + 1 ELSE i
<1>1. a \in Nat /\ n \in Nat /\ a + 1 \in 1 .. n
    BY RowNumbers, RowAnswered
<1>2. /\ q.dirs = r.dirs /\ q.phase = "next"
      /\ NameIn(r, a + 1) = Head(r.queue)
      /\ text # Absent => m = n /\ \A i \in 1 .. n : NameIn(q, i) = NameIn(r, i)
      /\ text = Absent => m = n - 1 /\ \A i \in 1 .. m : NameIn(q, i) = NameIn(r, IF i <= a THEN i ELSE i + 1)
    BY RowAnswered
<1>3. ListedDirs(q) = ListedDirs(r)
    BY <1>2 DEF ListedDirs
<1>4. DirsAreLeft(q)
    BY <1>2, <1>3 DEF RowOK, DirsAreLeft
<1> HIDE DEF a, n, m
<1>5. m \in Nat /\ m <= n
    BY <1>1, <1>2
<1>6. \A i \in 1 .. m : from(i) \in 1 .. n /\ NameIn(q, i) = NameIn(r, from(i))
    <2>1. CASE text = Absent
        BY <1>1, <1>2, <2>1
    <2>2. CASE text # Absent
        BY <1>1, <1>2, <2>2
    <2> QED
        BY <2>1, <2>2
<1>7. \A i, j \in 1 .. m : i < j => from(i) < from(j)
    BY <1>1, <1>5
<1>8. \A j \in 1 .. n : (\E i \in 1 .. m : from(i) = j) \/ (text = Absent /\ j = a + 1)
    <2> SUFFICES ASSUME NEW j \in 1 .. n, ~ (text = Absent /\ j = a + 1)
                 PROVE  \E i \in 1 .. m : from(i) = j
        OBVIOUS
    <2>1. CASE text = Absent /\ j > a + 1
        <3>1. j - 1 \in 1 .. m /\ ~ (j - 1 <= a) /\ (j - 1) + 1 = j
            BY <1>1, <1>2, <2>1
        <3> QED
            BY <2>1, <3>1
    <2>2. CASE text = Absent /\ j <= a
        <3>1. j \in 1 .. m
            BY <1>1, <1>2, <2>2
        <3> QED
            BY <2>2, <3>1
    <2>3. CASE text # Absent
        BY <1>2, <2>3
    <2>4. j > a + 1 \/ j = a + 1 \/ j <= a
        BY <1>1
    <2> QED
        BY <2>1, <2>2, <2>3, <2>4
<1> HIDE DEF from
<1>9. /\ \A i \in 1 .. n : \E d \in 1 .. ListedDirs(r) : NameIn(r, i) \in RuleDirs[d]
      /\ \A i, j \in 1 .. n : i < j =>
         /\ NameIn(r, i) # NameIn(r, j)
         /\ \A d, e \in DOMAIN RuleDirs : NameIn(r, i) \in RuleDirs[d] /\ NameIn(r, j) \in RuleDirs[e] => d <= e
    BY DEF RowOK, RowIsInOrder, n
<1>10. /\ \A i \in 1 .. m : \E d \in 1 .. ListedDirs(q) : NameIn(q, i) \in RuleDirs[d]
       /\ \A i, j \in 1 .. m : i < j =>
          /\ NameIn(q, i) # NameIn(q, j)
          /\ \A d, e \in DOMAIN RuleDirs : NameIn(q, i) \in RuleDirs[d] /\ NameIn(q, j) \in RuleDirs[e] => d <= e
    BY <1>3, <1>6, <1>7, <1>9
<1>11. ASSUME NEW d \in 1 .. ListedDirs(q), NEW f \in RuleDirs[d], Absent \notin has[f]
       PROVE  \E i \in 1 .. m : NameIn(q, i) = f
    <2>1. PICK j \in 1 .. n : NameIn(r, j) = f
        BY <1>3, <1>11 DEF RowOK, NoneIsMissing, n
    <2>2. ~ (text = Absent /\ j = a + 1)
        BY <1>2, <1>11, <2>1
    <2>3. PICK i \in 1 .. m : from(i) = j
        BY <1>8, <2>2
    <2> QED
        BY <1>6, <2>1, <2>3
<1> QED
    BY <1>4, <1>10, <1>11 DEF RowOK, RowIsInOrder, NoneIsMissing, m

\* A directory comes behind those that were listed.
LEMMA RowAfterListing ==
    ASSUME DirectoriesAreApart, NEW r \in LoadState, NEW has, RowOK(r, has),
           r.phase = "listing", r.dirs # <<>>,
           NEW listing \in Seq(RuleFile), NEW q, q = Listed(r, listing),
           \A i \in 1 .. Len(listing) : listing[i] \in Head(r.dirs),
           \A i, j \in 1 .. Len(listing) : listing[i] = listing[j] => i = j,
           \A f \in Head(r.dirs) : Absent \in has[f] \/ \E i \in 1 .. Len(listing) : listing[i] = f
    PROVE  RowOK(q, has)
<1> DEFINE n == Total(r)
           c == Len(listing)
           k == ListedDirs(r)
           left == Len(r.dirs)
           all == Len(RuleDirs)
<1>1. n \in Nat /\ c \in Nat /\ left \in Nat /\ all \in Nat /\ DOMAIN RuleDirs = 1 .. all
    BY RowNumbers, LenProperties
<1>2. /\ Total(q) = n + c
      /\ \A i \in 1 .. n + c : NameIn(q, i) = IF i <= n THEN NameIn(r, i) ELSE listing[i - n]
    BY RowListed
<1>3. /\ left > 0 /\ Head(r.dirs) = r.dirs[1]
      /\ Len(Tail(r.dirs)) = left - 1
      /\ \A i \in 1 .. left - 1 : Tail(r.dirs)[i] = r.dirs[i + 1]
    <2>1. r.dirs \in Seq(SUBSET RuleFile)
        BY DEF LoadState
    <2> QED
        BY <2>1, HeadTailProperties, EmptySeq, LenProperties
<1>4. q.dirs = Tail(r.dirs) /\ q.phase = IF left = 1 THEN "next" ELSE "listing"
    BY DEF Listed, LoadState
<1>5. left <= all /\ k = all - left /\ \A i \in 1 .. left : r.dirs[i] = RuleDirs[k + i]
    BY DEF RowOK, DirsAreLeft, ListedDirs
<1>6. Len(q.dirs) = left - 1 /\ ListedDirs(q) = k + 1
    <2>1. ListedDirs(q) = all - Len(q.dirs)
        BY DEF ListedDirs
    <2>2. Len(q.dirs) = left - 1
        BY <1>3, <1>4
    <2> HIDE DEF all, left, k
    <2> QED
        BY <1>1, <1>5, <2>1, <2>2
<1>7. left = 1 => q.dirs = <<>>
    <2>1. q.dirs \in Seq(SUBSET RuleFile)
        BY <1>3, <1>4, HeadTailProperties DEF LoadState
    <2> QED
        BY <1>6, <2>1, EmptySeq
<1>8. /\ \A i \in 1 .. n : \E d \in 1 .. k : NameIn(r, i) \in RuleDirs[d]
      /\ \A i, j \in 1 .. n : i < j =>
         /\ NameIn(r, i) # NameIn(r, j)
         /\ \A d, e \in DOMAIN RuleDirs : NameIn(r, i) \in RuleDirs[d] /\ NameIn(r, j) \in RuleDirs[e] => d <= e
      /\ \A d \in 1 .. k : \A f \in RuleDirs[d] : Absent \in has[f] \/ \E i \in 1 .. n : NameIn(r, i) = f
    BY DEF RowOK, RowIsInOrder, NoneIsMissing
<1>9. \A i \in 1 .. c : listing[i] \in Head(r.dirs)
    OBVIOUS
<1>10. \A i, j \in 1 .. c : listing[i] = listing[j] => i = j
    OBVIOUS
<1>11. \A f \in Head(r.dirs) : Absent \in has[f] \/ \E i \in 1 .. c : listing[i] = f
    OBVIOUS
<1> HIDE DEF n, c, k, left, all
<1>12. Head(r.dirs) = RuleDirs[k + 1] /\ k + 1 \in 1 .. all /\ k \in Nat
    BY <1>1, <1>3, <1>5
<1>13. DirsAreLeft(q)
    <2>1. left - 1 <= all
        BY <1>1, <1>5
    <2>2. ASSUME NEW i \in 1 .. left - 1 PROVE q.dirs[i] = RuleDirs[(k + 1) + i]
        <3>1. i + 1 \in 1 .. left /\ k + (i + 1) = (k + 1) + i
            BY <1>1, <1>12
        <3> QED
            BY <1>3, <1>4, <1>5, <3>1
    <2> QED
        BY <1>4, <1>6, <1>7, <2>1, <2>2 DEF DirsAreLeft, all
<1>14. \A i \in 1 .. n : i \in 1 .. n + c /\ NameIn(q, i) = NameIn(r, i)
    BY <1>1, <1>2
<1>15. \A i \in 1 .. n + c : i <= n => i \in 1 .. n
    BY <1>1
<1>16. \A i \in 1 .. n + c : ~ (i <= n) =>
         i - n \in 1 .. c /\ NameIn(q, i) = listing[i - n] /\ NameIn(q, i) \in RuleDirs[k + 1]
    <2> SUFFICES ASSUME NEW i \in 1 .. n + c, ~ (i <= n)
                 PROVE  i - n \in 1 .. c /\ NameIn(q, i) = listing[i - n] /\ NameIn(q, i) \in RuleDirs[k + 1]
        OBVIOUS
    <2>1. i - n \in 1 .. c
        BY <1>1
    <2> QED
        BY <1>2, <1>9, <1>12, <2>1
<1>17. \A i \in 1 .. n + c : \E d \in 1 .. k + 1 : NameIn(q, i) \in RuleDirs[d]
    BY <1>8, <1>12, <1>14, <1>15, <1>16
<1>18. \A d \in 1 .. k + 1 : d \in DOMAIN RuleDirs
    BY <1>1, <1>12
<1>19. ASSUME NEW i \in 1 .. n + c, NEW j \in 1 .. n + c, i < j
       PROVE  /\ NameIn(q, i) # NameIn(q, j)
              /\ \A d, e \in DOMAIN RuleDirs : NameIn(q, i) \in RuleDirs[d] /\ NameIn(q, j) \in RuleDirs[e] => d <= e
    <2>1. CASE i <= n /\ j <= n
        <3>1. i \in 1 .. n /\ j \in 1 .. n
            BY <1>15, <2>1
        <3> QED
            BY <1>8, <1>14, <1>19, <3>1
    <2>2. CASE i <= n /\ ~ (j <= n)
        <3>1. i \in 1 .. n /\ NameIn(q, i) = NameIn(r, i)
            BY <1>14, <1>15, <2>2
        <3>2. PICK d0 \in 1 .. k : NameIn(q, i) \in RuleDirs[d0]
            BY <1>8, <3>1
        <3>3. NameIn(q, j) \in RuleDirs[k + 1]
            BY <1>16, <2>2
        <3>4. d0 \in DOMAIN RuleDirs /\ k + 1 \in DOMAIN RuleDirs /\ d0 < k + 1
            BY <1>1, <1>12
        <3>5. \A d \in DOMAIN RuleDirs : NameIn(q, i) \in RuleDirs[d] => d = d0
            BY <3>2, <3>4 DEF DirectoriesAreApart
        <3>6. \A e \in DOMAIN RuleDirs : NameIn(q, j) \in RuleDirs[e] => e = k + 1
            BY <3>3, <3>4 DEF DirectoriesAreApart
        <3>7. NameIn(q, i) # NameIn(q, j)
            BY <1>12, <3>3, <3>4, <3>5
        <3>8. d0 <= k + 1
            BY <1>12
        <3> QED
            BY <3>5, <3>6, <3>7, <3>8
    <2>3. CASE ~ (i <= n) /\ ~ (j <= n)
        <3>1. /\ i - n \in 1 .. c /\ NameIn(q, i) = listing[i - n] /\ NameIn(q, i) \in RuleDirs[k + 1]
              /\ j - n \in 1 .. c /\ NameIn(q, j) = listing[j - n] /\ NameIn(q, j) \in RuleDirs[k + 1]
            BY <1>16, <2>3
        <3>2. i - n # j - n
            BY <1>1, <1>19
        <3>3. k + 1 \in DOMAIN RuleDirs
            BY <1>1, <1>12
        <3>4. \A d \in DOMAIN RuleDirs : NameIn(q, i) \in RuleDirs[d] => d = k + 1
            BY <3>1, <3>3 DEF DirectoriesAreApart
        <3>5. \A e \in DOMAIN RuleDirs : NameIn(q, j) \in RuleDirs[e] => e = k + 1
            BY <3>1, <3>3 DEF DirectoriesAreApart
        <3>6. k + 1 <= k + 1
            BY <1>12
        <3> QED
            BY <1>10, <3>1, <3>2, <3>4, <3>5, <3>6
    <2>4. i <= n \/ (~ (i <= n) /\ ~ (j <= n))
        BY <1>1, <1>19
    <2> QED
        BY <2>1, <2>2, <2>3, <2>4
<1>20. ASSUME NEW d \in 1 .. k + 1, NEW f \in RuleDirs[d], Absent \notin has[f]
       PROVE  \E i \in 1 .. n + c : NameIn(q, i) = f
    <2>1. CASE d = k + 1
        <3>1. PICK i \in 1 .. c : listing[i] = f
            BY <1>11, <1>12, <1>20, <2>1
        <3>2. i + n \in 1 .. n + c /\ (i + n) - n = i /\ ~ (i + n <= n)
            BY <1>1
        <3> QED
            BY <1>16, <3>1, <3>2
    <2>2. CASE d # k + 1
        <3>1. d \in 1 .. k
            BY <1>12, <2>2
        <3>2. PICK i \in 1 .. n : NameIn(r, i) = f
            BY <1>8, <1>20, <3>1
        <3> QED
            BY <1>14, <3>2
    <2> QED
        BY <2>1, <2>2
<1>21. RowIsInOrder(q)
    BY <1>2, <1>6, <1>17, <1>19 DEF RowIsInOrder
<1>22. NoneIsMissing(q, has)
    BY <1>2, <1>6, <1>20 DEF NoneIsMissing
<1> QED
    BY <1>13, <1>21, <1>22 DEF RowOK

\* A listing names each file of the directory that is there, once.
LEMMA ListingIsOfTheDirectory ==
    ASSUME NEW dir \in SUBSET RuleFile, NEW listing \in Listings(dir)
    PROVE  /\ \A i \in 1 .. Len(listing) : listing[i] \in dir
           /\ \A i, j \in 1 .. Len(listing) : listing[i] = listing[j] => i = j
           /\ \A f \in dir : onDisk[f].there => \E i \in 1 .. Len(listing) : listing[i] = f
<1> DEFINE S == {f \in dir : onDisk[f].there}
           n == Cardinality(S)
<1>1. IsFiniteSet(S)
    <2>1. S \subseteq RuleFile
        OBVIOUS
    <2> QED
        BY <2>1, FS_Subset
<1>2. n \in Nat
    BY <1>1, FS_CardinalityType
<1>3. listing \in [1 .. n -> S] /\ \A i, j \in 1 .. n : listing[i] = listing[j] => i = j
    BY DEF Listings, SetToSeqs
<1>4. n = Cardinality(S) /\ S \subseteq dir /\ \A f \in dir : onDisk[f].there => f \in S
    OBVIOUS
<1> HIDE DEF S, n
<1>5. Len(listing) = n
    <2>1. listing \in Seq(S) /\ DOMAIN listing = 1 .. n
        BY <1>2, <1>3, SeqDef
    <2> QED
        BY <1>2, <2>1, LenProperties
<1>6. \A f \in S : \E i \in 1 .. n : listing[i] = f
    <2> DEFINE T == {listing[i] : i \in 1 .. n}
    <2>1. ExistsBijection(1 .. n, T)
        <3>1. listing \in [1 .. n -> T] /\ \A t \in T : \E i \in 1 .. n : listing[i] = t
            BY <1>3
        <3>2. listing \in Bijection(1 .. n, T)
            BY <1>3, <3>1 DEF Bijection, Injection, Surjection, IsInjective
        <3> QED
            BY <3>2 DEF ExistsBijection
    <2>2. Cardinality(T) = n
        BY <1>2, <2>1, FS_CountingElements
    <2>3. T \subseteq S
        BY <1>3
    <2> HIDE DEF T
    <2>4. T = S
        BY <1>1, <1>4, <2>2, <2>3, FS_Subset
    <2> QED
        BY <2>4 DEF T
<1> QED
    BY <1>3, <1>4, <1>5, <1>6

\* At the start no load is under way.
LEMMA RowsStart == RuleCacheInit => RowsInv
BY DEF RuleCacheInit, RowsInv, NotLoading

\* One load takes a step, and its row is in order after it.
LEMMA OneRow ==
    ASSUME CacheInv, RowsInv, NEW l \in Loader, NEW r,
           reading' = [reading EXCEPT ![l] = r], UNCHANGED had,
           RowOK(r, had[l])
    PROVE  RowsInv'
<1>1. reading'[l] = r /\ \A k \in Loader : k # l => reading'[k] = reading[k]
    BY DEF CacheInv, Types
<1> QED
    BY <1>1 DEF RowsInv

\* The same for a load that was told what a file holds.
LEMMA OneRowAnswered ==
    ASSUME CacheInv, RowsInv, NEW l \in Loader, NEW text \in Nat,
           reading[l].queue # <<>>, reading[l].phase \notin {"idle", "listing"},
           text = Absent => Absent \in had[l][InHand(l)],
           reading' = [reading EXCEPT ![l] = Answered(@, text)], UNCHANGED had
    PROVE  RowsInv'
<1> DEFINE r == reading[l]
           q == Answered(r, text)
<1>1. r \in LoadState /\ RowOK(r, had[l])
    BY DEF CacheInv, Types, RowsInv
<1>2. RowOK(q, had[l])
    <2>1. r.queue # <<>> /\ r.phase # "listing" /\ (text = Absent => Absent \in had[l][Head(r.queue)])
        BY DEF InHand
    <2> HIDE DEF r
    <2> QED
        BY <1>1, <2>1, RowAfterAnswer
<1>3. reading' = [reading EXCEPT ![l] = q]
    OBVIOUS
<1> HIDE DEF q
<1> QED
    BY <1>2, <1>3, OneRow

\* Every step keeps the rows in order.
LEMMA RowsStep ==
    ASSUME DirectoriesAreApart, CacheInv, RowsInv, [RuleCacheNext]_ruleCacheVars
    PROVE  RowsInv'
<1>1. \A l \in Loader : reading[l] \in LoadState
    BY DEF CacheInv, Types
<1>2. ASSUME NEW f \in RuleFile, WriteRule(f) \/ RemoveRule(f) PROVE RowsInv'
    <2>1. PICK now : UserChanges(f, now)
        BY <1>2 DEF WriteRule, RemoveRule
    <2>2. UNCHANGED reading /\ \A l \in Loader, g \in RuleFile : had[l][g] \subseteq had'[l][g]
        BY <2>1 DEF UserChanges, CacheInv, Types
    <2> SUFFICES ASSUME NEW l \in Loader, reading[l].phase # "idle" PROVE RowOK(reading[l], had'[l])
        BY <2>2 DEF RowsInv
    <2>3. RowOK(reading[l], had[l]) /\ \A g \in RuleFile : had[l][g] \subseteq had'[l][g]
        BY <2>2 DEF RowsInv
    <2> QED
        BY <1>1, <2>3, RowOutlivesEdits
<1>3. ASSUME NEW l \in Loader, StartLoading(l) PROVE RowsInv'
    <2> DEFINE r == [NotLoading EXCEPT !.phase = "listing", !.dirs = RuleDirs]
    <2>1. /\ r.dirs = RuleDirs /\ r.phase = "listing" /\ r.queue = <<>> /\ r.snapshots = <<>>
          /\ reading'[l] = r
          /\ \A k \in Loader : k # l => reading'[k] = reading[k] /\ had'[k] = had[k]
        BY <1>3 DEF StartLoading, NotLoading, CacheInv, Types
    <2> HIDE DEF r
    <2>2. Len(<<>>) = 0 /\ Len(RuleDirs) \in Nat
        BY EmptySeq, LenProperties
    <2>3. Total(r) = 0
        BY <2>1, <2>2 DEF Total
    <2>4. ListedDirs(r) = 0
        BY <2>1, <2>2 DEF ListedDirs
    <2>5. DirsAreLeft(r)
        BY <2>1, <2>2, <2>4 DEF DirsAreLeft
    <2>6. RowIsInOrder(r) /\ NoneIsMissing(r, had'[l])
        BY <2>3, <2>4 DEF RowIsInOrder, NoneIsMissing
    <2> QED
        BY <2>1, <2>5, <2>6 DEF RowsInv, RowOK
<1>4. ASSUME NEW l \in Loader, ListDirectory(l) PROVE RowsInv'
    <2> DEFINE r == reading[l]
    <2>1. PICK listing \in Listings(Head(r.dirs)) :
            reading' = [reading EXCEPT ![l] = Listed(@, listing)]
        BY <1>4 DEF ListDirectory
    <2>2. r.phase = "listing" /\ r.dirs # <<>> /\ UNCHANGED had /\ RowOK(r, had[l])
        BY <1>4 DEF ListDirectory, CacheInv, NothingRunsOut, RowsInv
    <2>3. Head(r.dirs) \in SUBSET RuleFile
        <3>1. r.dirs \in Seq(SUBSET RuleFile)
            BY <1>1 DEF LoadState
        <3> QED
            BY <2>2, <3>1, HeadTailProperties
    <2>4. \A f \in Head(r.dirs) : onDisk[f].there \/ Absent \in had[l][f]
        BY <2>2, <2>3 DEF CacheInv, NowBelongs, Now
    <2>5. listing \in Seq(RuleFile)
        BY <2>1, <2>3, ListingType
    <2> DEFINE q == Listed(r, listing)
    <2>6. RowOK(q, had[l])
        <3>1. /\ \A i \in 1 .. Len(listing) : listing[i] \in Head(r.dirs)
              /\ \A i, j \in 1 .. Len(listing) : listing[i] = listing[j] => i = j
              /\ \A f \in Head(r.dirs) : onDisk[f].there => \E i \in 1 .. Len(listing) : listing[i] = f
            BY <2>1, <2>3, ListingIsOfTheDirectory
        <3>2. r \in LoadState
            BY <1>1
        <3> HIDE DEF r
        <3> QED
            BY <2>2, <2>4, <2>5, <3>1, <3>2, RowAfterListing
    <2>7. reading' = [reading EXCEPT ![l] = q]
        BY <2>1
    <2> HIDE DEF q
    <2> QED
        BY <2>2, <2>6, <2>7, OneRow
<1>5. ASSUME NEW l \in Loader, EndLoading(l) PROVE RowsInv'
    <2> DEFINE q == [reading[l] EXCEPT !.phase = "loaded"]
    <2>1. /\ reading' = [reading EXCEPT ![l] = q] /\ UNCHANGED had
          /\ reading[l].phase = "next" /\ reading[l].queue = <<>>
          /\ q.dirs = reading[l].dirs /\ q.queue = reading[l].queue /\ q.snapshots = reading[l].snapshots
        BY <1>1, <1>5 DEF EndLoading, LoadState
    <2> HIDE DEF q
    <2>2. RowOK(reading[l], had[l])
        BY <2>1 DEF RowsInv
    <2>3. RowOK(q, had[l])
        BY <2>1, <2>2, RowKept
    <2> QED
        BY <2>1, <2>3, OneRow
<1>6. ASSUME NEW l \in Loader, NEW q,
             q.dirs = reading[l].dirs, q.queue = reading[l].queue, q.snapshots = reading[l].snapshots,
             q.phase # "loaded", reading[l].phase \notin {"idle", "listing"},
             reading' = [reading EXCEPT ![l] = q], UNCHANGED had
      PROVE  RowsInv'
    <2>1. RowOK(reading[l], had[l])
        BY <1>6 DEF RowsInv
    <2>2. RowOK(q, had[l])
        BY <1>6, <2>1, RowKept
    <2> QED
        BY <1>6, <2>2, OneRow
<1>7. ASSUME NEW l \in Loader, reading[l].queue # <<>>, reading[l].phase \notin {"idle", "listing"},
             ~ onDisk[InHand(l)].there, GiveUp(l, InHand(l)), UNCHANGED had
      PROVE  RowsInv'
    <2>1. Absent \in had[l][InHand(l)]
        BY <1>7, InHandType DEF CacheInv, NowBelongs, Now
    <2>2. reading' = [reading EXCEPT ![l] = Answered(@, Absent)] /\ Absent \in Nat
        BY <1>7 DEF GiveUp, Absent
    <2> QED
        BY <1>7, <2>1, <2>2, OneRowAnswered
<1>8. ASSUME NEW l \in Loader, StatRule(l) PROVE RowsInv'
    <2>1. reading[l].queue # <<>> /\ reading[l].phase = "next" /\ UNCHANGED had
        BY <1>8 DEF StatRule
    <2>2. CASE ~ onDisk[InHand(l)].there
        BY <1>7, <1>8, <2>1, <2>2 DEF StatRule, InHand
    <2>3. CASE onDisk[InHand(l)].there
        <3> DEFINE q == [reading[l] EXCEPT !.phase = "statted", !.mtime = onDisk[InHand(l)].mtime,
                                           !.text = reading[l].text]
        <3>1. reading' = [reading EXCEPT ![l] = q]
            BY <1>1, <1>8, <2>3 DEF StatRule, InHand, CacheInv, Types, LoadState
        <3>2. /\ q.dirs = reading[l].dirs /\ q.queue = reading[l].queue /\ q.snapshots = reading[l].snapshots
              /\ q.phase = "statted"
            BY <1>1 DEF LoadState
        <3> HIDE DEF q
        <3> QED
            BY <1>6, <2>1, <3>1, <3>2
    <2> QED
        BY <2>2, <2>3
<1>9. ASSUME NEW l \in Loader, LookUpRule(l) PROVE RowsInv'
    <2> DEFINE cached == ruleCache[InHand(l)]
               hit == cached # NotCached /\ cached.mtime = reading[l].mtime
    <2>1. reading[l].phase = "statted" /\ reading[l].phase \in Busy /\ UNCHANGED had
        BY <1>9 DEF LookUpRule, Busy
    <2>2. reading[l].queue # <<>> /\ InHand(l) \in RuleFile
        BY <2>1, InHandType DEF CacheInv, NothingRunsOut
    <2>3. CASE hit
        <3>1. cached.text \in Nat /\ cached.text # Absent
            BY <2>1, <2>2, <2>3, Numbers DEF CacheInv, CacheFits, TimeFits, Absent
        <3>2. reading' = [reading EXCEPT ![l] = Answered(@, cached.text)]
            BY <1>9, <2>3 DEF LookUpRule, InHand
        <3> HIDE DEF cached
        <3> QED
            BY <2>1, <2>2, <3>1, <3>2, OneRowAnswered
    <2>4. CASE ~ hit
        <3> DEFINE q == [reading[l] EXCEPT !.phase = "missed", !.mtime = reading[l].mtime,
                                           !.text = reading[l].text]
        <3>1. reading' = [reading EXCEPT ![l] = q]
            BY <1>1, <1>9, <2>4 DEF LookUpRule, InHand, LoadState
        <3>2. /\ q.dirs = reading[l].dirs /\ q.queue = reading[l].queue /\ q.snapshots = reading[l].snapshots
              /\ q.phase = "missed"
            BY <1>1 DEF LoadState
        <3> HIDE DEF q
        <3> QED
            BY <1>6, <2>1, <3>1, <3>2
    <2> QED
        BY <2>3, <2>4
<1>10. ASSUME NEW l \in Loader, ReadRule(l) PROVE RowsInv'
    <2>1. reading[l].phase = "missed" /\ reading[l].phase \in Busy /\ UNCHANGED had
        BY <1>10 DEF ReadRule, Busy
    <2>2. reading[l].queue # <<>> /\ InHand(l) \in RuleFile
        BY <2>1, InHandType DEF CacheInv, NothingRunsOut
    <2>3. CASE ~ onDisk[InHand(l)].there
        BY <1>7, <1>10, <2>1, <2>2, <2>3 DEF ReadRule, InHand
    <2>4. CASE onDisk[InHand(l)].there
        <3> DEFINE q == [reading[l] EXCEPT !.phase = "read", !.mtime = reading[l].mtime,
                                           !.text = onDisk[InHand(l)].text]
        <3>1. reading' = [reading EXCEPT ![l] = q]
            BY <1>1, <1>10, <2>4 DEF ReadRule, InHand, CacheInv, Types, LoadState
        <3>2. /\ q.dirs = reading[l].dirs /\ q.queue = reading[l].queue /\ q.snapshots = reading[l].snapshots
              /\ q.phase = "read"
            BY <1>1 DEF LoadState
        <3> HIDE DEF q
        <3> QED
            BY <1>6, <2>1, <3>1, <3>2
    <2> QED
        BY <2>3, <2>4
<1>11. ASSUME NEW l \in Loader, PutRule(l) PROVE RowsInv'
    <2>1. /\ reading[l].phase = "read" /\ reading[l].phase \in Busy /\ UNCHANGED had
          /\ reading' = [reading EXCEPT ![l] = Answered(@, reading[l].text)]
        BY <1>11 DEF PutRule, Busy, CacheInv, Types
    <2>2. reading[l].queue # <<>>
        BY <2>1 DEF CacheInv, NothingRunsOut
    <2>3. reading[l].text \in Nat /\ reading[l].text # Absent
        BY <2>1, Numbers DEF CacheInv, ReadFits, TimeFits, Absent
    <2> QED
        BY <2>1, <2>2, <2>3, OneRowAnswered
<1>12. CASE UNCHANGED ruleCacheVars
    BY <1>12 DEF ruleCacheVars, RowsInv
<1> QED
    BY <1>2, <1>3, <1>4, <1>5, <1>8, <1>9, <1>10, <1>11, <1>12 DEF RuleCacheNext

\* When the load is done its row is its snapshots.
LEMMA LoadedRowsAreWhole == CacheInv /\ RowsInv => NoRuleIsSkipped
<1> SUFFICES ASSUME CacheInv, RowsInv, NEW l \in Loader, reading[l].phase = "loaded"
             PROVE  LET n == Len(reading[l].snapshots)
                        NameAt(i) == reading[l].snapshots[i][1]
                    IN  /\ \A i, j \in 1 .. n : i < j =>
                             \E d, e \in DOMAIN RuleDirs :
                                d <= e /\ NameAt(i) \in RuleDirs[d] /\ NameAt(j) \in RuleDirs[e] /\ NameAt(i) # NameAt(j)
                        /\ \A f \in RuleFile : Absent \in had[l][f] \/ \E i \in 1 .. n : NameAt(i) = f
    BY DEF NoRuleIsSkipped
<1> DEFINE r == reading[l]
           n == Len(r.snapshots)
           all == Len(RuleDirs)
<1>1. r \in LoadState /\ RowOK(r, had[l]) /\ r.phase = "loaded"
    BY DEF CacheInv, Types, RowsInv
<1> HIDE DEF r
<1>2. r.dirs = <<>> /\ r.queue = <<>> /\ Len(<<>>) = 0
    BY <1>1, EmptySeq DEF RowOK, DirsAreLeft
<1>3. n \in Nat /\ all \in Nat /\ DOMAIN RuleDirs = 1 .. all
    BY <1>1, RowNumbers
<1>4. Total(r) = n /\ ListedDirs(r) = all
    BY <1>2, <1>3 DEF Total, ListedDirs
<1>5. \A i \in 1 .. n : NameIn(r, i) = r.snapshots[i][1]
    BY <1>3 DEF NameIn
<1>6. /\ \A i \in 1 .. n : \E d \in 1 .. all : NameIn(r, i) \in RuleDirs[d]
      /\ \A i, j \in 1 .. n : i < j =>
         /\ NameIn(r, i) # NameIn(r, j)
         /\ \A d, e \in DOMAIN RuleDirs : NameIn(r, i) \in RuleDirs[d] /\ NameIn(r, j) \in RuleDirs[e] => d <= e
      /\ \A d \in 1 .. all : \A f \in RuleDirs[d] : Absent \in had[l][f] \/ \E i \in 1 .. n : NameIn(r, i) = f
    BY <1>1, <1>4 DEF RowOK, RowIsInOrder, NoneIsMissing
<1> HIDE DEF n, all
<1>7. ASSUME NEW i \in 1 .. n, NEW j \in 1 .. n, i < j
      PROVE  \E d, e \in DOMAIN RuleDirs :
                d <= e /\ NameIn(r, i) \in RuleDirs[d] /\ NameIn(r, j) \in RuleDirs[e] /\ NameIn(r, i) # NameIn(r, j)
    BY <1>3, <1>6, <1>7
<1>8. ASSUME NEW f \in RuleFile
      PROVE  Absent \in had[l][f] \/ \E i \in 1 .. n : NameIn(r, i) = f
    BY <1>3, <1>6
<1> QED
    BY <1>5, <1>7, <1>8 DEF n, r

-----------------------------------------------------------------------------
(* No merge is lost. What the file is to hold in the end is what its queue *)
(* makes of what it holds now, however much of the queue has been done.    *)
Operation == [kind : {"write", "merge"}, rules : SUBSET Rule, read : BOOLEAN, base : SUBSET Rule]
Stored == {NoState} \union SUBSET Rule
Before(kind, now) == IF kind = "merge" /\ now # NoState THEN now ELSE {}

MatchedInv ==
    /\ matched \in [Session -> Stored]
    /\ stores \in [Session -> Seq(Operation)]
    /\ expected \in [Session -> Stored]
    /\ \A s \in Session :
         /\ expected[s] = Final(matched[s], stores[s])
         /\ \A i \in DOMAIN stores[s] :
              stores[s][i].read => i = 1 /\ stores[s][i].base = Before(stores[s][i].kind, matched[s])

\* What a queue leaves of a rule: it is merged or written and not written over,
\* or it was there and nothing is written.
Writes(queue) == {i \in 1 .. Len(queue) : queue[i].kind = "write"}
Comes(queue, x) == \E i \in 1 .. Len(queue) : x \in queue[i].rules /\ \A w \in Writes(queue) : w <= i

\* What is in the file at last: the rules of the last write, and of the merges after it.
LEMMA FinalIs ==
    ASSUME NEW now \in Stored, NEW queue \in Seq(Operation), queue # <<>>
    PROVE  /\ \A x : x \in Final(now, queue) <=>
                \/ x \in now /\ now # NoState /\ Writes(queue) = {}
                \/ Comes(queue, x)
           /\ Final(now, queue) \in SUBSET Rule
<1>1. DOMAIN queue = 1 .. Len(queue) /\ \A i \in 1 .. Len(queue) : queue[i] \in Operation
    BY LenProperties, ElementOfSeq
<1>2. {i \in DOMAIN queue : queue[i].kind = "write"} = Writes(queue)
    BY <1>1 DEF Writes
<1> DEFINE stays == {i \in DOMAIN queue : \A w \in Writes(queue) : w <= i}
           before == IF Writes(queue) # {} \/ now = NoState THEN {} ELSE now
<1>3. Final(now, queue) = before \union UNION {queue[i].rules : i \in stays}
    BY <1>2 DEF Final
<1>4. \A x : Comes(queue, x) <=> x \in UNION {queue[i].rules : i \in stays}
    BY <1>1 DEF Comes
<1>5. before \subseteq Rule /\ \A i \in stays : queue[i].rules \subseteq Rule
    BY <1>1 DEF Stored, Operation
<1>6. \A x : x \in before <=> x \in now /\ now # NoState /\ Writes(queue) = {}
    OBVIOUS
<1> HIDE DEF stays, before
<1> QED
    BY <1>3, <1>4, <1>5, <1>6

\* Where nothing waits, the file is what it is.
LEMMA FinalOfNone == \A now : Final(now, <<>>) = now
BY DEF Final

\* A set of rules is not the absence of a file.
LEMMA RulesAreNoNoState == \A set \in SUBSET Rule : set # NoState /\ set \in Stored
BY RuleAssumption DEF NoState, Stored

\* One operation more.
LEMMA FinalAppended ==
    ASSUME NEW now \in Stored, NEW queue \in Seq(Operation), NEW o \in Operation, NEW q, q = Append(queue, o)
    PROVE  Final(now, q) = IF o.kind = "merge" /\ Final(now, queue) # NoState
                           THEN Final(now, queue) \union o.rules ELSE o.rules
<1> DEFINE n == Len(queue)
<1>1. /\ n \in Nat /\ q \in Seq(Operation) /\ Len(q) = n + 1
      /\ \A i \in 1 .. n : q[i] = queue[i]
      /\ q[n + 1] = o
    BY AppendProperties, LenProperties
<1>2. q # <<>>
    BY <1>1, EmptySeq
<1>3. /\ \A x : x \in Final(now, q) <=> \/ x \in now /\ now # NoState /\ Writes(q) = {}
                                        \/ Comes(q, x)
      /\ Final(now, q) \in SUBSET Rule
    <2>1. q \in Seq(Operation)
        BY <1>1
    <2>2. \A few \in Seq(Operation) : few # <<>> =>
            /\ \A x : x \in Final(now, few) <=> \/ x \in now /\ now # NoState /\ Writes(few) = {}
                                                \/ Comes(few, x)
            /\ Final(now, few) \in SUBSET Rule
        BY FinalIs
    <2> QED
        BY <1>2, <2>1, <2>2
<1>4. o.kind \in {"write", "merge"} /\ o.rules \in SUBSET Rule
    BY DEF Operation
<1>5. CASE o.kind = "write"
    <2>1. n + 1 \in Writes(q) /\ \A w \in Writes(q) : w <= n + 1
        BY <1>1, <1>5 DEF Writes
    <2>2. \A x : Comes(q, x) <=> x \in o.rules
        <3>1. \A i \in 1 .. n + 1 : (\A w \in Writes(q) : w <= i) <=> i = n + 1
            BY <1>1, <2>1
        <3> QED
            BY <1>1, <3>1 DEF Comes
    <2>3. \A x : x \in Final(now, q) <=> x \in o.rules
        BY <1>3, <2>1, <2>2
    <2> QED
        BY <1>5, <2>3
<1>6. CASE o.kind = "merge"
    <2>1. Writes(q) = Writes(queue)
        BY <1>1, <1>6 DEF Writes
    <2>2. \A x : Comes(q, x) <=> Comes(queue, x) \/ x \in o.rules
        <3>1. \A w \in Writes(q) : w <= n + 1
            BY <1>1, <2>1 DEF Writes
        <3> QED
            BY <1>1, <2>1, <3>1 DEF Comes
    <2>3. CASE queue = <<>>
        <3>1. Final(now, queue) = now
            BY <2>3, FinalOfNone
        <3>2. Writes(queue) = {} /\ \A x : ~ Comes(queue, x)
            BY <2>3, EmptySeq DEF Writes, Comes
        <3>3. \A x : x \in Final(now, q) <=> (x \in now /\ now # NoState) \/ x \in o.rules
            BY <1>3, <2>1, <2>2, <3>2
        <3> QED
            BY <1>6, <3>1, <3>3
    <2>4. CASE queue # <<>>
        <3>1. /\ \A x : x \in Final(now, queue) <=> \/ x \in now /\ now # NoState /\ Writes(queue) = {}
                                                    \/ Comes(queue, x)
              /\ Final(now, queue) # NoState
            BY <2>4, FinalIs, RulesAreNoNoState
        <3>2. \A x : x \in Final(now, q) <=> x \in Final(now, queue) \/ x \in o.rules
            BY <1>3, <2>1, <2>2, <3>1
        <3> QED
            BY <1>6, <3>1, <3>2
    <2> QED
        BY <2>3, <2>4
<1> QED
    BY <1>4, <1>5, <1>6

\* The first operation done.
LEMMA FinalDone ==
    ASSUME NEW now \in Stored, NEW queue \in Seq(Operation), queue # <<>>,
           NEW q, q = Tail(queue), NEW o, o = Head(queue),
           NEW new, new = Before(o.kind, now) \union o.rules
    PROVE  Final(new, q) = Final(now, queue)
<1> DEFINE n == Len(queue)
<1>1. /\ n \in Nat /\ n >= 1 /\ q \in Seq(Operation) /\ Len(q) = n - 1
      /\ \A i \in 1 .. n - 1 : q[i] = queue[i + 1]
      /\ o = queue[1] /\ o \in Operation
    BY HeadTailProperties, EmptySeq, LenProperties
<1>2. /\ new \in SUBSET Rule /\ new # NoState /\ new \in Stored
      /\ o.kind \in {"write", "merge"} /\ o.rules \in SUBSET Rule
      /\ \A x : x \in new <=> (o.kind = "merge" /\ now # NoState /\ x \in now) \/ x \in o.rules
    <2>1. o.kind \in {"write", "merge"} /\ o.rules \in SUBSET Rule
        BY <1>1 DEF Operation
    <2>2. Before(o.kind, now) \in SUBSET Rule
        BY DEF Before, Stored
    <2>3. new \in SUBSET Rule
        BY <2>1, <2>2
    <2>4. \A x : x \in Before(o.kind, now) <=> (o.kind = "merge" /\ now # NoState /\ x \in now)
        BY DEF Before
    <2> QED
        BY <2>1, <2>3, <2>4, RulesAreNoNoState
<1>3. \A x : x \in Final(now, queue) <=> \/ x \in now /\ now # NoState /\ Writes(queue) = {}
                                         \/ Comes(queue, x)
    BY FinalIs
<1> HIDE DEF n
<1>4. \A w \in Writes(q) : w + 1 \in Writes(queue)
    BY <1>1 DEF Writes, n
<1>5. \A w \in Writes(queue) : (w = 1 /\ o.kind = "write") \/ w - 1 \in Writes(q)
    <2> SUFFICES ASSUME NEW w \in 1 .. n, queue[w].kind = "write"
                 PROVE  (w = 1 /\ o.kind = "write") \/ (w - 1 \in 1 .. n - 1 /\ q[w - 1].kind = "write")
        BY <1>1 DEF Writes, n
    <2>1. CASE w = 1
        BY <1>1, <2>1
    <2>2. CASE w # 1
        <3>1. w - 1 \in 1 .. n - 1 /\ (w - 1) + 1 = w
            BY <1>1, <2>2
        <3>2. q[w - 1] = queue[w]
            BY <1>1, <3>1
        <3> QED
            BY <3>1, <3>2
    <2> QED
        BY <2>1, <2>2
<1>6. Writes(queue) = {} <=> Writes(q) = {} /\ o.kind # "write"
    <2>1. o.kind = "write" => 1 \in Writes(queue)
        BY <1>1 DEF Writes, n
    <2> QED
        BY <1>4, <1>5, <2>1
<1>7. \A i \in 1 .. n - 1 : (\A w \in Writes(q) : w <= i) <=> (\A w \in Writes(queue) : w <= i + 1)
    <2> SUFFICES ASSUME NEW i \in 1 .. n - 1
                 PROVE  (\A w \in Writes(q) : w <= i) <=> (\A w \in Writes(queue) : w <= i + 1)
        OBVIOUS
    <2>1. Writes(q) \subseteq Int /\ Writes(queue) \subseteq Int
        BY DEF Writes
    <2>2. ASSUME \A w \in Writes(q) : w <= i, NEW w \in Writes(queue) PROVE w <= i + 1
        <3>1. CASE w = 1
            BY <1>1, <3>1
        <3>2. CASE w - 1 \in Writes(q)
            BY <1>1, <2>1, <2>2, <3>2
        <3> QED
            BY <1>5, <3>1, <3>2
    <2>3. ASSUME \A w \in Writes(queue) : w <= i + 1, NEW w \in Writes(q) PROVE w <= i
        BY <1>1, <1>4, <2>1, <2>3
    <2> QED
        BY <2>2, <2>3
<1>8. (\A w \in Writes(queue) : w <= 1) <=> Writes(q) = {}
    <2>1. Writes(q) \subseteq 1 .. n - 1 /\ Writes(queue) \subseteq Int
        BY <1>1 DEF Writes
    <2>2. ASSUME \A w \in Writes(queue) : w <= 1, NEW w \in Writes(q) PROVE FALSE
        BY <1>1, <1>4, <2>1, <2>2
    <2>3. ASSUME Writes(q) = {}, NEW w \in Writes(queue) PROVE w <= 1
        BY <1>5, <2>3
    <2> QED
        BY <2>2, <2>3
<1>9. \A x : Comes(queue, x) <=> Comes(q, x) \/ (x \in o.rules /\ Writes(q) = {})
    <2> SUFFICES ASSUME NEW x PROVE Comes(queue, x) <=> Comes(q, x) \/ (x \in o.rules /\ Writes(q) = {})
        OBVIOUS
    <2>1. ASSUME NEW i \in 1 .. n, x \in queue[i].rules, \A w \in Writes(queue) : w <= i
          PROVE  Comes(q, x) \/ (x \in o.rules /\ Writes(q) = {})
        <3>1. CASE i = 1
            BY <1>1, <1>8, <2>1, <3>1
        <3>2. CASE i # 1
            <4>1. i - 1 \in 1 .. n - 1 /\ (i - 1) + 1 = i
                BY <1>1, <3>2
            <4>2. x \in q[i - 1].rules /\ \A w \in Writes(q) : w <= i - 1
                BY <1>1, <1>7, <2>1, <4>1
            <4> QED
                BY <1>1, <4>1, <4>2 DEF Comes
        <3> QED
            BY <3>1, <3>2
    <2>2. ASSUME NEW i \in 1 .. n - 1, x \in q[i].rules, \A w \in Writes(q) : w <= i
          PROVE  Comes(queue, x)
        <3>1. i + 1 \in 1 .. n /\ q[i] = queue[i + 1]
            BY <1>1
        <3>2. \A w \in Writes(queue) : w <= i + 1
            BY <1>7, <2>2
        <3> QED
            BY <2>2, <3>1, <3>2 DEF Comes, n
    <2>3. ASSUME x \in o.rules, Writes(q) = {} PROVE Comes(queue, x)
        <3>1. 1 \in 1 .. n /\ \A w \in Writes(queue) : w <= 1
            BY <1>1, <1>8, <2>3
        <3> QED
            BY <1>1, <2>3, <3>1 DEF Comes, n
    <2> QED
        BY <1>1, <2>1, <2>2, <2>3 DEF Comes, n
<1>10. CASE q = <<>>
    <2>1. Final(new, q) = new
        BY <1>10, FinalOfNone
    <2>2. Writes(q) = {} /\ \A x : ~ Comes(q, x)
        <3>1. Len(q) = 0
            BY <1>10, EmptySeq
        <3> QED
            BY <3>1 DEF Writes, Comes
    <2>3. \A x : x \in Final(now, queue) <=> x \in new
        BY <1>2, <1>3, <1>6, <1>9, <2>2
    <2>4. Final(now, queue) \in SUBSET Rule
        BY FinalIs
    <2> QED
        BY <1>2, <2>1, <2>3, <2>4
<1>11. CASE q # <<>>
    <2>1. /\ \A x : x \in Final(new, q) <=> (x \in new /\ new # NoState /\ Writes(q) = {}) \/ Comes(q, x)
          /\ Final(new, q) \in SUBSET Rule
        BY <1>1, <1>2, <1>11, FinalIs
    <2>2. \A x : x \in Final(now, queue) <=> x \in Final(new, q)
        BY <1>2, <1>3, <1>6, <1>9, <2>1
    <2>3. Final(now, queue) \in SUBSET Rule
        BY FinalIs
    <2> QED
        BY <2>1, <2>2, <2>3
<1> QED
    BY <1>10, <1>11

\* A queue of the same operations.
LEMMA FinalSame ==
    ASSUME NEW now \in Stored, NEW queue \in Seq(Operation), NEW q \in Seq(Operation), Len(q) = Len(queue),
           \A i \in 1 .. Len(queue) : q[i].kind = queue[i].kind /\ q[i].rules = queue[i].rules
    PROVE  Final(now, q) = Final(now, queue)
<1>1. Writes(q) = Writes(queue) /\ \A x : Comes(q, x) <=> Comes(queue, x)
    BY DEF Writes, Comes
<1>2. q = <<>> <=> queue = <<>>
    BY EmptySeq
<1>3. CASE queue = <<>>
    BY <1>2, <1>3
<1>4. CASE queue # <<>>
    <2>1. \A x : x \in Final(now, q) <=> x \in Final(now, queue)
        BY <1>1, <1>2, <1>4, FinalIs
    <2>2. Final(now, q) \in SUBSET Rule /\ Final(now, queue) \in SUBSET Rule
        BY <1>2, <1>4, FinalIs
    <2> QED
        BY <2>1, <2>2
<1> QED
    BY <1>3, <1>4

\* To remove the first operation is to go on with the rest.
LEMMA FirstRemoved ==
    ASSUME NEW queue \in Seq(Operation), queue # <<>>
    PROVE  RemoveAt(queue, 1) = Tail(queue)
<1>1. SubSeq(queue, 1, 1 - 1) = <<>>
    BY SubSeqEmpty
<1>2. SubSeq(queue, 1 + 1, Len(queue)) = Tail(queue)
    BY TailIsSubSeq
<1>3. Tail(queue) \in Seq(Operation)
    BY HeadTailProperties
<1>4. <<>> \o Tail(queue) = Tail(queue)
    BY <1>3, ConcatEmptySeq
<1> QED
    BY <1>1, <1>2, <1>4 DEF RemoveAt

\* At first nothing waits.
LEMMA MatchedInvInit == MatchedInit => MatchedInv
<1> SUFFICES ASSUME MatchedInit PROVE MatchedInv
    OBVIOUS
<1>1. \A s \in Session : Final(matched[s], stores[s]) = matched[s]
    BY FinalOfNone DEF MatchedInit
<1>2. \A s \in Session : DOMAIN stores[s] = {}
    BY DEF MatchedInit
<1>3. <<>> \in Seq(Operation)
    BY EmptySeq
<1> QED
    BY <1>1, <1>2, <1>3 DEF MatchedInit, MatchedInv, Stored

\* What a step does to the file and the queue of one session.
LEMMA OneSession ==
    ASSUME MatchedInv, NEW s \in Session, NEW now \in Stored, NEW queue \in Seq(Operation), NEW then \in Stored,
           matched' = [matched EXCEPT ![s] = now],
           stores' = [stores EXCEPT ![s] = queue],
           expected' = [expected EXCEPT ![s] = then],
           then = Final(now, queue),
           \A i \in DOMAIN queue : queue[i].read => i = 1 /\ queue[i].base = Before(queue[i].kind, now)
    PROVE  MatchedInv'
<1>1. matched' \in [Session -> Stored] /\ stores' \in [Session -> Seq(Operation)] /\ expected' \in [Session -> Stored]
    BY DEF MatchedInv
<1>2. /\ matched'[s] = now /\ stores'[s] = queue /\ expected'[s] = then
      /\ \A t \in Session : t # s => matched'[t] = matched[t] /\ stores'[t] = stores[t] /\ expected'[t] = expected[t]
    BY DEF MatchedInv
<1>3. \A t \in Session : t # s =>
         /\ expected[t] = Final(matched[t], stores[t])
         /\ \A i \in DOMAIN stores[t] :
              stores[t][i].read => i = 1 /\ stores[t][i].base = Before(stores[t][i].kind, matched[t])
    BY DEF MatchedInv
<1> QED
    BY <1>1, <1>2, <1>3 DEF MatchedInv

\* What is asked for joins the queue, and the file that is expected with it.
LEMMA EnqueueStep ==
    ASSUME MatchedInv, NEW s \in Session, NEW kind \in {"write", "merge"}, NEW new \in SUBSET Rule,
           Enqueue(s, kind, new)
    PROVE  MatchedInv'
<1> DEFINE queue == stores[s]
           o == [kind |-> kind, rules |-> new, read |-> FALSE, base |-> {}]
           q == Append(queue, o)
           then == IF kind = "merge" /\ expected[s] # NoState THEN expected[s] \union new ELSE new
<1>1. queue \in Seq(Operation) /\ matched[s] \in Stored /\ expected[s] \in Stored
    BY DEF MatchedInv
<1>2. o \in Operation /\ o.kind = kind /\ o.rules = new /\ o.read = FALSE
    BY DEF Operation
<1>3. /\ stores' = [stores EXCEPT ![s] = q] /\ expected' = [expected EXCEPT ![s] = then]
      /\ matched' = [matched EXCEPT ![s] = matched[s]]
    BY DEF Enqueue, MatchedInv
<1>4. expected[s] = Final(matched[s], queue)
    BY DEF MatchedInv
<1>5. \A i \in DOMAIN queue : queue[i].read => i = 1 /\ queue[i].base = Before(queue[i].kind, matched[s])
    BY DEF MatchedInv
<1> HIDE DEF queue, o
<1>6. /\ q \in Seq(Operation) /\ DOMAIN q = 1 .. Len(queue) + 1 /\ DOMAIN queue = 1 .. Len(queue)
      /\ \A i \in 1 .. Len(queue) : q[i] = queue[i]
      /\ q[Len(queue) + 1] = o /\ Len(queue) \in Nat
    BY <1>1, <1>2, AppendProperties, LenProperties
<1>7. then = Final(matched[s], q)
    <2>1. q = Append(queue, o)
        OBVIOUS
    <2> HIDE DEF q
    <2>2. Final(matched[s], q) = IF o.kind = "merge" /\ Final(matched[s], queue) # NoState
                                 THEN Final(matched[s], queue) \union o.rules ELSE o.rules
        BY <1>1, <1>2, <2>1, FinalAppended, ZenonT(60)
    <2> QED
        BY <1>2, <1>4, <2>2
<1>8. then \in Stored
    BY <1>1, RulesAreNoNoState DEF Stored
<1> HIDE DEF q, then
<1>9. \A i \in DOMAIN q : q[i].read => i = 1 /\ q[i].base = Before(q[i].kind, matched[s])
    <2> SUFFICES ASSUME NEW i \in DOMAIN q, q[i].read
                 PROVE  i = 1 /\ q[i].base = Before(q[i].kind, matched[s])
        OBVIOUS
    <2>1. i # Len(queue) + 1
        BY <1>2, <1>6
    <2>2. i \in DOMAIN queue /\ q[i] = queue[i]
        BY <1>6, <2>1
    <2> QED
        BY <1>5, <2>2
<1> QED
    BY <1>1, <1>3, <1>6, <1>7, <1>8, <1>9, OneSession

\* A merge reads the file that it will be written over.
LEMMA ComputeStep ==
    ASSUME MatchedInv, NEW s \in Session, NEW i \in DOMAIN stores[s], Compute(s, i)
    PROVE  MatchedInv'
<1> DEFINE queue == stores[s]
           o == queue[i]
           base == IF o.kind = "merge" /\ matched[s] # NoState THEN matched[s] ELSE {}
           done == [o EXCEPT !.read = TRUE, !.base = base]
           q == [queue EXCEPT ![i] = done]
<1>1. /\ queue \in Seq(Operation) /\ matched[s] \in Stored /\ expected[s] \in Stored
      /\ stores \in [Session -> Seq(Operation)]
    BY DEF MatchedInv
<1>2. i = 1 /\ UNCHANGED <<matched, expected>>
    BY DEF Compute, MayRun
<1>3. DOMAIN queue = 1 .. Len(queue) /\ Len(queue) \in Nat /\ o \in Operation
    BY <1>1, LenProperties, ElementOfSeq
<1>4. stores' = [stores EXCEPT ![s] = q]
    <2>1. stores' = [stores EXCEPT ![s][i].read = TRUE, ![s][i].base = base]
        BY DEF Compute
    <2> HIDE DEF base
    <2> QED
        BY <1>1, <1>3, <2>1 DEF Operation
<1>5. base \in SUBSET Rule /\ base = Before(o.kind, matched[s])
    BY <1>1 DEF Stored, Before
<1>6. done \in Operation /\ done.kind = o.kind /\ done.rules = o.rules /\ done.base = base
    BY <1>3, <1>5 DEF Operation
<1>7. /\ expected[s] = Final(matched[s], queue)
      /\ \A j \in DOMAIN queue : queue[j].read => j = 1 /\ queue[j].base = Before(queue[j].kind, matched[s])
      /\ i \in DOMAIN queue
    BY DEF MatchedInv
<1>8. /\ matched' = [matched EXCEPT ![s] = matched[s]]
      /\ expected' = [expected EXCEPT ![s] = expected[s]]
    BY <1>2 DEF MatchedInv
<1> HIDE DEF base, done
<1>9. q \in Seq(Operation) /\ Len(q) = Len(queue)
    BY <1>1, <1>6, <1>7, ExceptSeq
<1>10. q[i] = done /\ DOMAIN q = DOMAIN queue /\ \A j \in DOMAIN queue : j # i => q[j] = queue[j]
    BY <1>7
<1> HIDE DEF q, queue
<1>11. Final(matched[s], q) = Final(matched[s], queue)
    <2>1. \A j \in 1 .. Len(queue) : q[j].kind = queue[j].kind /\ q[j].rules = queue[j].rules
        BY <1>3, <1>6, <1>10
    <2> QED
        BY <1>1, <1>9, <2>1, FinalSame
<1>12. \A j \in DOMAIN q : q[j].read => j = 1 /\ q[j].base = Before(q[j].kind, matched[s])
    BY <1>2, <1>5, <1>6, <1>7, <1>10
<1> QED
    BY <1>1, <1>4, <1>7, <1>8, <1>9, <1>11, <1>12, OneSession

\* What is written is what the queue said, so what is expected stays expected.
LEMMA PutMatchedStep ==
    ASSUME MatchedInv, NEW s \in Session, NEW i \in DOMAIN stores[s], NEW ok \in BOOLEAN, Put(s, i, ok)
    PROVE  MatchedInv'
<1> DEFINE queue == stores[s]
           o == Head(queue)
           q == Tail(queue)
           new == Before(o.kind, matched[s]) \union o.rules
<1>1. /\ queue \in Seq(Operation) /\ matched[s] \in Stored /\ expected[s] \in Stored
      /\ expected[s] = Final(matched[s], queue)
      /\ queue[i].read
      /\ \A j \in DOMAIN queue : queue[j].read => j = 1 /\ queue[j].base = Before(queue[j].kind, matched[s])
    BY DEF MatchedInv, Put
<1>2. i = 1 /\ queue # <<>> /\ 1 \in DOMAIN queue
    BY <1>1
<1>3. /\ o = queue[1] /\ o \in Operation /\ q \in Seq(Operation)
      /\ Len(q) = Len(queue) - 1 /\ Len(queue) \in Nat /\ DOMAIN queue = 1 .. Len(queue) /\ DOMAIN q = 1 .. Len(q)
      /\ \A j \in 1 .. Len(q) : q[j] = queue[j + 1]
    BY <1>1, <1>2, HeadTailProperties, LenProperties
<1>4. stores' = [stores EXCEPT ![s] = q]
    BY <1>1, <1>2, FirstRemoved DEF Put
<1>5. \A j \in DOMAIN q : ~ q[j].read
    <2> SUFFICES ASSUME NEW j \in DOMAIN q, q[j].read PROVE FALSE
        OBVIOUS
    <2> HIDE DEF q, queue
    <2>1. j + 1 \in DOMAIN queue /\ q[j] = queue[j + 1] /\ j + 1 # 1
        BY <1>3
    <2> QED
        BY <1>1, <2>1
<1>6. o.base = Before(o.kind, matched[s]) /\ o.rules \in SUBSET Rule
    BY <1>1, <1>2, <1>3 DEF Operation
<1>7. stores'[s] = q
    BY <1>4 DEF MatchedInv
<1>8. CASE ok
    <2>1. matched' = [matched EXCEPT ![s] = new] /\ expected' = [expected EXCEPT ![s] = expected[s]]
        BY <1>1, <1>2, <1>3, <1>6, <1>8 DEF Put, MatchedInv
    <2>2. Final(new, q) = Final(matched[s], queue)
        <3>1. q = Tail(queue) /\ o = Head(queue) /\ new = Before(o.kind, matched[s]) \union o.rules
            OBVIOUS
        <3> HIDE DEF new, q, o, queue
        <3> QED
            BY <1>1, <1>2, <3>1, FinalDone
    <2>3. new \in Stored
        <3>1. Before(o.kind, matched[s]) \in SUBSET Rule
            BY <1>1 DEF Before, Stored
        <3>2. new \in SUBSET Rule
            BY <1>6, <3>1
        <3> QED
            BY <3>2 DEF Stored
    <2> HIDE DEF new, q
    <2> QED
        BY <1>1, <1>3, <1>4, <1>5, <2>1, <2>2, <2>3, OneSession
<1>9. CASE ~ ok
    <2> DEFINE then == Final(matched[s], q)
    <2>1. /\ matched' = [matched EXCEPT ![s] = matched[s]]
          /\ expected' = [expected EXCEPT ![s] = then]
        BY <1>7, <1>9 DEF Put, MatchedInv
    <2> HIDE DEF q
    <2>2. then \in Stored
        <3>1. CASE q = <<>>
            BY <1>1, <3>1, FinalOfNone
        <3>2. CASE q # <<>>
            <4>1. then \in SUBSET Rule
                BY <1>1, <1>3, <3>2, FinalIs
            <4> QED
                BY <4>1 DEF Stored
        <3> QED
            BY <3>1, <3>2
    <2> HIDE DEF then
    <2> QED
        BY <1>1, <1>3, <1>4, <1>5, <2>1, <2>2, OneSession DEF then
<1> QED
    BY <1>8, <1>9

\* No step changes what the file will be once all that was asked for is written.
LEMMA MatchedInvStep == MatchedInv /\ [MatchedNext]_matchedVars => MatchedInv'
<1> SUFFICES ASSUME MatchedInv, [MatchedNext]_matchedVars PROVE MatchedInv'
    OBVIOUS
<1>1. ASSUME NEW s \in Session, NEW kind \in {"write", "merge"}, NEW new \in SUBSET Rule, Enqueue(s, kind, new)
      PROVE  MatchedInv'
    BY <1>1, EnqueueStep
<1>2. ASSUME NEW s \in Session, NEW i \in DOMAIN stores[s], Compute(s, i) PROVE MatchedInv'
    BY <1>2, ComputeStep
<1>3. ASSUME NEW s \in Session, NEW i \in DOMAIN stores[s], NEW ok \in BOOLEAN, Put(s, i, ok) PROVE MatchedInv'
    BY <1>3, PutMatchedStep
<1>4. CASE UNCHANGED matchedVars
    BY <1>4 DEF matchedVars, MatchedInv
<1> QED
    BY <1>1, <1>2, <1>3, <1>4 DEF MatchedNext

-----------------------------------------------------------------------------
\* For any files in directories that are apart, any loads, edits and failures:
\* a load that is done has every rule that was there all the time, once and in
\* the order of the directories; and for any writes and merges, in any order
\* and with any that could not be stored, the file of a session holds in the
\* end what was written last and all that was merged since.
THEOREM NoRuleIsEverDropped == ASSUME DirectoriesAreApart PROVE RuleFilesSpec => []NoRuleIsDropped
<1> DEFINE Inv == CacheInv /\ RowsInv /\ MatchedInv
<1>1. RuleFilesInit => Inv
    BY CacheInvInit, RowsStart, MatchedInvInit DEF RuleFilesInit
<1>2. Inv /\ [RuleFilesNext]_<<ruleCacheVars, matchedVars>> => Inv'
    <2> SUFFICES ASSUME Inv, [RuleFilesNext]_<<ruleCacheVars, matchedVars>> PROVE Inv'
        OBVIOUS
    <2>1. [RuleCacheNext]_ruleCacheVars /\ [MatchedNext]_matchedVars
        BY DEF RuleFilesNext
    <2> QED
        BY <2>1, CacheInvStep, RowsStep, MatchedInvStep
<1>3. Inv => NoRuleIsDropped
    <2>1. MatchedInv => MergesSurvive
        BY FinalOfNone DEF MatchedInv, MergesSurvive
    <2> QED
        BY <2>1, LoadedRowsAreWhole DEF NoRuleIsDropped
<1> HIDE DEF Inv
<1> QED
    BY <1>1, <1>2, <1>3, PTL DEF RuleFilesSpec
=============================================================================
