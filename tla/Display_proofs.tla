---------------------------- MODULE Display_proofs ----------------------------
(***************************************************************************)
(* What holds of what the operator is shown, the pages of the dashboard    *)
(* and the two panels of the terminal, for any sessions, rules, pages and  *)
(* number of events.                                                       *)
(*                                                                         *)
(* The dashboard: contents of a session are ordered by their revision, and *)
(* so are the views that loads put together file by file: what the last    *)
(* publication saw is below what a page shows, and that is below what the  *)
(* store and its archive hold.                                             *)
(*                                                                         *)
(* The panels: the load that counts is of the session that is open, and    *)
(* whatever is asked for while it is under way is remembered.              *)
(***************************************************************************)
EXTENDS Dashboard, Panels, TLAPS, SequenceTheorems

-----------------------------------------------------------------------------
(* Views: functions of sessions to their contents, and their order.        *)
View(f) == f = [s \in DOMAIN f |-> f[s]] /\ \A s \in DOMAIN f : f[s].rev \in Nat

AtLeast(old, new, s) ==
    /\ s \in DOMAIN new
    /\ old[s].rev <= new[s].rev
    /\ old[s].rev = new[s].rev => old[s] = new[s]
Below(old, new) == \A s \in DOMAIN old : AtLeast(old, new, s)

\* What the store and its archive hold.
Now == Overlay(archiveDir, runtimeDir)
Running == DOMAIN runtimeDir

-----------------------------------------------------------------------------
(* What a load that is under way has read and has still to read: a session *)
(* of the view low will be found at least as new as it is there.           *)
Covered(load, low, s, running) ==
    /\ load.dirs = ReadOrder =>
         \/ s \in running
         \/ load.listed => s \in load.todo
         \/ AtLeast(low, load.got, s)
    /\ load.dirs = <<"runtime">> =>
         \/ s \in running /\ (load.listed => s \in load.todo)
         \/ AtLeast(low, load.got, s)
    /\ load.dirs = <<>> => AtLeast(low, load.got, s)
Covers(load, low, except, running) == \A s \in DOMAIN low \ except : Covered(load, low, s, running)

LoadOK(load, now) ==
    /\ DOMAIN load = {"dirs", "listed", "todo", "got"}
    /\ load.dirs \in {ReadOrder, <<"runtime">>, <<>>}
    /\ load.listed \in BOOLEAN
    /\ View(load.got)
    /\ Below(load.got, now)

-----------------------------------------------------------------------------
(* The invariant.                                                          *)

\* A session that runs is newer than the one of its name in the archive.
StoreOK ==
    /\ rev \in Nat
    /\ View(runtimeDir) /\ View(archiveDir)
    /\ \A s \in DOMAIN runtimeDir : runtimeDir[s].rev <= rev
    /\ \A s \in DOMAIN archiveDir : archiveDir[s].rev <= rev
    /\ \A s \in DOMAIN runtimeDir \intersect DOMAIN archiveDir : archiveDir[s].rev < runtimeDir[s].rev

\* One publication at a time; it will find nothing older than the last one
\* did, save what is archived under it, and all there is if nothing changes.
PublicationOK ==
    /\ DOMAIN publication = {"running", "load"}
    /\ publication.load = [n \in 1 .. MaxRuns |-> publication.load[n]]
    /\ \A n \in 1 .. MaxRuns : LoadOK(publication.load[n], Now)
    /\ publication.running \subseteq 1 .. MaxRuns
    /\ \A m, n \in publication.running : m = n
    /\ \A n \in publication.running :
         /\ Covers(publication.load[n], lastSnapshot, movedInLoad, Running)
         /\ ~ changed => Covers(publication.load[n], Now, {}, Running)

\* What was published is what there was, and all of it if nothing has changed.
SnapshotOK ==
    /\ changed \in BOOLEAN
    /\ rev = 0 => ~ changed
    /\ View(lastSnapshot) /\ Below(lastSnapshot, Now)
    /\ publication.running = {} /\ ~ changed => lastSnapshot = Now \/ rev = 0

\* No page that loads undisturbed falls behind this: what was published last,
\* or, before the store has ever changed, all there is.
Floor == IF rev = 0 THEN Now ELSE lastSnapshot

ViewerOK(v, now, running, floor) ==
    /\ DOMAIN v = {"open", "load", "shown", "raced"}
    /\ v.open \in BOOLEAN /\ v.raced \in BOOLEAN
    /\ LoadOK(v.load, now)
    /\ View(v.shown) /\ Below(v.shown, now)
    /\ v.open /\ ~ v.raced =>
         IF Loaded(v.load) THEN Below(floor, v.shown) ELSE Covers(v.load, floor, {}, running)

DashboardInv ==
    /\ StoreOK
    /\ PublicationOK
    /\ SnapshotOK
    /\ viewers = [v \in Viewer |-> viewers[v]]
    /\ \A v \in Viewer : ViewerOK(viewers[v], Now, Running, Floor)
    /\ ToldChangesTookPlace

-----------------------------------------------------------------------------
(* The order of views.                                                     *)

\* It is transitive for each session ...
LEMMA AtLeastTransitive ==
    ASSUME NEW f, NEW g, NEW h, NEW s \in DOMAIN f, View(f), View(g), View(h), AtLeast(f, g, s), AtLeast(g, h, s)
    PROVE  AtLeast(f, h, s)
BY DEF View, AtLeast

\* ... and for all of them ...
LEMMA BelowTransitive ==
    ASSUME NEW f, NEW g, NEW h, View(f), View(g), View(h), Below(f, g), Below(g, h)
    PROVE  Below(f, h)
<1> SUFFICES ASSUME NEW s \in DOMAIN f PROVE AtLeast(f, h, s)
    BY DEF Below
<1>1. s \in DOMAIN g /\ AtLeast(f, g, s) /\ AtLeast(g, h, s)
    BY DEF Below, AtLeast
<1> QED BY <1>1, AtLeastTransitive

\* ... and antisymmetric.
LEMMA BelowAntisymmetric ==
    ASSUME NEW f, NEW g, View(f), View(g), Below(f, g), Below(g, f)
    PROVE  f = g
<1>1. DOMAIN f = DOMAIN g
    BY DEF Below, AtLeast
<1>2. \A s \in DOMAIN f : f[s] = g[s]
    BY <1>1 DEF View, Below, AtLeast
<1> QED BY <1>1, <1>2 DEF View

\* Every view is below itself.
LEMMA BelowReflexive == \A f : View(f) => Below(f, f)
BY DEF View, Below, AtLeast

\* What there is: of a session that runs, what runs.
LEMMA NowIsAView ==
    ASSUME StoreOK
    PROVE  /\ View(Now)
           /\ DOMAIN Now = DOMAIN archiveDir \union DOMAIN runtimeDir
           /\ \A s \in DOMAIN runtimeDir : Now[s] = runtimeDir[s]
           /\ \A s \in DOMAIN archiveDir \ DOMAIN runtimeDir : Now[s] = archiveDir[s]
           /\ \A s \in DOMAIN Now : Now[s].rev <= rev
           /\ Below(archiveDir, Now) /\ Below(runtimeDir, Now)
BY DEF StoreOK, Now, Overlay, View, Below, AtLeast

-----------------------------------------------------------------------------
(* Loads.                                                                  *)

\* The fields of a load after one step of it.
LEMMA ReadOnFields ==
    ASSUME NEW load, LoadOK(load, Now), ~ Loaded(load)
    PROVE  LET d == IF load.dirs = ReadOrder THEN archiveDir ELSE runtimeDir
               s == NextName(load.todo)
               next == ReadOn(load)
           IN  /\ DOMAIN next = {"dirs", "listed", "todo", "got"}
               /\ ~ load.listed =>
                    next.dirs = load.dirs /\ next.listed = TRUE /\ next.todo = DOMAIN d /\ next.got = load.got
               /\ load.listed /\ load.todo = {} =>
                    /\ next.dirs = IF load.dirs = ReadOrder THEN <<"runtime">> ELSE <<>>
                    /\ next.listed = FALSE /\ next.todo = load.todo /\ next.got = load.got
               /\ load.listed /\ load.todo # {} =>
                    /\ next.dirs = load.dirs /\ next.listed = load.listed /\ next.todo = load.todo \ {s}
                    /\ next.got = IF s \in DOMAIN d THEN Overlay(load.got, Restrict(d, {s})) ELSE load.got
<1>1. load.dirs = ReadOrder \/ load.dirs = <<"runtime">>
    BY DEF LoadOK, Loaded
<1>2. Directory(Head(load.dirs)) = IF load.dirs = ReadOrder THEN archiveDir ELSE runtimeDir
    BY <1>1 DEF Directory, ReadOrder
<1>3. Tail(load.dirs) = IF load.dirs = ReadOrder THEN <<"runtime">> ELSE <<>>
    <2>1. Tail(<<"archive", "runtime">>) = <<"runtime">> /\ Tail(<<"runtime">>) = <<>>
        OBVIOUS
    <2>2. ReadOrder # <<"runtime">>
        BY DEF ReadOrder
    <2> QED BY <1>1, <2>1, <2>2 DEF ReadOrder
<1> QED BY <1>2, <1>3 DEF ReadOn, LoadOK

\* A file that is read is put over what was read of the session before: what is
\* put together of views below another is below it.
LEMMA OverlayBelow ==
    ASSUME NEW got, NEW d, NEW top, NEW s \in DOMAIN d, View(got), View(d), Below(got, top), Below(d, top)
    PROVE  /\ View(Overlay(got, Restrict(d, {s})))
           /\ Below(Overlay(got, Restrict(d, {s})), top)
<1> DEFINE new == Overlay(got, Restrict(d, {s}))
<1>1. /\ View(new)
      /\ DOMAIN new = DOMAIN got \union {s}
      /\ new[s] = d[s]
      /\ \A x \in DOMAIN got \ {s} : new[x] = got[x]
    BY DEF Overlay, Restrict, View
<1>2. ASSUME NEW x \in DOMAIN new PROVE AtLeast(new, top, x)
    <2> HIDE DEF new
    <2> QED BY <1>1 DEF Below, AtLeast
<1> HIDE DEF new
<1>3. Below(new, top)
    BY <1>2 DEF Below
<1> QED BY <1>1, <1>3 DEF new

\* A load stays a load, and below what there is.
LEMMA ReadOnOK ==
    ASSUME StoreOK, NEW load, LoadOK(load, Now), ~ Loaded(load)
    PROVE  LoadOK(ReadOn(load), Now)
<1> DEFINE d == IF load.dirs = ReadOrder THEN archiveDir ELSE runtimeDir
           s == NextName(load.todo)
           next == ReadOn(load)
<1>1. View(d) /\ Below(d, Now) /\ View(Now)
    BY NowIsAView DEF StoreOK
<1>2. View(next.got) /\ Below(next.got, Now)
    <2>1. CASE next.got = load.got
        BY <2>1 DEF LoadOK
    <2>2. CASE s \in DOMAIN d /\ next.got = Overlay(load.got, Restrict(d, {s}))
        <3> HIDE DEF d, s, next
        <3>1. View(load.got) /\ Below(load.got, Now)
            BY DEF LoadOK
        <3> QED BY <1>1, <2>2, <3>1, OverlayBelow
    <2> QED BY <2>1, <2>2, ReadOnFields
<1>3. DOMAIN next = {"dirs", "listed", "todo", "got"} /\ next.listed \in BOOLEAN
    BY ReadOnFields DEF LoadOK
<1>4. next.dirs \in {ReadOrder, <<"runtime">>, <<>>}
    BY ReadOnFields DEF LoadOK
<1> QED BY <1>2, <1>3, <1>4 DEF LoadOK

\* What is read of a file: its session as it is, the others as they were read.
LEMMA ReadOnGot ==
    ASSUME NEW load, LoadOK(load, Now), ~ Loaded(load), load.listed, load.todo # {}
    PROVE  LET d == IF load.dirs = ReadOrder THEN archiveDir ELSE runtimeDir
               s == NextName(load.todo)
               next == ReadOn(load)
           IN  /\ \A x \in DOMAIN load.got \ {s} : x \in DOMAIN next.got /\ next.got[x] = load.got[x]
               /\ s \in DOMAIN d => s \in DOMAIN next.got /\ next.got[s] = d[s]
               /\ s \notin DOMAIN d => next.got = load.got
<1> DEFINE d == IF load.dirs = ReadOrder THEN archiveDir ELSE runtimeDir
           s == NextName(load.todo)
           next == ReadOn(load)
<1>1. next.got = IF s \in DOMAIN d THEN Overlay(load.got, Restrict(d, {s})) ELSE load.got
    BY ReadOnFields
<1> HIDE DEF d, s, next
<1> SUFFICES /\ \A x \in DOMAIN load.got \ {s} : x \in DOMAIN next.got /\ next.got[x] = load.got[x]
             /\ s \in DOMAIN d => s \in DOMAIN next.got /\ next.got[s] = d[s]
             /\ s \notin DOMAIN d => next.got = load.got
    BY DEF d, s, next
<1>2. CASE s \in DOMAIN d
    BY <1>1, <1>2 DEF Overlay, Restrict
<1>3. CASE s \notin DOMAIN d
    BY <1>1, <1>3
<1> QED BY <1>2, <1>3

\* One step of a load keeps what it will find: a session that does not run is
\* in the archive, and one that is not found there is still to be read.
LEMMA ReadOnCovers ==
    ASSUME StoreOK, NEW load, LoadOK(load, Now), ~ Loaded(load),
           NEW low, View(low), Below(low, Now), NEW except, Covers(load, low, except, Running)
    PROVE  Covers(ReadOn(load), low, except, Running)
<1> SUFFICES ASSUME NEW x \in DOMAIN low \ except PROVE Covered(ReadOn(load), low, x, Running)
    BY DEF Covers
<1> DEFINE d == IF load.dirs = ReadOrder THEN archiveDir ELSE runtimeDir
           s == NextName(load.todo)
           next == ReadOn(load)
<1>1. Covered(load, low, x, Running)
    BY DEF Covers
<1>2. /\ AtLeast(low, Now, x)
      /\ x \in DOMAIN archiveDir \union DOMAIN runtimeDir
      /\ x \in DOMAIN runtimeDir => Now[x] = runtimeDir[x]
      /\ x \notin DOMAIN runtimeDir => Now[x] = archiveDir[x]
    BY NowIsAView DEF Below, AtLeast
<1>3. /\ load.dirs = ReadOrder \/ load.dirs = <<"runtime">>
      /\ ReadOrder # <<"runtime">> /\ ReadOrder # <<>> /\ <<"runtime">> # <<>>
    BY DEF LoadOK, Loaded, ReadOrder
<1>4. CASE ~ load.listed
    <2>1. next.dirs = load.dirs /\ next.listed = TRUE /\ next.todo = DOMAIN d /\ next.got = load.got
        BY <1>4, ReadOnFields
    <2> HIDE DEF next
    <2> QED BY <1>1, <1>2, <1>3, <1>4, <2>1 DEF Covered, Running, next
<1>5. CASE load.listed /\ load.todo = {}
    <2>1. /\ next.dirs = IF load.dirs = ReadOrder THEN <<"runtime">> ELSE <<>>
          /\ next.listed = FALSE /\ next.got = load.got
        BY <1>5, ReadOnFields
    <2> HIDE DEF next
    <2> QED BY <1>1, <1>2, <1>3, <1>5, <2>1 DEF Covered, Running, next
<1>6. CASE load.listed /\ load.todo # {}
    <2>1. next.dirs = load.dirs /\ next.listed = load.listed /\ next.todo = load.todo \ {s}
        BY <1>6, ReadOnFields
    <2>2. /\ \A y \in DOMAIN load.got \ {s} : y \in DOMAIN next.got /\ next.got[y] = load.got[y]
          /\ s \in DOMAIN d => s \in DOMAIN next.got /\ next.got[s] = d[s]
          /\ s \notin DOMAIN d => next.got = load.got
        BY <1>6, ReadOnGot
    <2> HIDE DEF next, s
    <2>3. CASE x # s
        <3>1. AtLeast(low, load.got, x) => AtLeast(low, next.got, x)
            BY <2>2, <2>3 DEF AtLeast
        <3> QED BY <1>1, <2>1, <2>3, <3>1 DEF Covered, Running, next
    <2>4. CASE x = s /\ s \in DOMAIN d
        <3>1. CASE load.dirs = ReadOrder
            <4>1. x \in DOMAIN runtimeDir \/ AtLeast(low, next.got, x)
                BY <1>2, <2>2, <2>4, <3>1 DEF AtLeast
            <4> QED BY <1>3, <2>1, <3>1, <4>1 DEF Covered, Running, next
        <3>2. CASE load.dirs = <<"runtime">>
            <4>1. AtLeast(low, next.got, x)
                BY <1>2, <1>3, <2>2, <2>4, <3>2 DEF AtLeast
            <4> QED BY <1>3, <2>1, <3>2, <4>1 DEF Covered, Running, next
        <3> QED BY <1>3, <3>1, <3>2
    <2>5. CASE x = s /\ s \notin DOMAIN d
        BY <1>1, <1>2, <1>3, <2>1, <2>2, <2>5 DEF Covered, Running, next
    <2> QED BY <2>3, <2>4, <2>5
<1> QED BY <1>4, <1>5, <1>6 DEF LoadOK

\* A load that begins will find all there is.
LEMMA NewLoadCovers ==
    ASSUME StoreOK
    PROVE  /\ LoadOK(NewLoad, Now) /\ ~ Loaded(NewLoad)
           /\ LoadOK(NoLoad, Now) /\ Loaded(NoLoad)
           /\ \A low, except : Covers(NewLoad, low, except, Running)
BY DEF NewLoad, NoLoad, LoadOK, Loaded, ReadOrder, View, Below, Covers, Covered

\* A load that has ended has found what it was to find.
LEMMA LoadedHasFound ==
    ASSUME NEW load, Loaded(load), NEW low, NEW except, Covers(load, low, except, Running)
    PROVE  \A s \in DOMAIN low \ except : AtLeast(low, load.got, s)
BY DEF Loaded, Covers, Covered

\* What will be found of a view will be found of any below it.
LEMMA CoversLess ==
    ASSUME NEW load, NEW now, NEW running, LoadOK(load, now), NEW low, NEW less, View(low), View(less), Below(less, low), Covers(load, low, {}, running)
    PROVE  Covers(load, less, {}, running)
<1> SUFFICES ASSUME NEW s \in DOMAIN less PROVE Covered(load, less, s, running)
    BY DEF Covers
<1>1. s \in DOMAIN low /\ AtLeast(less, low, s) /\ Covered(load, low, s, running)
    BY DEF Covers, Below, AtLeast
<1>2. AtLeast(low, load.got, s) => AtLeast(less, load.got, s)
    BY <1>1, AtLeastTransitive DEF LoadOK
<1> QED BY <1>1, <1>2 DEF Covered

-----------------------------------------------------------------------------
(* The store changes.                                                      *)

\* A session is saved or created: what there is becomes newer, and whoever ran
\* still runs.
LEMMA SaveSessionChanges ==
    ASSUME StoreOK, NEW s, SaveSession(s)
    PROVE  /\ StoreOK' /\ Below(Now, Now')
           /\ Running \subseteq Running'
           /\ rev' = rev + 1 /\ changed' = TRUE
           /\ UNCHANGED <<publication, lastSnapshot, viewers, told, movedInLoad>>
<1>1. /\ rev \in Nat /\ rev' = rev + 1 /\ changed' = TRUE
      /\ UNCHANGED <<archiveDir, publication, lastSnapshot, viewers, told, movedInLoad>>
    BY DEF SaveSession, Touched, StoreOK
<1>2. /\ View(runtimeDir')
      /\ DOMAIN runtimeDir' = DOMAIN runtimeDir \union {s}
      /\ runtimeDir'[s].rev = rev'
      /\ \A t \in DOMAIN runtimeDir \ {s} : runtimeDir'[t] = runtimeDir[t]
    <2>1. CASE s \in DOMAIN runtimeDir
        <3>1. PICK c : c.rev = rev' /\ runtimeDir' = [runtimeDir EXCEPT ![s] = c]
            BY <2>1 DEF SaveSession
        <3>2. runtimeDir = [t \in DOMAIN runtimeDir |-> runtimeDir[t]] /\ \A t \in DOMAIN runtimeDir : runtimeDir[t].rev \in Nat
            BY DEF StoreOK, View
        <3>3. /\ runtimeDir' = [t \in DOMAIN runtimeDir' |-> runtimeDir'[t]]
              /\ DOMAIN runtimeDir' = DOMAIN runtimeDir \union {s}
              /\ runtimeDir'[s].rev = rev'
              /\ \A t \in DOMAIN runtimeDir \ {s} : runtimeDir'[t] = runtimeDir[t]
            BY <2>1, <3>1
        <3> QED BY <1>1, <3>2, <3>3 DEF View
    <2>2. CASE s \notin DOMAIN runtimeDir
        BY <1>1, <2>2 DEF SaveSession, StoreOK, View
    <2> QED BY <2>1, <2>2
<1>3. StoreOK'
    BY <1>1, <1>2 DEF StoreOK, View
<1>4. /\ DOMAIN Now' = DOMAIN archiveDir \union DOMAIN runtimeDir'
      /\ \A t \in DOMAIN runtimeDir' : Now'[t] = runtimeDir'[t]
      /\ \A t \in DOMAIN archiveDir \ DOMAIN runtimeDir' : Now'[t] = archiveDir[t]
    BY <1>1 DEF Now, Overlay
<1>5. ASSUME NEW t \in DOMAIN Now PROVE AtLeast(Now, Now', t)
    <2>1. CASE t = s
        BY <1>1, <1>2, <1>4, <2>1, NowIsAView DEF AtLeast, View
    <2>2. CASE t # s
        BY <1>2, <1>4, <2>2, NowIsAView DEF AtLeast, View
    <2> QED BY <2>1, <2>2
<1>6. Running \subseteq Running'
    BY <1>2 DEF Running
<1>7. Below(Now, Now')
    BY <1>5 DEF Below
<1> QED BY <1>1, <1>3, <1>6, <1>7

\* A session is archived: there is what there was, and no other stops running.
LEMMA ArchiveSessionChanges ==
    ASSUME StoreOK, NEW s, ArchiveSession(s)
    PROVE  /\ StoreOK' /\ Below(Now, Now')
           /\ Running' = Running \ {s}
           /\ rev' = rev + 1 /\ changed' = TRUE
           /\ movedInLoad' = movedInLoad \union {s}
           /\ viewers' = [v \in Viewer |-> [viewers[v] EXCEPT !.raced = @ \/ ~ Loaded(viewers[v].load)]]
           /\ UNCHANGED <<publication, lastSnapshot, told>>
<1>1. /\ rev \in Nat /\ rev' = rev + 1 /\ changed' = TRUE /\ s \in DOMAIN runtimeDir
      /\ archiveDir' = Overlay(archiveDir, Restrict(runtimeDir, {s}))
      /\ runtimeDir' = Restrict(runtimeDir, DOMAIN runtimeDir \ {s})
    BY DEF ArchiveSession, Touched, StoreOK
<1>2. /\ View(runtimeDir')
      /\ DOMAIN runtimeDir' = DOMAIN runtimeDir \ {s}
      /\ \A t \in DOMAIN runtimeDir \ {s} : runtimeDir'[t] = runtimeDir[t]
    BY <1>1 DEF Restrict, StoreOK, View
<1>3. /\ View(archiveDir')
      /\ DOMAIN archiveDir' = DOMAIN archiveDir \union {s}
      /\ archiveDir'[s] = runtimeDir[s]
      /\ \A t \in DOMAIN archiveDir \ {s} : archiveDir'[t] = archiveDir[t]
    BY <1>1 DEF Overlay, Restrict, StoreOK, View
<1>4. StoreOK'
    <2>1. ASSUME NEW t \in DOMAIN runtimeDir' PROVE runtimeDir'[t].rev <= rev'
        <3>1. runtimeDir'[t].rev \in Nat /\ runtimeDir'[t].rev <= rev
            BY <1>2, <2>1 DEF StoreOK, View
        <3> QED BY <1>1, <3>1
    <2>2. ASSUME NEW t \in DOMAIN archiveDir' PROVE archiveDir'[t].rev <= rev'
        <3>1. archiveDir'[t].rev \in Nat /\ archiveDir'[t].rev <= rev
            <4>1. CASE t = s
                BY <1>1, <1>3, <4>1 DEF StoreOK, View
            <4>2. CASE t # s
                BY <1>3, <2>2, <4>2 DEF StoreOK, View
            <4> QED BY <4>1, <4>2
        <3> QED BY <1>1, <3>1
    <2>3. ASSUME NEW t \in DOMAIN runtimeDir' \intersect DOMAIN archiveDir'
          PROVE  archiveDir'[t].rev < runtimeDir'[t].rev
        BY <1>2, <1>3 DEF StoreOK
    <2>4. rev' \in Nat /\ View(runtimeDir') /\ View(archiveDir')
        BY <1>1, <1>2, <1>3
    <2> QED BY <2>1, <2>2, <2>3, <2>4 DEF StoreOK
<1>5. /\ DOMAIN Now' = DOMAIN archiveDir' \union DOMAIN runtimeDir'
      /\ \A t \in DOMAIN runtimeDir' : Now'[t] = runtimeDir'[t]
      /\ \A t \in DOMAIN archiveDir' \ DOMAIN runtimeDir' : Now'[t] = archiveDir'[t]
    BY ZenonT(60) DEF Now, Overlay
<1>6. ASSUME NEW t \in DOMAIN Now PROVE AtLeast(Now, Now', t)
    <2>1. Now'[t] = Now[t] /\ t \in DOMAIN Now'
        BY <1>1, <1>2, <1>3, <1>5, NowIsAView
    <2> QED BY <2>1, NowIsAView DEF AtLeast, View
<1>7. Running' = Running \ {s}
    BY <1>2 DEF Running
<1>8. Below(Now, Now')
    BY <1>6 DEF Below
<1> QED BY <1>1, <1>4, <1>7, <1>8 DEF ArchiveSession

\* Loads that are under way stay below what there is.
LEMMA LoadsStayBelow ==
    ASSUME NEW load, NEW old, NEW new, View(old), View(new), Below(old, new), LoadOK(load, old)
    PROVE  LoadOK(load, new)
BY BelowTransitive DEF LoadOK

\* What a load will find it still finds when sessions stop running that are excepted.
LEMMA CoversWhileStopping ==
    ASSUME NEW load, NEW low, NEW except, NEW wider, NEW running, NEW next,
           except \subseteq wider, running \ wider \subseteq next, Covers(load, low, except, running)
    PROVE  Covers(load, low, wider, next)
BY DEF Covers, Covered

\* A page that has loaded, or that is undisturbed, keeps to the floor under it.
LEMMA ViewerStays ==
    ASSUME NEW v, NEW now, NEW running, NEW floor, NEW next, NEW run2, NEW lower,
           View(now), View(next), Below(now, next), View(floor), View(lower), Below(lower, floor),
           ViewerOK(v, now, running, floor),
           running \subseteq run2 \/ v.raced \/ Loaded(v.load)
    PROVE  ViewerOK(v, next, run2, lower)
<1>1. LoadOK(v.load, next)
    BY LoadsStayBelow DEF ViewerOK
<1>2. View(v.shown) /\ Below(v.shown, next)
    BY BelowTransitive DEF ViewerOK
<1>3. ASSUME v.open, ~ v.raced, Loaded(v.load) PROVE Below(lower, v.shown)
    BY <1>3, BelowTransitive DEF ViewerOK
<1>4. ASSUME v.open, ~ v.raced, ~ Loaded(v.load) PROVE Covers(v.load, lower, {}, run2)
    <2>1. Covers(v.load, floor, {}, running) /\ running \subseteq run2 /\ LoadOK(v.load, now)
        BY <1>4 DEF ViewerOK
    <2>2. Covers(v.load, floor, {}, run2)
        BY <2>1, CoversWhileStopping
    <2> QED BY <2>1, <2>2, CoversLess
<1> QED BY <1>1, <1>2, <1>3, <1>4 DEF ViewerOK

\* What was published last is below the floor of the pages, and that is a view.
LEMMA FloorIsAView ==
    ASSUME StoreOK, SnapshotOK
    PROVE  /\ View(Floor) /\ Below(lastSnapshot, Floor) /\ Below(Floor, Now)
           /\ View(Now) /\ View(lastSnapshot)
BY NowIsAView, BelowReflexive DEF SnapshotOK, Floor

-----------------------------------------------------------------------------
(* The steps.                                                              *)

\* A session is saved or created.
LEMMA SaveSessionStep ==
    ASSUME DashboardInv, NEW s, SaveSession(s)
    PROVE  DashboardInv'
<1>1. /\ StoreOK' /\ Below(Now, Now') /\ Running \subseteq Running'
      /\ rev' = rev + 1 /\ changed' = TRUE
      /\ UNCHANGED <<publication, lastSnapshot, viewers, told, movedInLoad>>
    BY SaveSessionChanges DEF DashboardInv
<1>2. View(Now') /\ View(Now) /\ View(Floor) /\ View(lastSnapshot) /\ Below(lastSnapshot, Floor)
    <2>1. StoreOK' => View(Now')
        BY NowIsAView DEF StoreOK, View, Now, Overlay
    <2> QED BY <1>1, <2>1, FloorIsAView DEF DashboardInv
<1>3. rev' # 0 /\ Floor' = lastSnapshot
    BY <1>1 DEF DashboardInv, StoreOK, Floor
<1>4. PublicationOK'
    <2>1. ASSUME NEW n \in 1 .. MaxRuns PROVE LoadOK(publication.load[n], Now')
        BY <1>1, <1>2, LoadsStayBelow DEF DashboardInv, PublicationOK
    <2>2. ASSUME NEW n \in publication.running
          PROVE  Covers(publication.load[n], lastSnapshot, movedInLoad, Running')
        BY <1>1, CoversWhileStopping DEF DashboardInv, PublicationOK
    <2> QED BY <1>1, <2>1, <2>2 DEF DashboardInv, PublicationOK
<1>5. SnapshotOK'
    BY <1>1, <1>2, <1>3, BelowTransitive DEF DashboardInv, SnapshotOK
<1>6. ASSUME NEW v \in Viewer PROVE ViewerOK(viewers[v], Now', Running', Floor')
    BY <1>1, <1>2, <1>3, ViewerStays DEF DashboardInv
<1> QED BY <1>1, <1>4, <1>5, <1>6 DEF DashboardInv, ToldChangesTookPlace

\* A session is archived: what loads of pages meet it in is marked.
LEMMA ArchiveSessionStep ==
    ASSUME DashboardInv, NEW s, ArchiveSession(s)
    PROVE  DashboardInv'
<1>1. /\ StoreOK' /\ Below(Now, Now') /\ Running' = Running \ {s}
      /\ rev' = rev + 1 /\ changed' = TRUE
      /\ movedInLoad' = movedInLoad \union {s}
      /\ viewers' = [v \in Viewer |-> [viewers[v] EXCEPT !.raced = @ \/ ~ Loaded(viewers[v].load)]]
      /\ UNCHANGED <<publication, lastSnapshot, told>>
    BY ArchiveSessionChanges DEF DashboardInv
<1>2. View(Now') /\ View(Now) /\ View(Floor) /\ View(lastSnapshot) /\ Below(lastSnapshot, Floor)
    <2>1. StoreOK' => View(Now')
        BY NowIsAView DEF StoreOK, View, Now, Overlay
    <2> QED BY <1>1, <2>1, FloorIsAView DEF DashboardInv
<1>3. rev' # 0 /\ Floor' = lastSnapshot
    BY <1>1 DEF DashboardInv, StoreOK, Floor
<1>4. PublicationOK'
    <2>1. ASSUME NEW n \in 1 .. MaxRuns PROVE LoadOK(publication.load[n], Now')
        BY <1>1, <1>2, LoadsStayBelow DEF DashboardInv, PublicationOK
    <2>2. ASSUME NEW n \in publication.running
          PROVE  Covers(publication.load[n], lastSnapshot, movedInLoad', Running')
        BY <1>1, CoversWhileStopping DEF DashboardInv, PublicationOK
    <2> QED BY <1>1, <2>1, <2>2 DEF DashboardInv, PublicationOK
<1>5. SnapshotOK'
    BY <1>1, <1>2, <1>3, BelowTransitive DEF DashboardInv, SnapshotOK
<1>6. ASSUME NEW v \in Viewer PROVE ViewerOK(viewers'[v], Now', Running', Floor')
    <2> DEFINE old == viewers[v]
               new == [old EXCEPT !.raced = @ \/ ~ Loaded(old.load)]
    <2>1. ViewerOK(old, Now, Running, Floor)
        BY DEF DashboardInv
    <2>2. /\ ViewerOK(new, Now, Running, Floor)
          /\ new.raced \/ Loaded(new.load)
        BY <2>1 DEF ViewerOK
    <2> HIDE DEF new
    <2>3. ViewerOK(new, Now', Running', Floor')
        BY <1>1, <1>2, <1>3, <2>2, ViewerStays
    <2> QED BY <1>1, <2>3 DEF new
<1> QED BY <1>1, <1>4, <1>5, <1>6 DEF DashboardInv, ToldChangesTookPlace

\* A publication begins.
LEMMA StartPublishingStep ==
    ASSUME DashboardInv, NEW n \in 1 .. MaxRuns, StartPublishing(n)
    PROVE  DashboardInv'
<1>1. /\ publication.running = {}
      /\ publication' = [publication EXCEPT !.running = @ \union {n}, !.load[n] = NewLoad]
      /\ movedInLoad' = {} /\ changed' = FALSE
      /\ UNCHANGED <<runtimeDir, archiveDir, lastSnapshot, viewers, told, rev>>
    BY DEF StartPublishing, MayPublish
<1>2. Now' = Now /\ Running' = Running /\ Floor' = Floor
    BY <1>1 DEF Now, Running, Floor
<1>3. StoreOK' /\ SnapshotOK'
    BY <1>1, <1>2 DEF DashboardInv, PublicationOK, StoreOK, SnapshotOK
<1>4. PublicationOK'
    <2>1. /\ publication'.load = [publication.load EXCEPT ![n] = NewLoad]
          /\ publication'.running = {n}
          /\ DOMAIN publication' = {"running", "load"}
        BY <1>1 DEF DashboardInv, PublicationOK
    <2>2. LoadOK(NewLoad, Now) /\ \A low, except : Covers(NewLoad, low, except, Running)
        BY NewLoadCovers DEF DashboardInv
    <2> QED BY <1>1, <1>2, <2>1, <2>2 DEF DashboardInv, PublicationOK
<1> QED BY <1>1, <1>2, <1>3, <1>4 DEF DashboardInv, ToldChangesTookPlace

\* A publication reads on.
LEMMA ReadForPublicationStep ==
    ASSUME DashboardInv, NEW n \in 1 .. MaxRuns, ReadForPublication(n)
    PROVE  DashboardInv'
<1> DEFINE load == publication.load[n]
<1>1. /\ n \in publication.running /\ ~ Loaded(load)
      /\ publication' = [publication EXCEPT !.load[n] = ReadOn(@)]
      /\ UNCHANGED <<runtimeDir, archiveDir, lastSnapshot, viewers, told, movedInLoad, changed, rev>>
    BY DEF ReadForPublication
<1>2. Now' = Now /\ Running' = Running /\ Floor' = Floor
    BY <1>1 DEF Now, Running, Floor
<1>3. /\ publication'.load = [publication.load EXCEPT ![n] = ReadOn(load)]
      /\ publication'.running = publication.running
      /\ DOMAIN publication' = {"running", "load"}
    BY <1>1 DEF DashboardInv, PublicationOK
<1>4. StoreOK' /\ SnapshotOK'
    BY <1>1, <1>2, <1>3 DEF DashboardInv, StoreOK, SnapshotOK
<1>5. /\ LoadOK(load, Now) /\ View(Now) /\ View(lastSnapshot) /\ Below(lastSnapshot, Now) /\ Below(Now, Now)
      /\ Covers(load, lastSnapshot, movedInLoad, Running)
      /\ ~ changed => Covers(load, Now, {}, Running)
    BY <1>1, FloorIsAView, BelowReflexive DEF DashboardInv, PublicationOK, SnapshotOK
<1>6. /\ LoadOK(ReadOn(load), Now)
      /\ Covers(ReadOn(load), lastSnapshot, movedInLoad, Running)
      /\ ~ changed => Covers(ReadOn(load), Now, {}, Running)
    <2> HIDE DEF load
    <2> QED BY <1>1, <1>5, ReadOnOK, ReadOnCovers DEF DashboardInv
<1>7. PublicationOK'
    <2> HIDE DEF load
    <2> QED BY <1>1, <1>2, <1>3, <1>6 DEF DashboardInv, PublicationOK
<1> QED BY <1>1, <1>2, <1>4, <1>7 DEF DashboardInv, ToldChangesTookPlace

\* A publication ends: it has found nothing older than the last one did, but for
\* what was archived under it, and all there is if nothing has changed.
LEMMA FinishPublishingStep ==
    ASSUME DashboardInv, NEW n \in 1 .. MaxRuns, FinishPublishing(n)
    PROVE  DashboardInv'
<1> DEFINE load == publication.load[n]
           new == load.got
<1>1. /\ n \in publication.running /\ Loaded(load)
      /\ publication' = [publication EXCEPT !.running = @ \ {n}, !.load[n] = NoLoad]
      /\ UNCHANGED <<runtimeDir, archiveDir, movedInLoad, changed, rev>>
    BY DEF FinishPublishing
<1>2. Now' = Now /\ Running' = Running
    BY <1>1 DEF Now, Running
<1>3. /\ publication'.load = [publication.load EXCEPT ![n] = NoLoad]
      /\ publication'.running = {}
      /\ DOMAIN publication' = {"running", "load"}
    BY <1>1 DEF DashboardInv, PublicationOK
<1>4. /\ View(new) /\ Below(new, Now) /\ View(Now) /\ View(lastSnapshot)
      /\ \A s \in DOMAIN lastSnapshot \ movedInLoad : AtLeast(lastSnapshot, new, s)
      /\ ~ changed => new = Now
    <2>1. /\ LoadOK(load, Now) /\ View(Now) /\ View(lastSnapshot)
          /\ Covers(load, lastSnapshot, movedInLoad, Running)
          /\ ~ changed => Covers(load, Now, {}, Running)
        BY <1>1, FloorIsAView DEF DashboardInv, PublicationOK
    <2> HIDE DEF load
    <2>2. View(new) /\ Below(new, Now)
        BY <2>1 DEF LoadOK
    <2>3. \A s \in DOMAIN lastSnapshot \ movedInLoad : AtLeast(lastSnapshot, new, s)
        BY <1>1, <2>1, LoadedHasFound
    <2>4. ASSUME ~ changed PROVE Below(Now, new)
        BY <1>1, <2>1, <2>4, LoadedHasFound DEF Below
    <2>5. ~ changed => new = Now
        BY <2>1, <2>2, <2>4, BelowAntisymmetric
    <2> QED BY <2>1, <2>2, <2>3, <2>5
<1>5. lastSnapshot' = new
    BY DEF FinishPublishing
<1>6. PublicationOK'
    BY <1>2, <1>3, NewLoadCovers DEF DashboardInv, PublicationOK
<1>7. StoreOK' /\ SnapshotOK'
    <2> HIDE DEF new
    <2> QED BY <1>1, <1>2, <1>4, <1>5 DEF DashboardInv, StoreOK, SnapshotOK
<1>8. ToldChangesTookPlace'
    <2>1. CASE new = lastSnapshot
        BY <2>1 DEF FinishPublishing, DashboardInv, ToldChangesTookPlace
    <2>2. CASE new # lastSnapshot
        <3>1. told' = diffSessions(lastSnapshot, new)
            BY <2>2 DEF FinishPublishing
        <3> HIDE DEF new
        <3> SUFFICES ASSUME NEW e \in told' PROVE e.moved \/ e.was.rev < e.is.rev
            BY DEF ToldChangesTookPlace
        <3>2. PICK s \in DOMAIN lastSnapshot \intersect DOMAIN new :
                 /\ lastSnapshot[s].stage # new[s].stage \/ lastSnapshot[s].gate # new[s].gate
                 /\ e = [session |-> s, was |-> lastSnapshot[s], is |-> new[s], moved |-> s \in movedInLoad]
            BY <3>1 DEF diffSessions
        <3>3. CASE s \in movedInLoad
            <4>1. e.moved = (s \in movedInLoad)
                BY <3>2
            <4> QED BY <3>3, <4>1
        <3>4. CASE s \notin movedInLoad
            <4>1. e.was = lastSnapshot[s] /\ e.is = new[s]
                BY <3>2
            <4>2. AtLeast(lastSnapshot, new, s)
                BY <1>4, <3>4
            <4> QED BY <1>4, <3>2, <4>1, <4>2 DEF AtLeast, View
        <3> QED BY <3>3, <3>4
    <2> QED BY <2>1, <2>2
<1>9. ASSUME NEW v \in Viewer PROVE ViewerOK(viewers'[v], Now, Running, Floor')
    <2> DEFINE old == viewers[v]
    <2>1. ViewerOK(old, Now, Running, Floor)
        BY DEF DashboardInv
    <2>2. Floor' = IF rev = 0 THEN Now ELSE new
        BY <1>1, <1>2, <1>5 DEF Floor
    <2>3. CASE new = lastSnapshot
        <3>1. viewers' = viewers /\ Floor' = Floor
            BY <2>2, <2>3 DEF FinishPublishing, Floor
        <3> QED BY <2>1, <3>1
    <2>4. CASE new # lastSnapshot /\ ~ old.open
        <3>1. viewers'[v] = old
            BY <2>4 DEF FinishPublishing, Clients
        <3> QED BY <2>1, <2>4, <3>1 DEF ViewerOK
    <2>5. CASE new # lastSnapshot /\ old.open
        <3>1. viewers'[v] = [old EXCEPT !.shown = new, !.raced = @ \/ ~ Loaded(old.load)]
            BY <2>5 DEF FinishPublishing, Clients
        <3>2. Below(Floor', new)
            <4>1. rev = 0 => new = Now
                BY <1>4 DEF DashboardInv, SnapshotOK
            <4> HIDE DEF new
            <4> QED BY <1>4, <2>2, <4>1, BelowReflexive
        <3> HIDE DEF new, old
        <3> QED BY <1>4, <2>1, <3>1, <3>2 DEF ViewerOK
    <2> QED BY <2>3, <2>4, <2>5
<1>10. viewers' = [v \in Viewer |-> viewers'[v]]
    BY DEF FinishPublishing, DashboardInv
<1> QED BY <1>2, <1>6, <1>7, <1>8, <1>9, <1>10 DEF DashboardInv

\* A page comes, reads its first snapshot or goes.
LEMMA ViewerStep ==
    ASSUME DashboardInv, NEW v \in Viewer, Connect(v) \/ ReadForViewer(v) \/ Disconnect(v)
    PROVE  DashboardInv'
<1> DEFINE old == viewers[v]
<1>1. UNCHANGED <<runtimeDir, archiveDir, publication, lastSnapshot, told, movedInLoad, changed, rev>>
    BY DEF Connect, ReadForViewer, Disconnect
<1>2. Now' = Now /\ Running' = Running /\ Floor' = Floor
    BY <1>1 DEF Now, Running, Floor
<1>3. StoreOK' /\ PublicationOK' /\ SnapshotOK' /\ ToldChangesTookPlace'
    BY <1>1, <1>2 DEF DashboardInv, StoreOK, PublicationOK, SnapshotOK, ToldChangesTookPlace
<1>4. /\ ViewerOK(old, Now, Running, Floor)
      /\ View(Floor) /\ Below(Floor, Now) /\ LoadOK(NewLoad, Now) /\ LoadOK(NoLoad, Now) /\ Loaded(NoLoad)
      /\ ~ Loaded(NewLoad) /\ Covers(NewLoad, Floor, {}, Running)
    BY FloorIsAView, NewLoadCovers DEF DashboardInv
<1>5. View(<<>>) /\ Below(<<>>, Now)
    BY DEF View, Below
<1> SUFFICES \E new : viewers' = [viewers EXCEPT ![v] = new] /\ ViewerOK(new, Now, Running, Floor)
    BY <1>2, <1>3 DEF DashboardInv
<1>6. CASE Connect(v)
    <2> DEFINE new == [open |-> TRUE, load |-> NewLoad, shown |-> <<>>, raced |-> FALSE]
    <2>1. viewers' = [viewers EXCEPT ![v] = new]
        BY <1>6 DEF Connect
    <2>2. ViewerOK(new, Now, Running, Floor)
        BY <1>4, <1>5 DEF ViewerOK
    <2> QED BY <2>1, <2>2
<1>7. CASE Disconnect(v)
    <2>1. viewers' = [viewers EXCEPT ![v] = Away]
        BY <1>7 DEF Disconnect
    <2>2. NoLoad = [NoLoad EXCEPT !.dirs = <<>>]
        BY DEF NoLoad
    <2>3. ViewerOK(Away, Now, Running, Floor)
        BY <1>4, <1>5, <2>2 DEF ViewerOK, Away
    <2> QED BY <2>1, <2>3
<1>8. CASE ReadForViewer(v)
    <2> DEFINE load == ReadOn(old.load)
               new == [old EXCEPT !.load = load, !.shown = IF Loaded(load) THEN load.got ELSE @]
    <2>1. viewers' = [viewers EXCEPT ![v] = new] /\ old.open /\ ~ Loaded(old.load)
        BY <1>8 DEF ReadForViewer, DashboardInv
    <2>2. LoadOK(load, Now)
        BY <1>4, <2>1, ReadOnOK DEF DashboardInv, ViewerOK
    <2>3. ~ old.raced => Covers(load, Floor, {}, Running)
        BY <1>4, <2>1, ReadOnCovers DEF DashboardInv, ViewerOK
    <2>4. ~ old.raced /\ Loaded(load) => Below(Floor, load.got)
        <3> HIDE DEF load, old
        <3> QED BY <2>3, LoadedHasFound DEF Below
    <2>5. View(load.got) /\ Below(load.got, Now)
        <3> HIDE DEF load
        <3> QED BY <2>2 DEF LoadOK
    <2>6. ViewerOK(new, Now, Running, Floor)
        <3> HIDE DEF load, old
        <3> QED BY <1>4, <2>1, <2>2, <2>3, <2>4, <2>5 DEF ViewerOK
    <2> QED BY <2>1, <2>6
<1> QED BY <1>6, <1>7, <1>8

-----------------------------------------------------------------------------
\* At first no page is there and nothing was published.
LEMMA DashboardInvInit == DashboardInit => DashboardInv
<1> SUFFICES ASSUME DashboardInit PROVE DashboardInv
    OBVIOUS
<1>1. StoreOK
    BY DEF DashboardInit, StoreOK, View
<1>2. View(<<>>) /\ \A view : Below(<<>>, view)
    BY DEF View, Below
<1>3. LoadOK(NoLoad, Now) /\ Loaded(NoLoad) /\ NoLoad = [NoLoad EXCEPT !.dirs = <<>>]
    BY <1>1, NewLoadCovers DEF NoLoad
<1>4. PublicationOK
    BY <1>3 DEF DashboardInit, PublicationOK
<1>5. SnapshotOK
    BY <1>2 DEF DashboardInit, SnapshotOK
<1>6. ViewerOK(Away, Now, Running, Floor)
    BY <1>2, <1>3 DEF ViewerOK, Away
<1> QED BY <1>1, <1>4, <1>5, <1>6 DEF DashboardInit, DashboardInv, ToldChangesTookPlace

\* Every step keeps the order of what was published, shown and stored.
LEMMA DashboardInvStep == DashboardInv /\ [DashboardNext]_dashboardVars => DashboardInv'
<1> SUFFICES ASSUME DashboardInv, [DashboardNext]_dashboardVars PROVE DashboardInv'
    OBVIOUS
<1>1. CASE \E s \in Watched : SaveSession(s)
    BY <1>1, SaveSessionStep
<1>2. CASE \E s \in Watched : ArchiveSession(s)
    BY <1>2, ArchiveSessionStep
<1>3. CASE \E n \in 1 .. MaxRuns : StartPublishing(n)
    BY <1>3, StartPublishingStep
<1>4. CASE \E n \in 1 .. MaxRuns : ReadForPublication(n)
    BY <1>4, ReadForPublicationStep
<1>5. CASE \E n \in 1 .. MaxRuns : FinishPublishing(n)
    BY <1>5, FinishPublishingStep
<1>6. CASE \E v \in Viewer : Connect(v) \/ ReadForViewer(v) \/ Disconnect(v)
    BY <1>6, ViewerStep
<1>7. CASE UNCHANGED dashboardVars
    <2>1. Now' = Now /\ Running' = Running /\ Floor' = Floor
        BY <1>7 DEF dashboardVars, Now, Running, Floor
    <2> QED BY <1>7, <2>1 DEF dashboardVars, DashboardInv, StoreOK, PublicationOK, SnapshotOK, ToldChangesTookPlace
<1> QED BY <1>1, <1>2, <1>3, <1>4, <1>5, <1>6, <1>7 DEF DashboardNext

\* Where nothing is published and nothing has changed, the floor is all there is.
LEMMA AtRestTheFloorIsAll ==
    ASSUME DashboardInv, publication.running = {}, ~ changed
    PROVE  Floor = Now
BY DEF DashboardInv, SnapshotOK, Floor

(* However saves, archivals, publications and the loads of pages           *)
(* interleave, a change that is told has taken place, and pages that       *)
(* loaded undisturbed show all there is once a publication has seen it.    *)
THEOREM PagesAreAlwaysToldTheTruth == DashboardSpec => []PagesAreToldTheTruth
<1>1. DashboardInv => PagesAreToldTheTruth
    <2> SUFFICES ASSUME DashboardInv PROVE PagesCatchUp
        BY DEF DashboardInv, PagesAreToldTheTruth
    <2> SUFFICES ASSUME publication.running = {}, ~ changed, NEW v \in Viewer,
                        viewers[v].open, Loaded(viewers[v].load), ~ viewers[v].raced
                 PROVE  viewers[v].shown = Now
        BY DEF PagesCatchUp, Now
    <2>1. /\ View(viewers[v].shown) /\ Below(viewers[v].shown, Now) /\ Below(Floor, viewers[v].shown)
        BY DEF DashboardInv, ViewerOK
    <2>2. View(Now) /\ Floor = Now
        BY AtRestTheFloorIsAll, NowIsAView DEF DashboardInv
    <2> QED BY <2>1, <2>2, BelowAntisymmetric
<1> QED BY <1>1, DashboardInvInit, DashboardInvStep, PTL DEF DashboardSpec

-----------------------------------------------------------------------------
(* Names of rules.                                                         *)

\* A path ends with the name of the file ...
LEMMA PathsAreOfFiles ==
    ASSUME NEW rules \in FoundRules, NEW r \in rules
    PROVE  LET path == Append(r.dir, r.file)
           IN  Len(path) = Len(r.dir) + 1 /\ path[Len(path)] = r.file /\ path \in Seq(STRING)
BY FoundRulesAssumption, AppendProperties

\* ... and whatever is shorter with its stem.
LEMMA ShortNamesAreOfStems ==
    ASSUME NEW rules \in FoundRules, NEW r \in rules, NEW name, name = ParentNames(rules, StemNames(rules))
    PROVE  name[r] \in Seq(STRING) /\ name[r][Len(name[r])] = r.stem
<1>1. r.dir \in Seq(STRING) /\ r.stem \in STRING
    BY FoundRulesAssumption
<1>2. name[r] = IF Ambiguous(rules, StemNames(rules), r) /\ r.dir # <<>> THEN <<Last(r.dir)>> \o <<r.stem>> ELSE <<r.stem>>
    BY DEF ParentNames, StemNames
<1>3. <<r.stem>> \in Seq(STRING) /\ Len(<<r.stem>>) = 1 /\ <<r.stem>>[1] = r.stem
    BY <1>1
<1>4. ASSUME r.dir # <<>>
      PROVE  LET long == <<Last(r.dir)>> \o <<r.stem>>
             IN  long \in Seq(STRING) /\ Len(long) = 2 /\ long[2] = r.stem
    <2>1. Last(r.dir) \in STRING
        BY <1>1, <1>4, LenProperties, EmptySeq DEF Last
    <2>2. <<Last(r.dir)>> \in Seq(STRING) /\ Len(<<Last(r.dir)>>) = 1
        BY <2>1
    <2> QED
        BY <1>3, <2>2, ConcatProperties
<1> QED
    BY <1>2, <1>3, <1>4

\* No two rules of one source go by one name.
LEMMA NamesAreApart ==
    ASSUME NoStemIsAFileName, NEW rules \in FoundRules, NEW q \in rules, NEW r \in rules, q.source = r.source,
           disambiguateNames(rules)[q] = disambiguateNames(rules)[r]
    PROVE  q = r
<1> DEFINE short == ParentNames(rules, StemNames(rules))
           path(x) == Append(x.dir, x.file)
<1>1. \A x \in rules : disambiguateNames(rules)[x] = IF Ambiguous(rules, short, x) THEN path(x) ELSE short[x]
    BY DEF disambiguateNames, PathNames
<1>2. \A x \in rules : /\ path(x) \in Seq(STRING) /\ Len(path(x)) = Len(x.dir) + 1
                       /\ path(x)[Len(path(x))] = x.file
    BY PathsAreOfFiles
<1>3. \A x \in rules : short[x][Len(short[x])] = x.stem
    BY ShortNamesAreOfStems
<1>4. \A x, y \in rules : x # y => path(x) # short[y]
    BY <1>2, <1>3 DEF NoStemIsAFileName
<1>5. \A x, y \in rules : x # y /\ short[x] = short[y] => Ambiguous(rules, short, x)
    BY DEF Ambiguous
<1>6. ASSUME path(q) = path(r) PROVE q = r
    <2>1. q.dir \in Seq(STRING) /\ r.dir \in Seq(STRING) /\ q.file \in STRING /\ r.file \in STRING
        BY FoundRulesAssumption
    <2>2. q.file = r.file /\ q.dir = r.dir
        <3>1. Append(q.dir, q.file) = Append(r.dir, r.file)
            BY <1>6
        <3> HIDE DEF short, path
        <3> DEFINE above == q.dir
                   below == r.dir
                   last == q.file
                   ending == r.file
        <3>2. /\ above \in Seq(STRING) /\ below \in Seq(STRING) /\ last \in STRING /\ ending \in STRING
              /\ Append(above, last) = Append(below, ending)
            BY <2>1, <3>1
        <3> HIDE DEF above, below, last, ending
        <3>3. above = below /\ last = ending
            BY <3>2, AppendInjective
        <3> QED
            BY <3>3 DEF above, below, last, ending
    <2> QED
        BY <2>2, FoundRulesAssumption
<1> HIDE DEF short, path
<1> QED
    BY <1>1, <1>4, <1>5, <1>6

\* So the entries of the panel are apart.
LEMMA EntriesAreApart ==
    ASSUME NoStemIsAFileName, NEW rules \in FoundRules, NEW state
    PROVE  \A e, f \in Entries(rules, state) : e.source = f.source /\ e.name = f.name => e = f
<1> DEFINE name == disambiguateNames(rules)
           entry(r) == [source |-> r.source, name |-> name[r], rule |-> r, active |-> isActive(r, state)]
<1> SUFFICES ASSUME NEW q \in rules, NEW r \in rules, entry(q).source = entry(r).source, entry(q).name = entry(r).name
             PROVE  entry(q) = entry(r)
    BY DEF Entries
<1>1. q.source = r.source /\ name[q] = name[r]
    OBVIOUS
<1>2. q = r
    BY <1>1, NamesAreApart
<1> QED
    BY <1>2

-----------------------------------------------------------------------------
(* The panel of the rules.                                                 *)
CoordFields == {"target", "generation", "nextId", "active", "pendingRefresh", "retryIndex", "retry", "disposed"}
LoadFields == {"id", "generation", "reset", "session", "read", "state", "after"}

CoordTypes(c) == DOMAIN c = CoordFields /\ c.generation \in Nat /\ c.nextId \in Nat

\* A load of the generation of c is the one that c waits for.
LoadFits(l, c) ==
    /\ DOMAIN l = LoadFields
    /\ l.id \in 1 .. c.nextId /\ l.generation \in 0 .. c.generation
    /\ l.generation = c.generation => ~ c.disposed /\ l.id = c.active /\ l.session = c.target
LoadsFit == \A l \in loads : LoadFits(l, coord)

\* What the coordinator waits for is under way, and then no retry is due.
ActiveIsUnderWay ==
    coord.active # NoRequest => ~ coord.retry /\ \E l \in loads : l.generation = coord.generation

SidebarInv ==
    /\ found \in FoundRules
    /\ CoordTypes(coord) /\ LoadsFit /\ ActiveIsUnderWay
    /\ DOMAIN panel = {"session", "status", "entries"}
    /\ ShownIsOfTheTarget /\ NoRefreshIsLost /\ OneLoadAtATime /\ NamesTellRulesApart

\* At first nothing is loaded.
LEMMA SidebarInvInit == SidebarInit => SidebarInv
BY DEF SidebarInit, SidebarInv, CoordTypes, CoordFields, Fresh, LoadsFit, ActiveIsUnderWay, NoRequest,
       ShownIsOfTheTarget, NoRefreshIsLost, OneLoadAtATime, NamesTellRulesApart

\* The load that is current is the one of this generation.
LEMMA CurrentIsOfTheGeneration ==
    ASSUME SidebarInv, NEW l \in loads
    PROVE  isCurrent(l) <=> l.generation = coord.generation
BY DEF SidebarInv, LoadsFit, LoadFits, isCurrent

\* Starting a load where none of this generation is under way.
LEMMA LoadStarts ==
    ASSUME NEW c, NEW reset, NEW others, StartLoad(c, reset, others),
           CoordTypes(c), ~ c.disposed, ~ c.retry,
           \A l \in others : LoadFits(l, c) /\ l.generation # c.generation
    PROVE  /\ CoordTypes(coord)' /\ LoadsFit' /\ ActiveIsUnderWay' /\ OneLoadAtATime'
           /\ coord'.target = c.target /\ ~ coord'.disposed
           /\ \E l \in loads' : isCurrent(l)' /\ l.after
<1> DEFINE n == c.nextId + 1
           new == [id |-> n, generation |-> c.generation, reset |-> reset,
                   session |-> c.target, read |-> FALSE, state |-> NotEvaluated, after |-> TRUE]
<1>1. coord' = [c EXCEPT !.nextId = n, !.active = n] /\ loads' = others \union {new}
    BY DEF StartLoad
<1>2. n \in Nat /\ n # NoRequest /\ n \in 1 .. n /\ c.generation \in Nat
    BY DEF CoordTypes, NoRequest
<1>3. \A l \in others : DOMAIN l = LoadFields /\ l.id \in 1 .. n /\ l.generation \in 0 .. c.generation
                          /\ l.generation # c.generation
    BY DEF LoadFits, CoordTypes
<1>4. /\ DOMAIN new = LoadFields /\ new.id = n /\ new.generation = c.generation
      /\ new.session = c.target /\ new.after
    BY DEF LoadFields
<1> HIDE DEF n, new
<1>5. /\ DOMAIN coord' = CoordFields /\ coord'.nextId = n /\ coord'.active = n
      /\ coord'.generation = c.generation /\ coord'.target = c.target
      /\ ~ coord'.disposed /\ ~ coord'.retry
    BY <1>1 DEF CoordTypes, CoordFields
<1>6. new \in loads' /\ \A l \in loads' : l \in others \/ l = new
    BY <1>1
<1>7. CoordTypes(coord)'
    BY <1>2, <1>5 DEF CoordTypes
<1>8. LoadsFit'
    BY <1>2, <1>3, <1>4, <1>5, <1>6 DEF LoadsFit, LoadFits
<1>9. ActiveIsUnderWay' /\ OneLoadAtATime'
    BY <1>3, <1>4, <1>5, <1>6 DEF ActiveIsUnderWay, OneLoadAtATime
<1>10. isCurrent(new)'
    BY <1>4, <1>5 DEF isCurrent
<1> QED
    BY <1>4, <1>5, <1>6, <1>7, <1>8, <1>9, <1>10

\* With that the panel, where it is left or says that it loads, shows the target.
LEMMA StartedLoadShows ==
    ASSUME SidebarInv, NEW c, NEW reset, NEW others, StartLoad(c, reset, others),
           CoordTypes(c), ~ c.disposed, ~ c.retry,
           \A l \in others : LoadFits(l, c) /\ l.generation # c.generation,
           UNCHANGED found, DOMAIN panel' = DOMAIN panel, panel'.entries = panel.entries \/ NamesTellRulesApart',
           panel'.status = "loaded" => panel'.session = c.target
    PROVE  SidebarInv'
<1>1. NamesTellRulesApart'
    BY DEF SidebarInv, NamesTellRulesApart
<1>2. /\ CoordTypes(coord)' /\ LoadsFit' /\ ActiveIsUnderWay' /\ OneLoadAtATime'
      /\ coord'.target = c.target /\ ~ coord'.disposed
      /\ \E l \in loads' : isCurrent(l)' /\ l.after
    BY LoadStarts
<1>3. ShownIsOfTheTarget'
    BY <1>2 DEF ShownIsOfTheTarget
<1>4. NoRefreshIsLost'
    BY <1>2 DEF NoRefreshIsLost
<1> QED
    BY <1>1, <1>2, <1>3, <1>4 DEF SidebarInv

\* A retry comes only where no load is under way, ...
LEMMA RetryFiresStep == SidebarInv /\ RetryFires => SidebarInv'
<1> SUFFICES ASSUME SidebarInv, RetryFires PROVE SidebarInv'
    OBVIOUS
<1> DEFINE c == [coord EXCEPT !.retry = FALSE]
<1>1. StartLoad(c, FALSE, loads) /\ UNCHANGED <<found, panel>> /\ coord.retry /\ ~ coord.disposed
    BY DEF RetryFires
<1>2. /\ CoordTypes(c) /\ ~ c.disposed /\ ~ c.retry /\ c.target = coord.target /\ c.nextId = coord.nextId
      /\ c.generation = coord.generation /\ c.active = coord.active /\ c.disposed = coord.disposed
    BY <1>1 DEF SidebarInv, CoordTypes, CoordFields
<1> HIDE DEF c
<1>3. coord.active = NoRequest
    BY <1>1 DEF SidebarInv, ActiveIsUnderWay
<1>4. \A l \in loads : LoadFits(l, c) /\ l.generation # c.generation
    BY <1>2, <1>3 DEF SidebarInv, LoadsFit, LoadFits, NoRequest
<1>5. panel'.status = "loaded" => panel'.session = c.target
    BY <1>1, <1>2 DEF SidebarInv, ShownIsOfTheTarget
<1> QED
    BY <1>1, <1>2, <1>4, <1>5, StartedLoadShows

\* ... a refresh waits for the one that is, ...
LEMMA RefreshStep == SidebarInv /\ Refresh => SidebarInv'
<1> SUFFICES ASSUME SidebarInv, Refresh PROVE SidebarInv'
    OBVIOUS
<1>1. UNCHANGED <<found, panel, stale>> /\ ~ coord.disposed
    BY DEF Refresh
<1>2. CASE coord.active = NoRequest
    <2> DEFINE c == CancelRetry(coord)
    <2>1. StartLoad(c, FALSE, loads)
        BY <1>2 DEF Refresh
    <2>2. /\ CoordTypes(c) /\ ~ c.disposed /\ ~ c.retry /\ c.target = coord.target /\ c.nextId = coord.nextId
          /\ c.generation = coord.generation /\ c.active = coord.active /\ c.disposed = coord.disposed
        BY <1>1 DEF SidebarInv, CoordTypes, CoordFields, CancelRetry
    <2> HIDE DEF c
    <2>3. \A l \in loads : LoadFits(l, c) /\ l.generation # c.generation
        BY <1>2, <2>2 DEF SidebarInv, LoadsFit, LoadFits, NoRequest
    <2>4. panel'.status = "loaded" => panel'.session = c.target
        BY <1>1, <2>2 DEF SidebarInv, ShownIsOfTheTarget
    <2> QED
        BY <1>1, <2>1, <2>2, <2>3, <2>4, StartedLoadShows
<1>3. CASE coord.active # NoRequest
    <2>1. coord' = [CancelRetry(coord) EXCEPT !.pendingRefresh = TRUE] /\ UNCHANGED loads
        BY <1>3 DEF Refresh
    <2>2. /\ DOMAIN coord' = CoordFields /\ coord'.target = coord.target /\ coord'.nextId = coord.nextId
          /\ coord'.generation = coord.generation /\ coord'.active = coord.active
          /\ coord'.disposed = coord.disposed /\ ~ coord'.retry /\ coord'.pendingRefresh
        BY <2>1 DEF SidebarInv, CoordTypes, CoordFields, CancelRetry
    <2>3. CoordTypes(coord)' /\ LoadsFit' /\ ActiveIsUnderWay' /\ OneLoadAtATime'
        BY <2>1, <2>2 DEF SidebarInv, CoordTypes, LoadsFit, LoadFits, ActiveIsUnderWay, OneLoadAtATime
    <2>4. PICK l \in loads : l.generation = coord.generation
        BY <1>3 DEF SidebarInv, ActiveIsUnderWay
    <2>5. isCurrent(l)
        BY <2>4, CurrentIsOfTheGeneration
    <2>6. isCurrent(l)'
        BY <2>2, <2>5 DEF isCurrent
    <2>7. NoRefreshIsLost'
        BY <2>1, <2>2, <2>6 DEF NoRefreshIsLost
    <2> QED
        BY <1>1, <2>2, <2>3, <2>7 DEF SidebarInv, ShownIsOfTheTarget, NamesTellRulesApart
<1> QED
    BY <1>2, <1>3

\* A load that is overtaken differs in nothing else.
LEMMA OvertakenFit ==
    ASSUME SidebarInv, NEW m \in Overtaken
    PROVE  \E l \in loads : /\ m = [l EXCEPT !.after = FALSE] /\ DOMAIN m = LoadFields
                            /\ m.id = l.id /\ m.generation = l.generation /\ m.session = l.session
<1>1. PICK l \in loads : m = [l EXCEPT !.after = FALSE]
    BY DEF Overtaken
<1>2. DOMAIN l = LoadFields
    BY DEF SidebarInv, LoadsFit, LoadFits
<1> QED
    BY <1>1, <1>2 DEF LoadFields

\* ... and another session begins another generation.
LEMMA SwitchSessionStep == SidebarInv /\ (\E s \in Opened : SwitchSession(s)) => SidebarInv'
<1> SUFFICES ASSUME SidebarInv, NEW s \in Opened, SwitchSession(s) PROVE SidebarInv'
    OBVIOUS
<1> DEFINE g == coord.generation + 1
           c == [CancelRetry(coord) EXCEPT !.pendingRefresh = FALSE, !.target = s, !.generation = g]
<1>1. /\ StartLoad(c, TRUE, Overtaken) /\ UNCHANGED found /\ ~ coord.disposed
      /\ panel' = [panel EXCEPT !.status = "loading"]
    BY DEF SwitchSession, CancelRetry, SidebarInv, CoordTypes, CoordFields
<1>2. g \in Nat /\ coord.generation \in Nat /\ coord.generation < g /\ 0 .. coord.generation \subseteq 0 .. g
    BY DEF SidebarInv, CoordTypes
<1> HIDE DEF g
<1>3. /\ CoordTypes(c) /\ ~ c.disposed /\ ~ c.retry /\ c.target = s /\ c.nextId = coord.nextId /\ c.generation = g
    BY <1>1, <1>2 DEF SidebarInv, CoordTypes, CoordFields, CancelRetry
<1> HIDE DEF c
<1>4. ASSUME NEW m \in Overtaken
      PROVE  LoadFits(m, c) /\ m.generation # c.generation
    <2>1. PICK l \in loads : DOMAIN m = LoadFields /\ m.id = l.id /\ m.generation = l.generation
        BY OvertakenFit
    <2>2. l.id \in 1 .. c.nextId /\ l.generation \in 0 .. coord.generation
        BY <1>3 DEF SidebarInv, LoadsFit, LoadFits
    <2>3. m.generation \in 0 .. g /\ m.generation # g
        BY <1>2, <2>1, <2>2
    <2> QED
        BY <1>3, <2>1, <2>2, <2>3 DEF LoadFits
<1>5. DOMAIN panel' = DOMAIN panel /\ panel'.entries = panel.entries /\ panel'.status = "loading"
    BY <1>1 DEF SidebarInv
<1> QED
    BY <1>1, <1>3, <1>4, <1>5, StartedLoadShows

\* What leaves the coordinator alone and makes of each load one of its name.
LEMMA SameCoordinator ==
    ASSUME SidebarInv, UNCHANGED <<found, coord, panel>>, NEW f \in [loads -> loads'],
           \A m \in loads' : \E l \in loads : m = f[l],
           \A l \in loads : /\ DOMAIN f[l] = LoadFields
                            /\ f[l].id = l.id /\ f[l].generation = l.generation /\ f[l].session = l.session,
           NoRefreshIsLost'
    PROVE  SidebarInv'
<1>1. CoordTypes(coord)' /\ LoadsFit'
    BY DEF SidebarInv, CoordTypes, LoadsFit, LoadFits
<1>2. ActiveIsUnderWay'
    BY DEF SidebarInv, ActiveIsUnderWay
<1>3. OneLoadAtATime'
    BY DEF SidebarInv, OneLoadAtATime
<1> QED
    BY <1>1, <1>2, <1>3 DEF SidebarInv, ShownIsOfTheTarget, NamesTellRulesApart

\* An event sets the timer and overtakes every load.
LEMMA HostEventStep == SidebarInv /\ HostEvent => SidebarInv'
<1> SUFFICES ASSUME SidebarInv, HostEvent PROVE SidebarInv'
    OBVIOUS
<1>1. UNCHANGED <<found, coord, panel>> /\ debounce' = TRUE /\ loads' = Overtaken
    BY DEF HostEvent
<1> DEFINE f == [l \in loads |-> [l EXCEPT !.after = FALSE]]
<1>2. f \in [loads -> loads'] /\ \A m \in loads' : \E l \in loads : m = f[l]
    BY <1>1 DEF Overtaken
<1>3. \A l \in loads : /\ DOMAIN f[l] = LoadFields
                       /\ f[l].id = l.id /\ f[l].generation = l.generation /\ f[l].session = l.session
    BY DEF SidebarInv, LoadsFit, LoadFits, LoadFields
<1>4. NoRefreshIsLost'
    BY <1>1 DEF NoRefreshIsLost
<1> HIDE DEF f
<1> QED
    BY <1>1, <1>2, <1>3, <1>4, SameCoordinator

\* What a load reads is its own.
LEMMA ReadStateStep == SidebarInv /\ (\E l \in loads : ReadState(l)) => SidebarInv'
<1> SUFFICES ASSUME SidebarInv, NEW l \in loads, ReadState(l) PROVE SidebarInv'
    OBVIOUS
<1> DEFINE state == evaluated[l.session]
           now == [l EXCEPT !.read = TRUE, !.state = state]
           f == [m \in loads |-> IF m = l THEN now ELSE m]
<1>1. UNCHANGED <<found, coord, panel, debounce, stale>> /\ loads' = (loads \ {l}) \union {now}
    BY DEF ReadState
<1>2. /\ DOMAIN now = LoadFields /\ now.id = l.id /\ now.generation = l.generation
      /\ now.session = l.session /\ now.after = l.after
    BY DEF SidebarInv, LoadsFit, LoadFits, LoadFields
<1> HIDE DEF now
<1>3. f \in [loads -> loads'] /\ \A m \in loads' : \E k \in loads : m = f[k]
    BY <1>1
<1>4. \A m \in loads : /\ DOMAIN f[m] = LoadFields
                       /\ f[m].id = m.id /\ f[m].generation = m.generation /\ f[m].session = m.session
    BY <1>2 DEF SidebarInv, LoadsFit, LoadFits
<1>5. NoRefreshIsLost'
    <2> SUFFICES ASSUME stale, ~ coord.disposed, ~ debounce
                 PROVE  \E m \in loads' : isCurrent(m)' /\ (m.after \/ coord.pendingRefresh)
        BY <1>1 DEF NoRefreshIsLost
    <2>1. PICK m \in loads : isCurrent(m) /\ (m.after \/ coord.pendingRefresh)
        BY DEF SidebarInv, NoRefreshIsLost
    <2>2. \A k : isCurrent(k)' <=> ~ coord.disposed /\ coord.active = k.id /\ coord.generation = k.generation
        BY <1>1 DEF isCurrent
    <2>3. CASE m = l
        BY <1>1, <1>2, <2>1, <2>2, <2>3 DEF isCurrent
    <2>4. CASE m # l
        BY <1>1, <2>1, <2>2, <2>4 DEF isCurrent
    <2> QED
        BY <2>3, <2>4
<1> HIDE DEF f
<1> QED
    BY <1>1, <1>3, <1>4, <1>5, SameCoordinator

\* After dispose no load is of the generation.
LEMMA DisposeStep == SidebarInv /\ Dispose => SidebarInv'
<1> SUFFICES ASSUME SidebarInv, Dispose PROVE SidebarInv'
    OBVIOUS
<1> DEFINE g == coord.generation + 1
<1>1. /\ coord' = [Fresh EXCEPT !.disposed = TRUE, !.generation = g, !.nextId = coord.nextId]
      /\ UNCHANGED <<found, loads, panel>>
    BY DEF Dispose
<1>2. g \in Nat /\ coord.generation \in Nat /\ \A i \in 0 .. coord.generation : i \in 0 .. g /\ i # g
    BY DEF SidebarInv, CoordTypes
<1> HIDE DEF g
<1>3. /\ DOMAIN coord' = CoordFields /\ coord'.generation = g /\ coord'.nextId = coord.nextId
      /\ coord'.disposed = TRUE /\ coord'.active = NoRequest
    BY <1>1 DEF Fresh, CoordFields
<1>4. CoordTypes(coord)' /\ LoadsFit' /\ ActiveIsUnderWay' /\ OneLoadAtATime'
    BY <1>1, <1>2, <1>3 DEF SidebarInv, CoordTypes, LoadsFit, LoadFits, ActiveIsUnderWay, OneLoadAtATime
<1> QED
    BY <1>1, <1>3, <1>4 DEF SidebarInv, ShownIsOfTheTarget, NoRefreshIsLost, NamesTellRulesApart

\* What a load puts up: the session and the rules it is of, or that it failed.
LEMMA SettledPanel ==
    ASSUME SidebarInv, NoStemIsAFileName, NEW l \in loads, NEW failed \in BOOLEAN, Settle(l, failed), isCurrent(l)
    PROVE  /\ DOMAIN panel' = DOMAIN panel
           /\ panel'.entries = panel.entries \/ NamesTellRulesApart'
           /\ panel'.status = "loaded" => panel'.session = coord.target
<1>1. panel' = CASE ~ failed -> [panel EXCEPT !.session = l.session, !.status = "loaded",
                                             !.entries = Entries(found, l.state)]
                 [] failed /\ l.reset -> [panel EXCEPT !.status = "error"]
                 [] OTHER -> panel
    BY DEF Settle
<1>2. ~ coord.disposed /\ l.session = coord.target
    BY DEF SidebarInv, LoadsFit, LoadFits, isCurrent
<1>3. CASE ~ failed
    <2> DEFINE es == Entries(found, l.state)
    <2>1. \A e, f \in es : e.source = f.source /\ e.name = f.name => e = f
        BY EntriesAreApart DEF SidebarInv
    <2> HIDE DEF es
    <2>2. panel' = [panel EXCEPT !.session = l.session, !.status = "loaded", !.entries = es]
        BY <1>1, <1>3 DEF es
    <2>3. DOMAIN panel' = DOMAIN panel /\ panel'.session = l.session /\ panel'.entries = es
        BY <2>2 DEF SidebarInv
    <2> QED
        BY <1>2, <2>1, <2>3 DEF NamesTellRulesApart
<1>4. CASE failed /\ l.reset
    <2>1. panel' = [panel EXCEPT !.status = "error"]
        BY <1>1, <1>4
    <2> QED
        BY <2>1 DEF SidebarInv
<1>5. CASE failed /\ ~ l.reset
    <2>1. panel' = panel
        BY <1>1, <1>5
    <2> QED
        BY <1>2, <2>1 DEF SidebarInv, ShownIsOfTheTarget
<1> QED
    BY <1>3, <1>4, <1>5

\* A load that comes back is put up if it is current, and followed by the one asked for meanwhile.
LEMMA SettleStep ==
    ASSUME SidebarInv, NoStemIsAFileName, NEW l \in loads, NEW failed \in BOOLEAN, Settle(l, failed)
    PROVE  SidebarInv'
<1>1. UNCHANGED <<found, debounce>>
    BY DEF Settle
<1>2. CASE ~ isCurrent(l)
    <2>1. loads' = loads \ {l} /\ UNCHANGED <<coord, panel, stale>>
        BY <1>2 DEF Settle
    <2>2. l.generation # coord.generation
        BY <1>2, CurrentIsOfTheGeneration
    <2>3. CoordTypes(coord)' /\ LoadsFit' /\ ActiveIsUnderWay' /\ OneLoadAtATime'
        BY <2>1, <2>2 DEF SidebarInv, CoordTypes, LoadsFit, LoadFits, ActiveIsUnderWay, OneLoadAtATime
    <2>4. NoRefreshIsLost'
        <3> SUFFICES ASSUME stale, ~ coord.disposed, ~ debounce
                     PROVE  \E m \in loads' : isCurrent(m)' /\ (m.after \/ coord.pendingRefresh)
            BY <1>1, <2>1 DEF NoRefreshIsLost
        <3>1. PICK m \in loads : isCurrent(m) /\ (m.after \/ coord.pendingRefresh)
            BY DEF SidebarInv, NoRefreshIsLost
        <3>2. m \in loads' /\ isCurrent(m)'
            BY <1>2, <2>1, <3>1 DEF isCurrent
        <3> QED
            BY <3>1, <3>2
    <2> QED
        BY <1>1, <2>1, <2>3, <2>4 DEF SidebarInv, ShownIsOfTheTarget, NamesTellRulesApart
<1>3. CASE isCurrent(l)
    <2> DEFINE c == [coord EXCEPT !.active = NoRequest]
    <2>1. ~ coord.disposed /\ l.generation = coord.generation
        BY <1>3 DEF isCurrent
    <2>2. \A m \in loads \ {l} : LoadFits(m, coord) /\ m.generation # coord.generation
        BY <2>1 DEF SidebarInv, LoadsFit, OneLoadAtATime
    <2>3. /\ DOMAIN panel' = DOMAIN panel
          /\ panel'.entries = panel.entries \/ NamesTellRulesApart'
          /\ panel'.status = "loaded" => panel'.session = coord.target
        BY <1>3, SettledPanel
    <2>4. /\ DOMAIN c = CoordFields /\ c.generation = coord.generation /\ c.nextId = coord.nextId
          /\ c.target = coord.target /\ ~ c.disposed /\ c.active = NoRequest
          /\ c.pendingRefresh = coord.pendingRefresh
        BY <2>1 DEF SidebarInv, CoordTypes, CoordFields
    <2>5. CASE RefreshIsDue(c)
        <3> DEFINE d == [CancelRetry(c) EXCEPT !.pendingRefresh = FALSE]
        <3>1. StartLoad(d, FALSE, loads \ {l})
            BY <1>3, <2>5 DEF Settle
        <3> HIDE DEF c
        <3>2. /\ DOMAIN d = CoordFields /\ d.generation = coord.generation /\ d.nextId = coord.nextId
              /\ d.target = coord.target /\ ~ d.disposed /\ ~ d.retry
            BY <2>4 DEF CancelRetry, CoordFields
        <3> HIDE DEF d
        <3>3. CoordTypes(d)
            BY <3>2 DEF SidebarInv, CoordTypes
        <3>4. \A m \in loads \ {l} : LoadFits(m, d) /\ m.generation # d.generation
            BY <2>2, <3>2 DEF LoadFits
        <3>5. panel'.status = "loaded" => panel'.session = d.target
            BY <2>3, <3>2
        <3> QED
            BY <1>1, <2>3, <3>1, <3>2, <3>3, <3>4, <3>5, StartedLoadShows
    <2>6. CASE ~ RefreshIsDue(c)
        <3>1. /\ loads' = loads \ {l}
              /\ coord' = CASE failed -> c
                            [] ~ failed /\ l.state # NotEvaluated -> CancelRetry(c)
                            [] ~ failed /\ l.state = NotEvaluated /\ c.retryIndex < Retries ->
                                 [c EXCEPT !.retryIndex = @ + 1, !.retry = TRUE]
                            [] OTHER -> c
              /\ stale' = (stale /\ ~ l.after)
            BY <1>3, <2>6 DEF Settle
        <3> HIDE DEF c
        <3>2. \/ coord' = c
              \/ coord' = CancelRetry(c)
              \/ coord' = [c EXCEPT !.retryIndex = c.retryIndex + 1, !.retry = TRUE]
            BY <3>1
        <3>3. /\ DOMAIN coord' = CoordFields /\ coord'.generation = coord.generation
              /\ coord'.nextId = coord.nextId /\ coord'.target = coord.target /\ coord'.active = NoRequest
            BY <2>4, <3>2 DEF CancelRetry, CoordFields
        <3>4. CoordTypes(coord)' /\ LoadsFit' /\ ActiveIsUnderWay' /\ OneLoadAtATime'
            BY <2>2, <3>1, <3>3 DEF SidebarInv, CoordTypes, LoadsFit, LoadFits, ActiveIsUnderWay, OneLoadAtATime
        <3>5. ShownIsOfTheTarget'
            BY <2>3, <3>3 DEF ShownIsOfTheTarget
        <3>6. ~ coord.pendingRefresh
            BY <2>4, <2>6 DEF RefreshIsDue
        <3>7. NoRefreshIsLost'
            <4> SUFFICES ASSUME stale, ~ l.after PROVE debounce
                BY <1>1, <3>1 DEF NoRefreshIsLost
            <4> SUFFICES ASSUME NEW m \in loads, isCurrent(m), m.after PROVE FALSE
                BY <2>1, <3>6 DEF SidebarInv, NoRefreshIsLost
            <4> QED
                BY <2>2, CurrentIsOfTheGeneration
        <3>8. NamesTellRulesApart'
            BY <2>3 DEF SidebarInv, NamesTellRulesApart
        <3> QED
            BY <1>1, <2>3, <3>4, <3>5, <3>7, <3>8 DEF SidebarInv
    <2> QED
        BY <2>5, <2>6
<1> QED
    BY <1>2, <1>3

\* Every step of the panel keeps the invariant.
LEMMA SidebarInvStep ==
    ASSUME NoStemIsAFileName, SidebarInv, [SidebarNext]_sidebarVars
    PROVE  SidebarInv'
<1>1. CASE \E l \in loads : Settle(l, FALSE) \/ Settle(l, TRUE)
    BY <1>1, SettleStep
<1>2. CASE Refresh \/ RetryFires \/ Dispose \/ HostEvent
    BY <1>2, RefreshStep, RetryFiresStep, DisposeStep, HostEventStep
<1>3. CASE \E l \in loads : ReadState(l)
    BY <1>3, ReadStateStep
<1>4. CASE \E s \in Opened : SwitchSession(s)
    BY <1>4, SwitchSessionStep
<1>5. CASE (\E s \in Opened : Evaluate(s)) \/ UNCHANGED sidebarVars
    <2>1. UNCHANGED <<found, coord, loads, panel, debounce, stale>>
        BY <1>5 DEF Evaluate, sidebarVars
    <2> QED
        BY <2>1 DEF SidebarInv, CoordTypes, LoadsFit, LoadFits, ActiveIsUnderWay, ShownIsOfTheTarget,
                    NoRefreshIsLost, isCurrent, OneLoadAtATime, NamesTellRulesApart
<1> QED
    BY <1>1, <1>2, <1>3, <1>4, <1>5 DEF SidebarNext

-----------------------------------------------------------------------------
(* The panel of the workflow.                                              *)
Mine == ~ panelAt.disposed /\ fetch.mine = panelAt.generation
Awaited == panelAt.timer \/ panelAt.pendingRefresh
LastRevisionOf(s) == IF s = NoSession THEN 0 ELSE saved[RootOf(s)]

PanelTypes ==
    /\ saved = [s \in HostSession |-> saved[s]]
    /\ openedSession \in HostSession \union {NoSession}
    /\ DOMAIN panelAt = {"generation", "pendingRefresh", "timer", "disposed"}
    /\ panelAt.generation \in Nat
    /\ DOMAIN fetch = {"at", "session", "mine", "root", "revision", "failed"}
    /\ fetch.at \in {"none", "resolve", "read", "surroundings"}
    /\ fetch.at = "none" => fetch = NoFetch
    /\ fetch.session \in HostSession \union {NoSession}
    /\ fetch.mine \in Nat /\ fetch.mine <= panelAt.generation
    /\ fetch.at = "resolve" /\ fetch.session # NoSession =>
         fetch.root \in HostSession /\ RootOf(fetch.root) = RootOf(fetch.session)

\* The load that is not given up is of the session that is open; another one is
\* followed by a load.
FetchIsOfTheOpen ==
    fetch.at # "none" /\ ~ panelAt.disposed =>
        IF fetch.mine = panelAt.generation THEN fetch.session = openedSession ELSE Awaited

\* It found the root of its session ...
RootIsFound ==
    fetch.at \in {"read", "surroundings"} /\ Mine /\ ~ fetch.failed => activeRoot = RootOf(fetch.session)

\* ... and read the last revision of it, if nothing has happened since.
RevisionIsRead ==
    fetch.at = "surroundings" /\ Mine /\ ~ fetch.failed /\ ~ Awaited =>
        fetch.revision = LastRevisionOf(fetch.session)

PanelInv ==
    /\ PanelTypes /\ FetchIsOfTheOpen /\ RootIsFound /\ RevisionIsRead
    /\ OnlyTheOpenIsPutUp /\ AtRestItIsCurrent

\* The root of a session is a session that has no parent.
LEMMA RootsAreRoots ==
    /\ RootOf(NoSession) = NoSession
    /\ \A s \in HostSession :
         /\ RootOf(s) \in HostSession /\ RootOf(s) # NoSession
         /\ ParentOf[s] = NoSession => RootOf(s) = s
         /\ ParentOf[s] # NoSession => /\ ParentOf[s] \in HostSession
                                       /\ RootOf(ParentOf[s]) = ParentOf[s] /\ RootOf(s) = ParentOf[s]
BY ParentAssumption DEF RootOf

\* At first a load is due.
LEMMA PanelInvInit == PanelInit => PanelInv
BY DEF PanelInit, PanelInv, PanelTypes, NoFetch, FetchIsOfTheOpen, RootIsFound, RevisionIsRead,
       OnlyTheOpenIsPutUp, AtRestItIsCurrent, Awaited, Mine

\* What only sets the timer, or opens another session, leaves the load alone.
LEMMA AskingStep ==
    ASSUME PanelInv, UNCHANGED <<fetch, activeRoot, snapshot>>, ~ panelAt.disposed,
           saved' = [s \in HostSession |-> saved'[s]], openedSession' \in HostSession \union {NoSession},
           DOMAIN panelAt' = DOMAIN panelAt, panelAt'.disposed = panelAt.disposed, panelAt'.timer = TRUE,
           panelAt'.generation \in Nat, panelAt'.generation >= panelAt.generation,
           openedSession' # openedSession => panelAt'.generation > panelAt.generation
    PROVE  PanelInv'
<1>1. /\ DOMAIN panelAt' = {"generation", "pendingRefresh", "timer", "disposed"}
      /\ panelAt'.timer = TRUE /\ panelAt'.disposed = panelAt.disposed
    BY DEF PanelInv, PanelTypes
<1>2. PanelTypes'
    BY <1>1 DEF PanelInv, PanelTypes, RootOf
<1>3. Awaited'
    BY <1>1 DEF Awaited
<1>4. FetchIsOfTheOpen'
    <2>1. panelAt'.generation # panelAt.generation => fetch.mine # panelAt'.generation
        BY DEF PanelInv, PanelTypes
    <2> QED
        BY <1>1, <1>3, <2>1 DEF PanelInv, PanelTypes, FetchIsOfTheOpen
<1>5. RootIsFound'
    BY <1>1 DEF PanelInv, PanelTypes, RootIsFound, Mine, RootOf
<1>6. RevisionIsRead'
    BY <1>3 DEF RevisionIsRead
<1>7. AtRestItIsCurrent'
    BY <1>1 DEF AtRestItIsCurrent
<1> QED
    BY <1>2, <1>4, <1>5, <1>6, <1>7 DEF PanelInv, OnlyTheOpenIsPutUp

\* When a load ends, the timer is set if something was asked for meanwhile.
LEMMA FetchEnds ==
    ASSUME PanelInv, EndFetch, UNCHANGED <<saved, openedSession>>, OnlyTheOpenIsPutUp',
           ~ panelAt.disposed /\ ~ Awaited /\ ~ snapshot.failed' =>
             /\ snapshot'.session = openedSession
             /\ snapshot'.root = RootOf(openedSession)
             /\ snapshot'.revision = LastRevisionOf(openedSession)
    PROVE  PanelInv'
<1>1. /\ fetch' = NoFetch /\ fetch'.at = "none" /\ fetch'.session = NoSession /\ fetch'.mine = 0
      /\ DOMAIN fetch' = {"at", "session", "mine", "root", "revision", "failed"}
    BY DEF EndFetch, NoFetch
<1>2. /\ DOMAIN panelAt' = {"generation", "pendingRefresh", "timer", "disposed"}
      /\ panelAt'.generation = panelAt.generation /\ panelAt'.disposed = panelAt.disposed
      /\ ~ panelAt.disposed => panelAt'.timer = Awaited
    BY DEF EndFetch, Resume, PanelInv, PanelTypes, Awaited
<1>3. PanelTypes'
    BY <1>1, <1>2 DEF PanelInv, PanelTypes, RootOf
<1>4. FetchIsOfTheOpen' /\ RootIsFound' /\ RevisionIsRead'
    BY <1>1 DEF FetchIsOfTheOpen, RootIsFound, RevisionIsRead
<1>5. AtRestItIsCurrent'
    BY <1>2 DEF AtRestItIsCurrent, LastRevisionOf, RootOf
<1> QED
    BY <1>3, <1>4, <1>5 DEF PanelInv

\* The timer starts a load of the session that is open, or marks that one is due.
LEMMA TimerFiresStep == PanelInv /\ TimerFires => PanelInv'
<1> SUFFICES ASSUME PanelInv, TimerFires PROVE PanelInv'
    OBVIOUS
<1>1. UNCHANGED <<saved, openedSession, activeRoot, snapshot>> /\ panelAt.timer /\ ~ panelAt.disposed
    BY DEF TimerFires
<1>2. CASE fetch # NoFetch
    <2>1. fetch' = fetch /\ panelAt' = [panelAt EXCEPT !.timer = FALSE, !.pendingRefresh = TRUE]
        BY <1>2 DEF TimerFires
    <2>2. /\ DOMAIN panelAt' = {"generation", "pendingRefresh", "timer", "disposed"}
          /\ panelAt'.generation = panelAt.generation /\ panelAt'.disposed = panelAt.disposed
          /\ panelAt'.pendingRefresh = TRUE
        BY <2>1 DEF PanelInv, PanelTypes
    <2>3. PanelTypes'
        BY <1>1, <2>1, <2>2 DEF PanelInv, PanelTypes, RootOf
    <2>4. FetchIsOfTheOpen' /\ RootIsFound' /\ RevisionIsRead'
        BY <1>1, <2>1, <2>2 DEF PanelInv, FetchIsOfTheOpen, RootIsFound, RevisionIsRead, Awaited, Mine, RootOf
    <2> QED
        BY <1>1, <1>2, <2>1, <2>3, <2>4 DEF PanelInv, OnlyTheOpenIsPutUp, AtRestItIsCurrent
<1>3. CASE fetch = NoFetch
    <2> DEFINE g == panelAt.generation + 1
    <2>1. /\ fetch' = [NoFetch EXCEPT !.at = "resolve", !.session = openedSession, !.root = openedSession, !.mine = g]
          /\ panelAt' = [panelAt EXCEPT !.timer = FALSE, !.generation = g]
        BY <1>3 DEF TimerFires, PanelInv, PanelTypes
    <2>2. g \in Nat
        BY DEF PanelInv, PanelTypes
    <2> HIDE DEF g
    <2>3. /\ DOMAIN panelAt' = {"generation", "pendingRefresh", "timer", "disposed"}
          /\ panelAt'.generation = g /\ panelAt'.disposed = panelAt.disposed
        BY <2>1 DEF PanelInv, PanelTypes
    <2>4. /\ DOMAIN fetch' = {"at", "session", "mine", "root", "revision", "failed"}
          /\ fetch'.at = "resolve" /\ fetch'.session = openedSession /\ fetch'.root = openedSession /\ fetch'.mine = g
        BY <2>1 DEF NoFetch
    <2>5. PanelTypes'
        BY <1>1, <2>2, <2>3, <2>4 DEF PanelInv, PanelTypes, RootOf
    <2>6. FetchIsOfTheOpen' /\ RootIsFound' /\ RevisionIsRead'
        BY <1>1, <2>3, <2>4 DEF FetchIsOfTheOpen, RootIsFound, RevisionIsRead
    <2>7. fetch' # NoFetch
        BY <2>4 DEF NoFetch
    <2> QED
        BY <1>1, <2>5, <2>6, <2>7 DEF PanelInv, OnlyTheOpenIsPutUp, AtRestItIsCurrent
<1> QED
    BY <1>2, <1>3

\* A load that goes on.
LEMMA FetchGoesOn ==
    ASSUME PanelInv, UNCHANGED <<saved, openedSession, panelAt, snapshot>>, fetch.at # "none",
           DOMAIN fetch' = DOMAIN fetch, fetch'.at \in {"resolve", "read", "surroundings"},
           fetch'.session = fetch.session, fetch'.mine = fetch.mine,
           fetch'.at = "resolve" /\ fetch.session # NoSession =>
             fetch'.root \in HostSession /\ RootOf(fetch'.root) = RootOf(fetch.session),
           RootIsFound', RevisionIsRead'
    PROVE  PanelInv'
<1>1. PanelTypes'
    BY DEF PanelInv, PanelTypes, RootOf
<1>2. FetchIsOfTheOpen'
    BY DEF PanelInv, FetchIsOfTheOpen, Awaited
<1>3. fetch' # NoFetch
    BY DEF NoFetch
<1> QED
    BY <1>1, <1>2, <1>3 DEF PanelInv, OnlyTheOpenIsPutUp, AtRestItIsCurrent

\* A load that has been given up was followed by a request.
LEMMA GivenUpIsAwaited ==
    ASSUME PanelInv, fetch.at # "none", ~ StillMine, ~ panelAt.disposed
    PROVE  Awaited
BY DEF PanelInv, PanelTypes, FetchIsOfTheOpen, StillMine

\* Asking the host for a parent goes up to the root, ...
LEMMA ResolveParentStep ==
    ASSUME PanelInv, NEW ok \in BOOLEAN, ResolveParent(ok)
    PROVE  PanelInv'
<1>1. /\ UNCHANGED <<saved, openedSession, snapshot>>
      /\ fetch.at = "resolve" /\ fetch.session \in HostSession
      /\ fetch.root \in HostSession /\ RootOf(fetch.root) = RootOf(fetch.session)
    BY DEF ResolveParent, PanelInv, PanelTypes
<1>2. CASE ok /\ ParentOf[fetch.root] # NoSession
    <2>1. fetch' = [fetch EXCEPT !.root = ParentOf[fetch.root]] /\ UNCHANGED <<activeRoot, panelAt>>
        BY <1>2 DEF ResolveParent
    <2>2. /\ DOMAIN fetch' = DOMAIN fetch /\ fetch'.at = "resolve" /\ fetch'.session = fetch.session
          /\ fetch'.mine = fetch.mine /\ fetch'.root = ParentOf[fetch.root]
        BY <1>1, <2>1 DEF PanelInv, PanelTypes
    <2>3. fetch'.root \in HostSession /\ RootOf(fetch'.root) = RootOf(fetch.session)
        BY <1>1, <1>2, <2>2, RootsAreRoots
    <2>4. RootIsFound' /\ RevisionIsRead'
        BY <2>2 DEF RootIsFound, RevisionIsRead
    <2> QED
        BY <1>1, <2>1, <2>2, <2>3, <2>4, FetchGoesOn
<1>3. CASE ~ (ok /\ ParentOf[fetch.root] # NoSession)
    <2>1. activeRoot' = IF ok THEN fetch.root ELSE NoSession
        BY <1>3 DEF ResolveParent
    <2>2. CASE StillMine
        <3>1. fetch' = [fetch EXCEPT !.at = "read", !.failed = ~ ok] /\ UNCHANGED panelAt
            BY <1>3, <2>2 DEF ResolveParent
        <3>2. /\ DOMAIN fetch' = DOMAIN fetch /\ fetch'.at = "read" /\ fetch'.session = fetch.session
              /\ fetch'.mine = fetch.mine /\ fetch'.failed = ~ ok
            BY <1>1, <3>1 DEF PanelInv, PanelTypes
        <3>3. ok => activeRoot' = RootOf(fetch.session)
            BY <1>1, <1>3, <2>1, RootsAreRoots
        <3>4. RootIsFound' /\ RevisionIsRead'
            BY <3>2, <3>3 DEF RootIsFound, RevisionIsRead, RootOf
        <3> QED
            BY <1>1, <3>1, <3>2, <3>4, FetchGoesOn
    <2>3. CASE ~ StillMine
        <3>1. EndFetch
            BY <1>3, <2>3 DEF ResolveParent
        <3>2. ~ panelAt.disposed => Awaited
            BY <1>1, <2>3, GivenUpIsAwaited
        <3> QED
            BY <1>1, <3>1, <3>2, FetchEnds DEF PanelInv, OnlyTheOpenIsPutUp
    <2> QED
        BY <2>2, <2>3
<1> QED
    BY <1>2, <1>3

\* ... which is none where no session is open.
LEMMA ResolveNoneStep == PanelInv /\ ResolveNone => PanelInv'
<1> SUFFICES ASSUME PanelInv, ResolveNone PROVE PanelInv'
    OBVIOUS
<1>1. /\ UNCHANGED <<saved, openedSession, snapshot>>
      /\ fetch.at = "resolve" /\ fetch.session = NoSession /\ activeRoot' = NoSession
    BY DEF ResolveNone
<1>2. CASE StillMine
    <2>1. fetch' = [fetch EXCEPT !.at = "read"] /\ UNCHANGED panelAt
        BY <1>2 DEF ResolveNone
    <2>2. /\ DOMAIN fetch' = DOMAIN fetch /\ fetch'.at = "read" /\ fetch'.session = fetch.session
          /\ fetch'.mine = fetch.mine
        BY <1>1, <2>1 DEF PanelInv, PanelTypes
    <2>3. RootIsFound' /\ RevisionIsRead'
        BY <1>1, <2>2 DEF RootIsFound, RevisionIsRead, RootOf
    <2> QED
        BY <1>1, <2>1, <2>2, <2>3, FetchGoesOn
<1>3. CASE ~ StillMine
    <2>1. EndFetch
        BY <1>3 DEF ResolveNone
    <2>2. ~ panelAt.disposed => Awaited
        BY <1>1, <1>3, GivenUpIsAwaited
    <2> QED
        BY <1>1, <2>1, <2>2, FetchEnds DEF PanelInv, OnlyTheOpenIsPutUp
<1> QED
    BY <1>2, <1>3

\* What is read is the last that was saved.
LEMMA ReadSessionStep == PanelInv /\ ReadSession => PanelInv'
<1> SUFFICES ASSUME PanelInv, ReadSession PROVE PanelInv'
    OBVIOUS
<1>1. UNCHANGED <<saved, openedSession, activeRoot, snapshot>> /\ fetch.at = "read"
    BY DEF ReadSession
<1>2. CASE StillMine
    <2> DEFINE last == IF activeRoot = NoSession THEN 0 ELSE saved[activeRoot]
    <2>1. fetch' = [fetch EXCEPT !.at = "surroundings", !.revision = last] /\ UNCHANGED panelAt
        BY <1>2 DEF ReadSession
    <2>2. /\ DOMAIN fetch' = DOMAIN fetch /\ fetch'.at = "surroundings" /\ fetch'.session = fetch.session
          /\ fetch'.mine = fetch.mine /\ fetch'.failed = fetch.failed /\ fetch'.revision = last
        BY <1>1, <2>1 DEF PanelInv, PanelTypes
    <2>3. ~ fetch.failed => activeRoot = RootOf(fetch.session)
        BY <1>1, <1>2 DEF PanelInv, RootIsFound, StillMine, Mine
    <2>4. ~ fetch.failed => last = LastRevisionOf(fetch.session)
        BY <2>3, RootsAreRoots DEF LastRevisionOf, PanelInv, PanelTypes
    <2>5. RootIsFound' /\ RevisionIsRead'
        BY <1>1, <2>1, <2>2, <2>3, <2>4 DEF RootIsFound, RevisionIsRead, RootOf, LastRevisionOf
    <2> QED
        BY <1>1, <2>1, <2>2, <2>5, FetchGoesOn
<1>3. CASE ~ StillMine
    <2>1. EndFetch
        BY <1>3 DEF ReadSession
    <2>2. ~ panelAt.disposed => Awaited
        BY <1>1, <1>3, GivenUpIsAwaited
    <2> QED
        BY <1>1, <2>1, <2>2, FetchEnds DEF PanelInv, OnlyTheOpenIsPutUp
<1> QED
    BY <1>2, <1>3

\* What is put up is of the session that is open.
LEMMA UpdateStep == PanelInv /\ Update => PanelInv'
<1> SUFFICES ASSUME PanelInv, Update PROVE PanelInv'
    OBVIOUS
<1>1. UNCHANGED <<saved, openedSession, activeRoot>> /\ fetch.at = "surroundings" /\ EndFetch
    BY DEF Update
<1>2. CASE StillMine
    <2>1. fetch.session = openedSession
        BY <1>1, <1>2 DEF PanelInv, FetchIsOfTheOpen, StillMine
    <2>2. snapshot' = [session |-> fetch.session, root |-> activeRoot, revision |-> fetch.revision,
                       failed |-> fetch.failed, putUpFor |-> openedSession]
        BY <1>2 DEF Update
    <2>3. OnlyTheOpenIsPutUp'
        BY <2>1, <2>2 DEF OnlyTheOpenIsPutUp
    <2>4. ~ fetch.failed => activeRoot = RootOf(fetch.session)
        BY <1>1, <1>2 DEF PanelInv, RootIsFound, StillMine, Mine
    <2>5. ~ fetch.failed /\ ~ Awaited => fetch.revision = LastRevisionOf(fetch.session)
        BY <1>1, <1>2 DEF PanelInv, RevisionIsRead, StillMine, Mine
    <2> QED
        BY <1>1, <2>1, <2>2, <2>3, <2>4, <2>5, FetchEnds
<1>3. CASE ~ StillMine
    <2>1. UNCHANGED snapshot
        BY <1>3 DEF Update
    <2>2. ~ panelAt.disposed => Awaited
        BY <1>1, <1>3, GivenUpIsAwaited
    <2> QED
        BY <1>1, <2>1, <2>2, FetchEnds DEF PanelInv, OnlyTheOpenIsPutUp
<1> QED
    BY <1>2, <1>3

\* After dispose nothing counts.
LEMMA DisposePanelStep == PanelInv /\ DisposePanel => PanelInv'
<1> SUFFICES ASSUME PanelInv, DisposePanel PROVE PanelInv'
    OBVIOUS
<1>1. /\ UNCHANGED <<saved, openedSession, fetch, activeRoot, snapshot>>
      /\ DOMAIN panelAt' = {"generation", "pendingRefresh", "timer", "disposed"}
      /\ panelAt'.generation = panelAt.generation + 1 /\ panelAt'.disposed = TRUE
    BY DEF DisposePanel, PanelInv, PanelTypes
<1>2. PanelTypes'
    BY <1>1 DEF PanelInv, PanelTypes, RootOf
<1> QED
    BY <1>1, <1>2 DEF PanelInv, FetchIsOfTheOpen, RootIsFound, RevisionIsRead, Mine,
                      OnlyTheOpenIsPutUp, AtRestItIsCurrent

\* Every step of the panel keeps the invariant.
LEMMA PanelInvStep == PanelInv /\ [PanelNext]_panelVars => PanelInv'
<1> SUFFICES ASSUME PanelInv, [PanelNext]_panelVars PROVE PanelInv'
    OBVIOUS
<1>1. CASE \E s \in HostSession \union {NoSession} : SetSession(s)
    <2> PICK s \in HostSession \union {NoSession} : SetSession(s)
        BY <1>1
    <2>1. /\ DOMAIN panelAt' = DOMAIN panelAt /\ panelAt'.disposed = panelAt.disposed /\ panelAt'.timer = TRUE
          /\ panelAt'.generation = panelAt.generation + 1
        BY DEF SetSession, Schedule, PanelInv, PanelTypes
    <2>2. /\ panelAt'.generation \in Nat /\ panelAt'.generation > panelAt.generation
          /\ panelAt'.generation >= panelAt.generation
        BY <2>1 DEF PanelInv, PanelTypes
    <2>3. /\ UNCHANGED <<fetch, activeRoot, snapshot>> /\ ~ panelAt.disposed
          /\ saved' = [r \in HostSession |-> saved'[r]] /\ openedSession' \in HostSession \union {NoSession}
        BY DEF SetSession, PanelInv, PanelTypes
    <2> QED
        BY <2>1, <2>2, <2>3, AskingStep
<1>2. CASE \E s \in HostSession : Save(s)
    <2> PICK s \in HostSession : Save(s)
        BY <1>2
    <2>1. /\ DOMAIN panelAt' = DOMAIN panelAt /\ panelAt'.disposed = panelAt.disposed /\ panelAt'.timer = TRUE
          /\ panelAt'.generation = panelAt.generation
        BY DEF Save, Schedule, PanelInv, PanelTypes
    <2>2. panelAt'.generation \in Nat /\ panelAt'.generation >= panelAt.generation
        BY <2>1 DEF PanelInv, PanelTypes
    <2>3. /\ UNCHANGED <<openedSession, fetch, activeRoot, snapshot>> /\ ~ panelAt.disposed
          /\ saved' = [r \in HostSession |-> saved'[r]] /\ openedSession' \in HostSession \union {NoSession}
        BY DEF Save, PanelInv, PanelTypes
    <2> QED
        BY <2>1, <2>2, <2>3, AskingStep
<1>3. CASE Poll
    <2>1. /\ DOMAIN panelAt' = DOMAIN panelAt /\ panelAt'.disposed = panelAt.disposed /\ panelAt'.timer = TRUE
          /\ panelAt'.generation = panelAt.generation
        BY <1>3 DEF Poll, Schedule, PanelInv, PanelTypes
    <2>2. panelAt'.generation \in Nat /\ panelAt'.generation >= panelAt.generation
        BY <2>1 DEF PanelInv, PanelTypes
    <2>3. /\ UNCHANGED <<openedSession, fetch, activeRoot, snapshot>> /\ ~ panelAt.disposed
          /\ saved' = [r \in HostSession |-> saved'[r]] /\ openedSession' \in HostSession \union {NoSession}
        BY <1>3 DEF Poll, PanelInv, PanelTypes
    <2> QED
        BY <2>1, <2>2, <2>3, AskingStep
<1>4. CASE ResolveParent(TRUE) \/ ResolveParent(FALSE)
    BY <1>4, ResolveParentStep
<1>5. CASE TimerFires \/ ResolveNone \/ ReadSession \/ Update \/ DisposePanel
    BY <1>5, TimerFiresStep, ResolveNoneStep, ReadSessionStep, UpdateStep, DisposePanelStep
<1>6. CASE UNCHANGED panelVars
    BY <1>6 DEF panelVars, PanelInv, PanelTypes, FetchIsOfTheOpen, RootIsFound, RevisionIsRead, Mine, Awaited,
                LastRevisionOf, RootOf, OnlyTheOpenIsPutUp, AtRestItIsCurrent
<1> QED
    BY <1>1, <1>2, <1>3, <1>4, <1>5, <1>6 DEF PanelNext

-----------------------------------------------------------------------------
(* Both panels.                                                            *)

(* Both panels show the session that is open, in its last state, and name  *)
(* its rules apart, whatever loads of either overlap, fail or come late.   *)
THEOREM PanelsAlwaysShowTheOpen ==
    ASSUME NoStemIsAFileName
    PROVE  PanelsSpec => []PanelsShowTheOpen
<1> DEFINE Inv == SidebarInv /\ PanelInv
<1>1. PanelsInit => Inv
    BY SidebarInvInit, PanelInvInit DEF PanelsInit
<1>2. Inv /\ [PanelsNext]_<<sidebarVars, panelVars>> => Inv'
    <2> SUFFICES ASSUME Inv, [PanelsNext]_<<sidebarVars, panelVars>> PROVE Inv'
        OBVIOUS
    <2>1. [SidebarNext]_sidebarVars /\ [PanelNext]_panelVars
        BY DEF PanelsNext
    <2> QED
        BY <2>1, SidebarInvStep, PanelInvStep
<1>3. Inv => PanelsShowTheOpen
    BY DEF SidebarInv, PanelInv, PanelsShowTheOpen
<1> QED
    BY <1>1, <1>2, <1>3, PTL DEF PanelsSpec
=============================================================================
