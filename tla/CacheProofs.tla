----------------------------- MODULE CacheProofs -----------------------------
(***************************************************************************)
(* Theorems about Cache, for any files, contents, tasks, sessions, edits,  *)
(* commits and checkouts, with crashes, git failures, failing tasks and    *)
(* edits under a running session.                                          *)
(***************************************************************************)
EXTENDS Cache, TLAPS

USE DEF repoVars, sessionVars, historyVars

-----------------------------------------------------------------------------
(* Types *)

LEMMA SnapshotType == TypeOK => Snapshot \in Snapshots
<1> SUFFICES ASSUME TypeOK PROVE Snapshot \in Snapshots
  OBVIOUS
<1>1. head \in 1..MaxCommits
  BY CacheAssumption DEF TypeOK
<1>2. NewFiles \subseteq Files /\ ModifiedFiles \subseteq Files
  BY DEF NewFiles, ModifiedFiles, Tracked
<1>3. \A f \in Files : HashSum(f) \in 0..MaxEdits + 1
  BY CacheAssumption DEF TypeOK, HashSum
<1>4. QED BY <1>1, <1>2, <1>3 DEF Snapshot, Snapshots

LEMMA LastOfSubset == \A S : LastOf(S) \subseteq S
  BY DEF LastOf

LEMMA DiffType == \A s \in Snapshots : Diff(s) \subseteq Files
<1> SUFFICES ASSUME NEW s \in Snapshots PROVE Diff(s) \subseteq Files
  OBVIOUS
<1>1. GitDiff(s.commitSha) \subseteq Files
  BY DEF GitDiff
<1>2. /\ PreviousHits(s) \subseteq Files
      /\ CurrentHits(s) \subseteq Files
  BY DEF PreviousHits, CurrentHits, Uncommitted, NewFiles, Snapshots
<1>3. Appended(s) \subseteq Files
  BY <1>2, LastOfSubset DEF Appended
<1>4. QED BY <1>1, <1>3 DEF Diff

LEMMA InitType == Init => TypeOK
<1> SUFFICES ASSUME Init PROVE TypeOK
  OBVIOUS
<1> USE CacheAssumption DEF Trees
<1>1. PICK tree \in Trees : commits = <<tree>>
  BY DEF Init
<1>2. commits \in Seq(Trees) /\ Len(commits) = 1 /\ commits[1] \in Trees
  BY <1>1
<1>3. head \in 1..Len(commits) /\ Len(commits) <= MaxCommits
  BY <1>2 DEF Init
<1>4. mtime \in [Files -> 1..MaxEdits + 1] /\ clock \in 1..MaxEdits + 1
  BY DEF Init
<1>5. QED BY <1>2, <1>3, <1>4 DEF Init, TypeOK

LEMMA NextType == TypeOK /\ [Next]_vars => TypeOK'
<1> SUFFICES ASSUME TypeOK, [Next]_vars PROVE TypeOK'
  OBVIOUS
<1> USE CacheAssumption DEF TypeOK
<1>1. ASSUME NEW tasks \in Sessions, Start(tasks) PROVE TypeOK'
  <2>1. dirtyFiles' \subseteq Files
    BY <1>1, DiffType DEF Start
  <2>2. allDirty' \in BOOLEAN
    BY <1>1 DEF Start
  <2>3. QED BY <1>1, <2>1, <2>2 DEF Start, Truncated
<1>2. ASSUME NEW t \in Tasks, Skip(t) PROVE TypeOK'
  BY <1>2 DEF Skip
<1>3. ASSUME NEW t \in Tasks, Run(t) PROVE TypeOK'
  <2>1. On(t, work) \in Contents(t)
    BY DEF On, Trees, Contents
  <2>2. UNCHANGED built \/ built' = [built EXCEPT ![t] = On(t, work)]
    BY <1>3 DEF Run
  <2>3. /\ built' \in [Tasks -> (UNION {Contents(u) : u \in Tasks}) \cup {None}]
        /\ \A u \in Tasks : built'[u] \in Contents(u) \cup {None}
    BY <2>1, <2>2
  <2>4. QED BY <1>3, <2>3 DEF Run
<1>4. CASE Finish
  <2>1. Snapshot.commitSha \in DOMAIN commits
    BY DEF Snapshot
  <2>2. QED BY <1>4, <2>1, SnapshotType DEF Finish
<1>5. CASE Crash
  BY <1>5 DEF Crash
<1>6. ASSUME NEW f \in Files, NEW d \in Data \cup {Absent}, Edit(f, d) PROVE TypeOK'
  <2>1. clock' \in 1..MaxEdits + 1 /\ clock + 1 \in 1..MaxEdits + 1
    BY <1>6 DEF Edit
  <2>2. QED BY <1>6, <2>1 DEF Edit, Trees
<1>7. CASE Commit
  <2>1. commits' \in Seq(Trees) /\ Len(commits') = Len(commits) + 1
    BY <1>7 DEF Commit
  <2>2. cacheFile' # None => cacheFile'.commitSha \in DOMAIN commits'
    BY <1>7, <2>1 DEF Commit
  <2>3. QED BY <1>7, <2>1, <2>2 DEF Commit
<1>8. ASSUME NEW i \in 1..Len(commits), Checkout(i) PROVE TypeOK'
  <2>1. clock' \in 1..MaxEdits + 1 /\ clock + 1 \in 1..MaxEdits + 1
    BY <1>8 DEF Checkout
  <2>2. commits[i] \in Trees
    OBVIOUS
  <2>3. QED BY <1>8, <2>1, <2>2 DEF Checkout
<1>9. CASE UNCHANGED vars
  BY <1>9 DEF vars
<1>10. QED BY <1>1, <1>2, <1>3, <1>4, <1>5, <1>6, <1>7, <1>8, <1>9 DEF Next

\* Every variable keeps its type; what the snapshot names as its commit is one.
THEOREM TypeCorrect == Spec => []TypeOK
<1>1. QED BY InitType, NextType, PTL DEF Spec

-----------------------------------------------------------------------------
(* What a diff can know *)

\* A snapshot on disk is that of the session before, which ended since: the files it
\* does not list were those of its commit, and a file with the time of modification
\* it notes has not been written since.
SnapshotInv ==
  cacheFile # None =>
    /\ ~ running
    /\ \A f \in Files \ Uncommitted(cacheFile) : seen[f] = commits[cacheFile.commitSha][f]
    /\ \A f \in Files :
         /\ cacheFile.md5[f] <= clock
         /\ cacheFile.md5[f] = 0 <=> seen[f] = Absent
         /\ cacheFile.md5[f] = mtime[f] => work[f] = seen[f]

\* No file was written later than now.
ClockInv == \A f \in Files : mtime[f] <= clock

LEMMA SnapshotStep ==
  ASSUME TypeOK, ClockInv, SnapshotInv, [Next]_vars
  PROVE  ClockInv' /\ SnapshotInv'
<1> USE CacheAssumption DEF TypeOK, ClockInv
<1>1. ASSUME NEW tasks \in Sessions, Start(tasks) PROVE ClockInv' /\ SnapshotInv'
  BY <1>1 DEF Start, Truncated, SnapshotInv
<1>2. ASSUME NEW t \in Tasks, Skip(t) \/ Run(t) PROVE ClockInv' /\ SnapshotInv'
  BY <1>2 DEF Skip, Run, SnapshotInv, Uncommitted
<1>3. CASE Finish
  <2>1. CASE UNCHANGED <<cacheFile, historyVars>>
    BY <1>3, <2>1 DEF Finish, SnapshotInv, Uncommitted
  <2>2. CASE cacheFile' = Snapshot /\ seen' = work
    <3>1. \A f \in Files \ Uncommitted(Snapshot) : work[f] = commits[head][f]
      BY DEF Uncommitted, Snapshot, NewFiles, ModifiedFiles, Tracked
    <3>2. \A f \in Files : Snapshot.md5[f] = HashSum(f)
      BY DEF Snapshot
    <3>3. ASSUME NEW f \in Files
          PROVE  /\ HashSum(f) <= clock
                 /\ HashSum(f) = 0 <=> work[f] = Absent
      <4>1. mtime[f] \in 1..MaxEdits + 1 /\ clock \in 1..MaxEdits + 1 /\ mtime[f] <= clock
        OBVIOUS
      <4>2. QED BY <4>1 DEF HashSum
    <3>4. Snapshot.commitSha = head
      BY DEF Snapshot
    <3>5. UNCHANGED <<repoVars>> /\ ~ running'
      BY <1>3 DEF Finish
    <3>6. QED BY <2>2, <3>1, <3>2, <3>3, <3>4, <3>5 DEF SnapshotInv, Uncommitted
  <2>3. QED BY <1>3, <2>1, <2>2 DEF Finish
<1>4. CASE Crash
  BY <1>4 DEF Crash, SnapshotInv, Uncommitted
<1>5. ASSUME NEW f \in Files, NEW d \in Data \cup {Absent}, Edit(f, d)
      PROVE  ClockInv' /\ SnapshotInv'
  <2>1. /\ clock' = clock + 1 /\ mtime' = [mtime EXCEPT ![f] = clock + 1]
        /\ work' = [work EXCEPT ![f] = d]
        /\ UNCHANGED <<commits, cacheFile, seen, running>>
    BY <1>5 DEF Edit
  <2>2. clock \in Nat /\ \A g \in Files : mtime[g] \in Nat
    OBVIOUS
  <2>3. ClockInv'
    BY <2>1, <2>2
  <2>4. SnapshotInv'
    <3>1. SUFFICES ASSUME cacheFile # None, NEW g \in Files
                   PROVE  /\ cacheFile.md5[g] <= clock'
                          /\ cacheFile.md5[g] = mtime'[g] => work'[g] = seen[g]
      BY <2>1 DEF SnapshotInv, Uncommitted
    <3>2. cacheFile.md5[g] \in Nat /\ cacheFile.md5[g] <= clock
      BY <3>1 DEF SnapshotInv, Snapshots
    <3>3. CASE g = f
      BY <2>1, <2>2, <3>2, <3>3
    <3>4. CASE g # f
      BY <2>1, <2>2, <3>1, <3>2, <3>4 DEF SnapshotInv, Trees
    <3>5. QED BY <3>3, <3>4
  <2>5. QED BY <2>3, <2>4
<1>6. CASE Commit
  <2>1. \A i \in DOMAIN commits : commits'[i] = commits[i]
    BY <1>6 DEF Commit
  <2>2. UNCHANGED <<work, mtime, clock, seen, cacheFile, running>>
    BY <1>6 DEF Commit
  <2>3. QED BY <2>1, <2>2 DEF SnapshotInv, Uncommitted
<1>7. ASSUME NEW i \in 1..Len(commits), Checkout(i) PROVE ClockInv' /\ SnapshotInv'
  <2>1. /\ clock' = clock + 1
        /\ mtime' = [f \in Files |-> IF work'[f] = work[f] THEN mtime[f] ELSE clock + 1]
        /\ UNCHANGED <<commits, cacheFile, seen, running>>
    BY <1>7 DEF Checkout
  <2>2. clock \in Nat /\ \A g \in Files : mtime[g] \in Nat
    OBVIOUS
  <2>3. ClockInv'
    BY <2>1, <2>2
  <2>4. SnapshotInv'
    <3>1. SUFFICES ASSUME cacheFile # None, NEW g \in Files
                   PROVE  /\ cacheFile.md5[g] <= clock'
                          /\ cacheFile.md5[g] = mtime'[g] => work'[g] = seen[g]
      BY <2>1 DEF SnapshotInv, Uncommitted
    <3>2. cacheFile.md5[g] \in Nat /\ cacheFile.md5[g] <= clock
      BY <3>1 DEF SnapshotInv, Snapshots
    <3>3. CASE work'[g] = work[g]
      BY <2>1, <2>2, <3>1, <3>2, <3>3 DEF SnapshotInv
    <3>4. CASE work'[g] # work[g]
      BY <2>1, <2>2, <3>2, <3>4
    <3>5. QED BY <3>3, <3>4
  <2>5. QED BY <2>3, <2>4
<1>8. CASE UNCHANGED vars
  BY <1>8 DEF vars, SnapshotInv, Uncommitted
<1>9. QED BY <1>1, <1>2, <1>3, <1>4, <1>5, <1>6, <1>7, <1>8 DEF Next

CacheInv == TypeOK /\ ClockInv /\ SnapshotInv

LEMMA InitCache == Init => CacheInv
<1> SUFFICES ASSUME Init PROVE ClockInv /\ SnapshotInv
  BY InitType DEF CacheInv
<1>1. QED BY DEF Init, ClockInv, SnapshotInv

LEMMA CacheStep == CacheInv /\ [Next]_vars => CacheInv'
  BY NextType, SnapshotStep DEF CacheInv

\* A session that begins with a diff has made it from the snapshot.
LEMMA DiffedBySnapshot ==
  ASSUME Next, ~ running, running', ~ allDirty'
  PROVE  /\ cacheFile # None
         /\ dirtyFiles' = Diff(cacheFile)
         /\ seen' = work /\ UNCHANGED <<built, covered>>
<1>1. PICK tasks \in Sessions : Start(tasks)
  BY DEF Next, Skip, Run, Finish, Crash, Edit, Commit, Checkout
<1>2. QED BY <1>1 DEF Start

\* A file that git tracks, and tracked unmodified when the snapshot was written, is
\* dirty if it has changed since (snapshot.diff).
THEOREM TrackedAreDirty == Spec => TrackedChangesAreDirty
<1>1. CacheInv /\ [Next]_vars =>
        [Diffed((Changed \cap Tracked) \ Uncommitted(cacheFile) \subseteq dirtyFiles')]_vars
  <2> SUFFICES ASSUME CacheInv, Next, ~ running, running', ~ allDirty',
                      NEW f \in (Changed \cap Tracked) \ Uncommitted(cacheFile)
               PROVE  f \in dirtyFiles'
    BY DEF Diffed
  <2>1. cacheFile # None /\ dirtyFiles' = Diff(cacheFile)
    BY DiffedBySnapshot
  <2>2. f \in Files /\ work[f] # seen[f] /\ seen[f] = commits[cacheFile.commitSha][f]
    BY <2>1 DEF Changed, CacheInv, SnapshotInv
  <2>3. f \in GitDiff(cacheFile.commitSha)
    BY <2>2 DEF GitDiff
  <2>4. QED BY <2>1, <2>3 DEF Diff
<1>2. QED BY InitCache, CacheStep, <1>1, PTL DEF Spec, TrackedChangesAreDirty

-----------------------------------------------------------------------------
(* A diff is not empty when something has changed *)

\* The order of UncommittedFiles has a last one in every set of files.
LEMMA LastOfSome ==
  ASSUME NEW S \in SUBSET Files, S # {}
  PROVE  LastOf(S) # {}
<1>1. PICK m \in S : \A g \in S : g <= m
  BY CacheAssumption
<1>2. QED BY <1>1 DEF LastOf

\* Whatever a diff loses of several changed files, it keeps one.
LEMMA DiffFindsSome ==
  ASSUME CacheInv, cacheFile # None, Changed # {}
  PROVE  Diff(cacheFile) # {}
<1> DEFINE s == cacheFile
<1>1. /\ PreviousHits(s) \subseteq Files
      /\ CurrentHits(s) \subseteq Files
  BY DEF PreviousHits, CurrentHits, Uncommitted, NewFiles, Snapshots, CacheInv, TypeOK
<1>2. CASE CurrentHits(s) # {}
  BY <1>1, <1>2, LastOfSome DEF Diff, Appended
<1>3. CASE CurrentHits(s) = {} /\ PreviousHits(s) # {}
  BY <1>1, <1>3, LastOfSome DEF Diff, Appended
<1>4. CASE PreviousHits(s) = {} /\ CurrentHits(s) = {}
  <2>1. PICK f \in Files : work[f] # seen[f]
    BY DEF Changed
  <2>2. f \notin Uncommitted(s)
    <3>1. SUFFICES ASSUME f \in Uncommitted(s) PROVE FALSE
      OBVIOUS
    <3>2. HashSum(f) = s.md5[f]
      BY <1>4, <3>1 DEF PreviousHits
    <3>3. mtime[f] # 0
      BY <2>1 DEF CacheInv, TypeOK
    <3>4. QED BY <2>1, <3>2, <3>3 DEF HashSum, CacheInv, SnapshotInv
  <2>3. seen[f] = commits[s.commitSha][f]
    BY <2>2 DEF CacheInv, SnapshotInv
  <2>4. f \in GitDiff(s.commitSha)
    <3>1. CASE f \in Tracked
      BY <2>1, <2>3, <3>1 DEF GitDiff
    <3>2. CASE f \notin Tracked
      <4>1. f \notin NewFiles
        BY <1>4, <2>2 DEF CurrentHits
      <4>2. work[f] = Absent
        BY <2>1, <3>2, <4>1 DEF NewFiles
      <4>3. QED BY <2>1, <2>3, <3>2, <4>2 DEF GitDiff
    <3>3. QED BY <3>1, <3>2
  <2>5. QED BY <1>4, <2>2, <2>4 DEF Diff
<1>5. QED BY <1>2, <1>3, <1>4

\* When something has changed, the diff is not empty: a task that watches every file
\* is never skipped wrongly (snapshot.diff, which keeps only the last hit).
THEOREM NoDiffIsSilent == Spec => NoSilentDiff
<1>1. CacheInv /\ [Next]_vars => [Diffed(Changed # {} => dirtyFiles' # {})]_vars
  <2> SUFFICES ASSUME CacheInv, Next, ~ running, running', ~ allDirty', Changed # {}
               PROVE  dirtyFiles' # {}
    BY DEF Diffed
  <2>1. cacheFile # None /\ dirtyFiles' = Diff(cacheFile)
    BY DiffedBySnapshot
  <2>2. QED BY <2>1, DiffFindsSome
<1>2. QED BY InitCache, CacheStep, <1>1, PTL DEF Spec, NoSilentDiff

-----------------------------------------------------------------------------
(* What is skipped *)

\* Every task watches every file: with fewer, a change can be the one that the diff
\* loses (SkipsOnlyUnchanged is then false).
WatchesAll == \A t \in Tasks : Sources[t] = Files

\* What was up to date when the snapshot was written is up to date with respect to it,
\* and still is in a session that is going to skip it.
FreshInv ==
  \A t \in covered :
    /\ cacheFile # None => built[t] = On(t, seen)
    /\ running /\ IsFirstRun(t) /\ IsValid(t) => built[t] = On(t, seen)

LEMMA FreshStep ==
  ASSUME WatchesAll, CacheInv, FreshInv, [Next]_vars
  PROVE  FreshInv'
<1> USE DEF CacheInv, TypeOK, FreshInv
<1>1. ASSUME NEW tasks \in Sessions, Start(tasks) PROVE FreshInv'
  <2>1. /\ cacheFile' = None /\ seen' = work /\ UNCHANGED <<built, covered>>
        /\ ~ running /\ running'
    BY <1>1 DEF Start, Truncated
  <2>2. SUFFICES ASSUME NEW t \in covered, IsValid(t)' PROVE built[t] = On(t, work)
    BY <2>1 DEF On
  <2>3. ~ allDirty' /\ dirtyFiles' = {}
    <3>1. dirtyFiles' \subseteq Files /\ Sources[t] = Files
      BY <1>1, NextType DEF WatchesAll, Next
    <3>2. QED BY <2>2, <3>1 DEF IsValid
  <2>4. cacheFile # None /\ dirtyFiles' = Diff(cacheFile)
    BY <1>1, <2>3 DEF Start
  <2>5. Changed = {}
    BY <2>3, <2>4, DiffFindsSome
  <2>6. \A f \in Sources[t] : work[f] = seen[f]
    BY <2>5, CacheAssumption DEF Changed
  <2>7. QED BY <2>4, <2>6 DEF On
<1>2. ASSUME NEW u \in Tasks, Skip(u) \/ Run(u) PROVE FreshInv'
  <2>1. /\ running /\ cacheFile = None
        /\ ranOnce' = ranOnce \cup {u}
        /\ \A t \in Tasks \ {u} : built'[t] = built[t]
        /\ UNCHANGED <<running, cacheFile, allDirty, dirtyFiles, seen, covered>>
    BY <1>2 DEF Skip, Run, SnapshotInv
  <2>2. QED BY <2>1 DEF IsFirstRun, IsValid, On
<1>3. CASE Finish
  <2>1. ~ running' /\ running /\ UNCHANGED built
    BY <1>3 DEF Finish
  <2>2. CASE UNCHANGED <<cacheFile, historyVars>>
    BY <2>1, <2>2 DEF On
  <2>3. CASE seen' = work /\ covered' = {t \in Tasks : built[t] = On(t, work)}
    BY <2>1, <2>3 DEF On
  <2>4. QED BY <1>3, <2>2, <2>3 DEF Finish
<1>4. CASE Crash
  BY <1>4 DEF Crash, On
<1>5. CASE \/ \E f \in Files, d \in Data \cup {Absent} : Edit(f, d)
           \/ Commit
           \/ \E i \in 1..Len(commits) : Checkout(i)
           \/ UNCHANGED vars
  <2>1. UNCHANGED <<running, ranOnce, cacheFile, allDirty, dirtyFiles, built, seen, covered>>
    BY <1>5 DEF Edit, Commit, Checkout, vars
  <2>2. QED BY <2>1 DEF IsFirstRun, IsValid, On
<1>6. QED BY <1>1, <1>2, <1>3, <1>4, <1>5 DEF Next

\* Of the tasks that were up to date when the snapshot was written, a session skips
\* only those whose sources it found as their last successful run did (cache.maybeRun).
THEOREM SkipsAreFresh == ASSUME WatchesAll PROVE Spec => SkipIsFresh
<1> DEFINE I == CacheInv /\ FreshInv
<1>1. Init => I
  BY InitCache DEF Init, FreshInv
<1>2. I /\ [Next]_vars => I'
  BY CacheStep, FreshStep
<1>3. I => [\A t \in covered : Skip(t) => built[t] = On(t, seen)]_vars
  BY DEF FreshInv, Skip
<1>4. QED BY <1>1, <1>2, <1>3, PTL DEF Spec, SkipIsFresh
=============================================================================
