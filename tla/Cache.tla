------------------------------- MODULE Cache -------------------------------
(***************************************************************************)
(* The persistent cache (cache/): sessions of taskrunner over a git work   *)
(* tree.  A session diffs the tree against the snapshot of the session     *)
(* before, skips the first run of every task none of whose sources is      *)
(* dirty, and writes a snapshot when it stops.                             *)
(***************************************************************************)
EXTENDS Integers, Sequences, FiniteSets

CONSTANTS
  Files,            \* a finite set of numbers: git lists paths in order
  Data,             \* what a file can contain
  Tasks,            \* tasks under WrapWithPersistentCache
  Sources,          \* [Tasks -> SUBSET Files]
  Sessions,         \* the sets of tasks a session can be asked to run
  Faults,           \* what can go wrong in an instance
  MaxEdits,         \* edits and checkouts, which also are the clock (a bound)
  MaxCommits,       \* commits (a bound)
  Absent, None

ASSUME CacheAssumption ==
  /\ Files \subseteq Nat
  /\ \A S \in (SUBSET Files) \ {{}} : \E f \in S : \A g \in S : g <= f   \* finite
  /\ Absent \notin Data
  /\ Sources \in [Tasks -> SUBSET Files]
  /\ Sessions \subseteq SUBSET Tasks
  /\ Faults \subseteq {"crash", "git", "taskFails", "editsWhileRunning"}
  /\ MaxEdits \in Nat
  /\ MaxCommits \in Nat \ {0}

Trees == [Files -> Data \cup {Absent}]

VARIABLES
  commits,      \* the trees of the commits
  head,         \* the commit at HEAD
  work,         \* the work tree
  mtime,        \* when each of its files was written
  clock,
  cacheFile,    \* the snapshot on disk, None when empty or missing
  running,      \* a session is under way
  wanted,       \* the tasks it was asked to run
  allDirty, dirtyFiles, ranOnce,      \* the session's Cache
  failed,       \* a task of the session has failed
  built,        \* the sources each task last ran to success on, or None
  seen,         \* the work tree when the snapshot was written or the session
                \* began, whichever was last (history)
  covered       \* tasks that were up to date when it was written (history)

repoVars == <<commits, head, work, mtime, clock>>
sessionVars == <<running, wanted, allDirty, dirtyFiles, ranOnce, failed>>
historyVars == <<seen, covered>>
vars == <<repoVars, sessionVars, cacheFile, built, historyVars>>

Snapshots == [commitSha : 1..MaxCommits, new : SUBSET Files, modified : SUBSET Files,
              md5 : [Files -> 0..MaxEdits + 1]]

\* What the sources of t can hold.
Contents(t) == [Sources[t] -> Data \cup {Absent}]

TypeOK ==
  /\ commits \in Seq(Trees) /\ Len(commits) <= MaxCommits
  /\ head \in 1..Len(commits)
  /\ work \in Trees
  /\ mtime \in [Files -> 1..MaxEdits + 1]
  /\ clock \in 1..MaxEdits + 1
  /\ cacheFile \in Snapshots \cup {None}
  /\ cacheFile # None => cacheFile.commitSha \in DOMAIN commits
  /\ running \in BOOLEAN
  /\ wanted \in Sessions \cup {{}}
  /\ allDirty \in BOOLEAN
  /\ dirtyFiles \subseteq Files
  /\ ranOnce \subseteq wanted
  /\ failed \in BOOLEAN
  /\ built \in [Tasks -> (UNION {Contents(t) : t \in Tasks}) \cup {None}]
  /\ \A t \in Tasks : built[t] \in Contents(t) \cup {None}
  /\ seen \in Trees
  /\ covered \subseteq Tasks

Init ==
  /\ commits \in {<<tree>> : tree \in Trees}
  /\ head = 1
  /\ work = commits[1]
  /\ mtime = [f \in Files |-> 1]
  /\ clock = 1
  /\ cacheFile = None
  /\ running = FALSE
  /\ wanted = {}
  /\ allDirty = FALSE
  /\ dirtyFiles = {}
  /\ ranOnce = {}
  /\ failed = FALSE
  /\ built = [t \in Tasks |-> None]
  /\ seen = work
  /\ covered = {}

-----------------------------------------------------------------------------
(* git, as git.go runs it *)

Tracked == {f \in Files : commits[head][f] # Absent}

\* git status --porcelain: "??" lines, and the others.
NewFiles == {f \in Files \ Tracked : work[f] # Absent}
ModifiedFiles == {f \in Tracked : work[f] # commits[head][f]}

\* git diff --name-only <sha>: the tracked part of the work tree against sha.
\* (The empty name that splitting an empty answer yields matches no source.)
GitDiff(sha) ==
  {f \in Files : commits[sha][f] # (IF f \in Tracked THEN work[f] ELSE Absent)}

\* hashSum: of the name and the time of modification; 0 when there is no file.
HashSum(f) == IF work[f] = Absent THEN 0 ELSE mtime[f]

-----------------------------------------------------------------------------
(* snapshot.go *)

Snapshot_Next ==
  [commitSha |-> head + 1, new |-> NewFiles, modified |-> ModifiedFiles,
   md5 |-> [f \in Files |-> HashSum(f)]]
Snapshot ==
  [commitSha |-> head, new |-> NewFiles, modified |-> ModifiedFiles,
   md5 |-> [f \in Files |-> HashSum(f)]]

Uncommitted(s) == s.new \cup s.modified

\* The two loops find what they look for in the order of UncommittedFiles.
LastOf(S) == {f \in S : \A g \in S : g <= f}

\* The files that each of the two loops finds modified.
PreviousHits(s) == {f \in Uncommitted(s) : HashSum(f) # s.md5[f]}
CurrentHits(s) == {f \in NewFiles : f \notin Uncommitted(s) \/ HashSum(f) # s.md5[f]}

\* Every hit appends to the git diff again, so that only the last one counts.
Appended(s) ==
  CASE CurrentHits(s) # {} -> LastOf(CurrentHits(s))
    [] PreviousHits(s) \cap s.modified # {} -> LastOf(PreviousHits(s) \cap s.modified)
    [] OTHER -> LastOf(PreviousHits(s))

Diff_SkipPrevious(s) ==
  IF CurrentHits(s) = {} THEN GitDiff(s.commitSha) \ Uncommitted(s)
  ELSE GitDiff(s.commitSha) \cup Appended(s)
Diff_OnlyHits(s) ==
  IF PreviousHits(s) \cup CurrentHits(s) = {}
  THEN GitDiff(s.commitSha) \ Uncommitted(s)
  ELSE Appended(s)
Diff(s) ==
  IF PreviousHits(s) \cup CurrentHits(s) = {}
  THEN GitDiff(s.commitSha) \ Uncommitted(s)
  ELSE GitDiff(s.commitSha) \cup Appended(s)

-----------------------------------------------------------------------------
(* cache.go *)

\* os.Truncate(c.cacheFile, 0)
Truncated_Kept == cacheFile
Truncated == None

\* Start: no snapshot, or git failing, makes everything dirty.
Start(tasks) ==
  /\ ~ running
  /\ running' = TRUE
  /\ wanted' = tasks
  /\ ranOnce' = {}
  /\ failed' = FALSE
  /\ cacheFile' = Truncated
  /\ \/ /\ cacheFile # None
        /\ allDirty' = FALSE
        /\ dirtyFiles' = Diff(cacheFile)
     \/ /\ cacheFile = None \/ "git" \in Faults
        /\ allDirty' = TRUE
        /\ dirtyFiles' = {}
  /\ seen' = work
  /\ UNCHANGED <<repoVars, built, covered>>

IsFirstRun(t) == t \notin ranOnce
IsValid(t) == ~ allDirty /\ Sources[t] \cap dirtyFiles = {}

\* The sources of t in a work tree.
On(t, tree) == [f \in Sources[t] |-> tree[f]]

\* maybeRun, when the task is skipped.
Skip(t) ==
  /\ running
  /\ t \in wanted
  /\ IsFirstRun(t) /\ IsValid(t)
  /\ ranOnce' = ranOnce \cup {t}
  /\ UNCHANGED <<repoVars, running, wanted, allDirty, dirtyFiles, failed, cacheFile,
                 built, historyVars>>

\* maybeRun, when the task runs, and succeeds or fails.
Run(t) ==
  /\ running
  /\ t \in wanted
  /\ ~ (IsFirstRun(t) /\ IsValid(t))
  /\ ranOnce' = ranOnce \cup {t}
  /\ \/ built' = [built EXCEPT ![t] = On(t, work)] /\ UNCHANGED failed
     \/ "taskFails" \in Faults /\ failed' = TRUE /\ UNCHANGED built
  /\ UNCHANGED <<repoVars, running, wanted, allDirty, dirtyFiles, cacheFile, historyVars>>

\* Finish, from the onStop hook: after a failure too, which leaves what is
\* below the task unrun.  The write fails with git, and when the context is
\* cancelled, which also stops the tasks early.
Finish ==
  /\ running
  /\ running' = FALSE
  /\ \/ /\ wanted \subseteq ranOnce \/ failed
        /\ cacheFile' = Snapshot
        /\ seen' = work
        /\ covered' = {t \in Tasks : built[t] = On(t, work)}
     \/ "git" \in Faults /\ UNCHANGED <<cacheFile, historyVars>>
  /\ UNCHANGED <<repoVars, wanted, allDirty, dirtyFiles, ranOnce, failed, built>>

\* taskrunner is killed: no onStop hook runs.
Crash ==
  /\ "crash" \in Faults
  /\ running
  /\ running' = FALSE
  /\ UNCHANGED <<repoVars, wanted, allDirty, dirtyFiles, ranOnce, failed,
                 cacheFile, built, historyVars>>

-----------------------------------------------------------------------------
(* The user *)

\* Writing a file, also with what it held, or removing it.
Edit(f, d) ==
  /\ running => "editsWhileRunning" \in Faults
  /\ clock <= MaxEdits
  /\ clock' = clock + 1
  /\ work' = [work EXCEPT ![f] = d]
  /\ mtime' = [mtime EXCEPT ![f] = clock + 1]
  /\ UNCHANGED <<commits, head, sessionVars, cacheFile, built, historyVars>>

\* git add -A; git commit
Commit ==
  /\ ~ running
  /\ Len(commits) < MaxCommits
  /\ work # commits[head]
  /\ commits' = Append(commits, work)
  /\ head' = Len(commits')
  /\ UNCHANGED <<work, mtime, clock, sessionVars, cacheFile, built, historyVars>>

\* git checkout: of a clean tree, and it writes the files that differ.
Checkout(i) ==
  /\ ~ running
  /\ i # head
  /\ NewFiles \cup ModifiedFiles = {}
  /\ clock <= MaxEdits
  /\ clock' = clock + 1
  /\ head' = i
  /\ work' = commits[i]
  /\ mtime' = [f \in Files |-> IF work'[f] = work[f] THEN mtime[f] ELSE clock + 1]
  /\ UNCHANGED <<commits, sessionVars, cacheFile, built, historyVars>>

Next ==
  \/ \E tasks \in Sessions : Start(tasks)
  \/ \E t \in Tasks : Skip(t) \/ Run(t)
  \/ Finish
  \/ Crash
  \/ \E f \in Files, d \in Data \cup {Absent} : Edit(f, d)
  \/ Commit
  \/ \E i \in 1..Len(commits) : Checkout(i)

Spec == Init /\ [][Next]_vars

-----------------------------------------------------------------------------
\* Of the tasks that were up to date when the snapshot was written, a session
\* skips only those whose sources it found as their last successful run did,
\* whatever failed or was killed in between (cache.go:72).
SkipIsFresh ==
  [][\A t \in covered : Skip(t) => built[t] = On(t, seen)]_vars

Changed == {f \in Files : work[f] # seen[f]}

\* A session begins with a diff, and it is the one the property sees.
Diffed(P) == ~ running /\ running' /\ ~ allDirty' => P

\* snapshot.go:64: a file that git tracks, and tracked unmodified when the
\* snapshot was written, is dirty if it has changed since.
TrackedChangesAreDirty ==
  [][Diffed((Changed \cap Tracked) \ Uncommitted(cacheFile) \subseteq dirtyFiles')]_vars

\* Whatever it loses, a diff does not come out empty when something changed:
\* a task that watches every file is never skipped wrongly.
NoSilentDiff ==
  [][Diffed(Changed # {} => dirtyFiles' # {})]_vars

-----------------------------------------------------------------------------
(* What the comments of the code promise *)

\* snapshot.go:88: "Any uncommitted file that either has a different MD5 hash
\* or wasn't recorded in the previous snapshot counts as different."
UncommittedAreDirty ==
  [][Diffed(CurrentHits(cacheFile) \subseteq dirtyFiles')]_vars

\* cache.go:135: the cache "prevents the task from being invalidated between
\* runs if the files it depends on don't change": it skips no other.
SkipsOnlyUnchanged ==
  [][\A t \in Tasks : Skip(t) => built[t] = On(t, seen)]_vars
=============================================================================
