SPECIFICATION Spec
CONSTANTS
  t1 = t1
  t2 = t2
  Files = {1, 2}
  Data = {"x", "y"}
  Tasks = {t1}
  Sources <- BothFiles
  Sessions <- SomeTasks
  Faults = {"crash", "git", "taskFails", "editsWhileRunning"}
  MaxEdits = 3
  MaxCommits = 2
  Absent = Absent
  None = None
INVARIANT TypeOK
PROPERTY SkipIsFresh
PROPERTY TrackedChangesAreDirty
PROPERTY NoSilentDiff
