SPECIFICATION Spec
CONSTANTS
  t1 = t1
  t2 = t2
  Files = {1, 2}
  Data = {"x", "y"}
  Tasks = {t1, t2}
  Sources <- OwnFile
  Sessions <- AllTasks
  Faults = {}
  MaxEdits = 3
  MaxCommits = 2
  Absent = Absent
  None = None
PROPERTY UncommittedAreDirty
