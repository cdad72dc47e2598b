SPECIFICATION StartSpec
CONSTANTS
  Registry = {"gen", "lint", "build", "test"}
  Definitions <- TheDefinitions
  Tasks = {"gen", "lint", "build", "test"}
  NoTask = NoTask
  Flags <- TheFlags
  Args <- TheArgs
  OneByte = {"v", "q", "s"}
  Parses <- ThePairs
  MaxArgs = 4
  None = None
  AllOptions <- AllTheOptions
  NoOptions = NoOptions
  Files <- TheFiles
  Contents <- TheContents
  Links <- TheLinks
  User <- Us
  Workspace <- Ws
  MaxChain = 4
  Missing = Missing
  Broken = Broken
CONSTRAINT Focus
INVARIANT KeysAreUnambiguous
INVARIANT FlagsFollowTheirTask
INVARIANT LastValueUnderBothNames
INVARIANT NearestPathAllTasks
INVARIANT RunsWhatWasAsked
INVARIANT DagIsComplete
INVARIANT ContextsFollowDependents
\* The program is started once.
CHECK_DEADLOCK FALSE
