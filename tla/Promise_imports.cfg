SPECIFICATION Spec
CONSTANTS
  server = server
  main = main
  lib = lib
  odd = odd
  Files = {main, lib}
  Tool = "fswatch"
  Spaced = {}
  Misread = main
  Broken = {}
  Torn = Torn
  ToolFaults = {"clean", "failed"}
  PipeSize = 1
  EventsSize = 1
  Tasks = {server}
  Sources <- NoFiles
  Ignored <- NoFiles
  Refused = {}
  GoTasks = {server}
  GoFiles = {main, lib}
  Own <- OwnFiles
  Imported <- ImportedFiles
  NewImports = FALSE
  Located = {main, lib}
  LastListed = {}
  Unknown = Unknown
INVARIANT ImportGraphInvalidates
\* Nothing is left to do once the watcher has ended and the tasks are fresh.
CHECK_DEADLOCK FALSE
