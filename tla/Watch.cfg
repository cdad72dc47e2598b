SPECIFICATION FairSpec
CONSTANTS
  server = server
  main = main
  lib = lib
  odd = odd
  Files = {lib, odd}
  Tool = "fswatch"
  Spaced = {}
  Misread = lib
  Broken = {odd}
  Torn = Torn
  ToolFaults = {"clean", "failed"}
  PipeSize = 1
  EventsSize = 1
  Tasks = {server}
  Sources <- AllSources
  Ignored <- NoFiles
  Refused = {}
  GoTasks = {server}
  GoFiles = {lib}
  Own <- OwnFiles
  Imported <- ImportedFiles
  NewImports = FALSE
  Located = {lib}
  LastListed = {}
  Unknown = Unknown
INVARIANT TypeOK
INVARIANT EditsAreKnown
 
PROPERTY EditsAreMarked
PROPERTY WatcherEnds
\* Nothing is left to do once the watcher has ended and the tasks are fresh.
CHECK_DEADLOCK FALSE
