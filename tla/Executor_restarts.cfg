SPECIFICATION TerminatingSpec
CONSTANTS
  a = a
  b = b
  c = c
  d = d
  Tasks = {a}
  Deps <- OneDeps
  CtxParent <- OneParent
  KeepAlive = {a}
  External = {}
  Vetoes <- NoVetoes
  WatchMode = TRUE
  Faults = {"watcher"}
  Workers = {w1, w2, w3}
  Passers = {p1}
  Callers = {}
  MaxCalls = 0
  Handlers = {}
  Main = Main
  Loop = Loop
  NoTask = NoTask
  NoProc = NoProc
INVARIANT KeepAliveRestarts
PROPERTY KeepAliveRunsAgain
\* The system stops once Run has returned.
CHECK_DEADLOCK FALSE
