SPECIFICATION Spec
CONSTANTS
  a = a
  b = b
  c = c
  d = d
  Tasks = {a, b}
  Deps <- OneDeps
  CtxParent <- OneParent
  KeepAlive = {a, b}
  External = {}
  Vetoes <- NoVetoes
  WatchMode = TRUE
  Faults = {"interrupt"}
  Workers = {w1, w2}
  Passers = {p1}
  Callers = {}
  MaxCalls = 0
  Handlers = {}
  Main = Main
  Loop = Loop
  NoTask = NoTask
  NoProc = NoProc
INVARIANT KeepAliveIsReceived
\* The system stops once Run has returned.
CHECK_DEADLOCK FALSE
