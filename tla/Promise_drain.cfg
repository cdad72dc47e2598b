SPECIFICATION Spec
CONSTANTS
  a = a
  b = b
  c = c
  d = d
  Tasks = {a}
  Deps <- OneDeps
  CtxParent <- OneParent
  KeepAlive = {}
  External = {a}
  Vetoes <- NoVetoes
  WatchMode = TRUE
  Faults = {}
  Workers = {w1, w2}
  Passers = {p1}
  Callers = {c1}
  MaxCalls = 2
  Handlers = {}
  Main = Main
  Loop = Loop
  NoTask = NoTask
  NoProc = NoProc
INVARIANT DrainIsServed
\* The system stops once Run has returned.
CHECK_DEADLOCK FALSE
