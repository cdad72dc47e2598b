SPECIFICATION Spec
CONSTANTS
  a = a
  b = b
  c = c
  d = d
  Tasks = {a, b, c}
  Deps <- LineDeps
  CtxParent <- LineParent
  KeepAlive = {}
  External = {a}
  Vetoes <- DependencyVeto
  WatchMode = TRUE
  Faults = {"interrupt"}
  Workers = {w1, w2}
  Passers = {p1}
  Callers = {c1}
  MaxCalls = 2
  Handlers = {}
  Main = Main
  Loop = Loop
  NoTask = NoTask
  NoProc = NoProc
SYMMETRY Symmetry
INVARIANT TypeOK
INVARIANT AtMostOneRun
INVARIANT NoForgottenTask
INVARIANT TokenInv
INVARIANT ContextInv
PROPERTY SignalNotLost
PROPERTY StartsOnLiveContext
PROPERTY ImplementsTaskRuns
\* The system stops once Run has returned.
CHECK_DEADLOCK FALSE
