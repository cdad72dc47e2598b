SPECIFICATION TerminatingSpec
CONSTANTS
  a = a
  b = b
  c = c
  d = d
  Tasks = {a, b, c, d}
  Deps <- DiamondDeps
  CtxParent <- DiamondParent
  KeepAlive = {}
  External = {}
  Vetoes <- NoVetoes
  WatchMode = FALSE
  Faults = {"interrupt", "start"}
  Workers = {w1, w2, w3}
  Passers = {p1}
  Callers = {}
  MaxCalls = 0
  Handlers = {}
  Main = Main
  Loop = Loop
  NoTask = NoTask
  NoProc = NoProc
INVARIANT Settled
PROPERTY RunReturns
\* The system stops once Run has returned.
CHECK_DEADLOCK FALSE
