SPECIFICATION RFairSpec
CONSTANTS
  a = a
  b = b
  c = c
  d = d
  Tasks = {a}
  Deps <- OneDeps
  CtxParent <- OneParent
  KeepAlive = {}
  External = {a}
  Vetoes <- NoVetoes
  WatchMode = FALSE
  Faults = {"interrupt", "start", "stop"}
  Workers = {w1, w2, w3}
  Passers = {p1}
  Callers = {}
  MaxCalls = 1
  Handlers = {h1}
  Main = Main
  Loop = Loop
  NoTask = NoTask
  NoProc = NoProc
  Subscribers = 2
  Quitters = {}
  Reporter = 1
  Capacity = 1
  MaxLogs = 2
  Nothing = Nothing
INVARIANT RTypeOK
INVARIANT RunsAreBracketed
INVARIANT EverythingIsHandled
INVARIANT EndsAgree
INVARIANT NoSendOnClosed
PROPERTY RunnerEnds
\* The program ends.
CHECK_DEADLOCK FALSE
