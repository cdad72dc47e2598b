SPECIFICATION GFairSpec
CONSTANTS
  Builders = {a, b}
  Repeats = {a, b}
  Deps <- ApartDeps
  CtxParent <- ApartParent
  KeepAlive = {}
  External = {a}
  Vetoes <- NoVetoes
  WatchMode = TRUE
  Faults = {"interrupt", "start"}
  Workers = {w1, w2}
  Passers = {p1}
  Callers = {c1}
  MaxCalls = 1
  Handlers = {}
  Main = Main
  Loop = Loop
  NoTask = NoTask
  NoProc = NoProc
  Package <- OwnPackage
  Capacity = 1
  Prompt = TRUE
  Batcher = Batcher
  NoOne = NoOne
  OtherTask = b
CONSTRAINT OneTaskDisturbed
INVARIANT NoLostBuild
PROPERTY AnswersItsBatch
PROPERTY BuildReturns
PROPERTY ImplementsGoBuilder
PROPERTY InterruptEndsRun
PROPERTY CanceledRunEnds
\* The system stops once Run has returned.
CHECK_DEADLOCK FALSE
