------------------------------ MODULE GoTasks ------------------------------
(***************************************************************************)
(* The executor and the GoBuilder together: every task of the DAG is one   *)
(* that WrapWithGoBuild made, and a caller of Build is a task.  While a    *)
(* worker runs its task, the task is inside Build, and the context it gave *)
(* the builder is the one that plans and interrupts of the executor cancel.*)
(***************************************************************************)
EXTENDS GoBuilder

CONSTANTS
  Deps, CtxParent, KeepAlive, External, Vetoes, WatchMode, Faults,
  Workers, Passers, Callers, Handlers, MaxCalls, Main, Loop, NoTask, NoProc

VARIABLES
  state, ctxDone, inherited, terminalCh, pending, invalidationCh, toInvalidate,
  rootDone, watcher, failed, calls, todo, cur, job, stale,
  execMu,       \* Executor.mu
  loopTimer,    \* the timer of the invalidation loop
  taskErr,      \* the task function of the worker returned an error
  where         \* the program counters of the executor's goroutines

E == INSTANCE Executor WITH
  Tasks <- Builders, mu <- execMu, timer <- loopTimer, err <- taskErr, pc <- where

ASSUME ExecutorAssumption ==
  /\ E!DagAssumption
  /\ E!OptionsAssumption
  /\ E!ProcsAssumption
  /\ E!AcyclicAssumption

execVars == <<state, ctxDone, inherited, terminalCh, pending, invalidationCh,
              toInvalidate, rootDone, watcher, failed, calls, todo, cur, job, stale,
              execMu, loopTimer, taskErr, where>>
allVars == <<vars, execVars>>

\* The context a task gave Build is the one its worker captured.
Canceled ==
  {b \in InBuild : \E w \in Workers : where[w] = "running" /\ job[w] = b /\ E!CtxErr(w)}

GInit == Init /\ E!Init

-----------------------------------------------------------------------------
(* WrapWithGoBuild: the function of a task *)

BuildStep(w) ==
  /\ where[w] = "running"
  /\ UNCHANGED execVars
  /\ Build(job[w])
  /\ canceled' = Canceled'

\* The function returns: at once with the error of Build, or after go list and
\* the task's own function, each of which can fail.  Neither it nor Build looks
\* at the context before Build has its answer.
TaskReturns(w) ==
  /\ E!Return(w)
  /\ Again(job[w])
  /\ result[job[w]] => taskErr'[w]

BatcherStep == (Batch \/ TimerFires) /\ UNCHANGED execVars

\* Whatever else the executor does, a running worker stays where it is.
ExecutorStep ==
  /\ E!Next
  /\ \A w \in Workers : where[w] = "running" => where'[w] = "running"
  /\ UNCHANGED <<requests, packages, timer, mu, doneCh, ctx, built, err, batcher, pc,
                 result>>
  /\ canceled' = Canceled'

GNext ==
  \/ ExecutorStep
  \/ \E w \in Workers : BuildStep(w) \/ TaskReturns(w)
  \/ BatcherStep

GSpec == GInit /\ [][GNext]_allVars

\* The runtime schedules the executor, the builder and the callers, go install
\* ends, and what follows Build ends once its context is cancelled.
GFairSpec ==
  /\ GSpec
  /\ E!SchedulerFairness
  /\ WF_allVars(BatcherStep)
  /\ \A w \in Workers : /\ WF_allVars(BuildStep(w))
                        /\ WF_allVars(TaskReturns(w) /\ E!CtxErr(w))

-----------------------------------------------------------------------------
\* What the executor does to the contexts of its tasks, and when it runs them
\* again, is what the builder was modelled for.
ImplementsGoBuilder == Spec

\* A run that a plan or an interrupt has cancelled ends, although Build does not
\* look at its context: the batch it waits in is always built (builder.go:152).
\* The plan waits for it with Executor.mu held, and so does everybody else.
CanceledRunEnds ==
  \A w \in Workers : where[w] = "running" /\ E!CtxErr(w) ~> where[w] # "running"

\* An interrupt ends Executor.Run, whatever is being built for whom.
InterruptEndsRun == E!InterruptEndsRun

-----------------------------------------------------------------------------
(* What the comments of the code promise *)

\* A go install that nobody's context ends may take as long as it likes.
CanceledInstallEnds == BatcherStep /\ (batcher = "install" => ctx \in canceled)

\* As GFairSpec, but for that.
GPromptSpec ==
  /\ GSpec
  /\ E!SchedulerFairness
  /\ WF_allVars(CanceledInstallEnds)
  /\ \A w \in Workers : /\ WF_allVars(BuildStep(w))
                        /\ WF_allVars(TaskReturns(w) /\ E!CtxErr(w))
=============================================================================
