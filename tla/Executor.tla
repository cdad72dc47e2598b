------------------------------ MODULE Executor ------------------------------
(***************************************************************************)
(* The executor: it runs a DAG of tasks, accepts invalidations and         *)
(* re-runs what they touch (executor.go, task_execution.go, watch.go).     *)
(*                                                                         *)
(* Every goroutine of the program is a process with a program counter.     *)
(* Routines that several goroutines call (Executor.Invalidate,             *)
(* evaluateInvalidationPlan, runPass) are one set of actions over the      *)
(* processes that are inside them.  A step ends where another goroutine    *)
(* can observe or disturb the state: a mutex, a channel operation, a read  *)
(* or a write of a field that is not protected by a common lock.           *)
(***************************************************************************)
EXTENDS Naturals, FiniteSets

CONSTANTS
  Tasks,        \* the tasks of the DAG (Executor.tasks)
  Deps,         \* [Tasks -> SUBSET Tasks], Task.Dependencies
  CtxParent,    \* [Tasks -> Tasks \cup {NoTask}]: whose context the initial one derives from
  KeepAlive,    \* tasks with KeepAlive set
  External,     \* tasks a file change or a user restart can invalidate
  Vetoes,       \* <<task, reason>> pairs that ShouldInvalidate refuses
  WatchMode,    \* Executor.watchMode
  Faults,       \* what can go wrong around the executor in an instance
  Workers,      \* pool of errgroup goroutines that run a task (a bound)
  Passers,      \* pool of `go e.runPass()` goroutines (a bound)
  Callers,      \* pool of goroutines inside Executor.Invalidate (a bound)
  Handlers,     \* pool of goroutines inside TaskHandler.Invalidate (a bound)
  MaxCalls,     \* how many such calls the environment makes (a bound)
  Main,         \* the goroutine of Executor.Run
  Loop,         \* the goroutine of runInvalidationLoop
  NoTask, NoProc

Reasons == {"external", "dependency", "keepalive"}

Procs == Workers \cup Passers \cup Callers \cup Handlers \cup {Main, Loop}

ASSUME DagAssumption ==
  /\ Deps \in [Tasks -> SUBSET Tasks]
  /\ CtxParent \in [Tasks -> Tasks \cup {NoTask}]
  /\ NoTask \notin Tasks
  /\ \A t \in Tasks : CtxParent[t] # NoTask => t \in Deps[CtxParent[t]]

ASSUME OptionsAssumption ==
  /\ KeepAlive \subseteq Tasks
  /\ External \subseteq Tasks
  /\ Vetoes \subseteq Tasks \X Reasons
  /\ WatchMode \in BOOLEAN
  /\ MaxCalls \in Nat
  /\ Faults \subseteq {"interrupt", "watcher", "start", "stop"}

\* The pools hold different goroutines.
ASSUME ProcsAssumption ==
  /\ NoProc \notin Procs
  /\ Main # Loop
  /\ {Main, Loop} \cap (Workers \cup Passers \cup Callers \cup Handlers) = {}
  /\ Workers \cap (Passers \cup Callers \cup Handlers) = {}
  /\ Passers \cap (Callers \cup Handlers) = {}
  /\ Callers \cap Handlers = {}

-----------------------------------------------------------------------------
(* The DAG as taskSet.add leaves it *)

\* taskExecution.dependencies: every task below t, not only the direct ones.
Dependencies ==
  [t \in Tasks |->
    {d \in Tasks : \A S \in SUBSET Tasks :
       (Deps[t] \subseteq S /\ \A x \in S : Deps[x] \subseteq S) => d \in S}]

\* A DAG: the recursion of add ends, so that going down the dependencies comes to
\* an end from every task.
ASSUME AcyclicAssumption ==
  \A S \in SUBSET Tasks : S # {} => \E t \in S : Deps[t] \cap S = {}

\* taskExecution.dependents: the tasks that name t directly.
Dependents_Nil == [t \in Tasks |-> {NoTask : u \in {v \in Tasks : t \in Deps[v]}}]
Dependents == [t \in Tasks |-> {u \in Tasks : t \in Deps[u]}]

\* The tasks whose initial context derives, in one or more steps, from t's.
CtxBelow ==
  [t \in Tasks |->
    {d \in Tasks : \A S \in SUBSET Tasks :
       (\A x \in Tasks : CtxParent[x] \in S \cup {t} => x \in S) => d \in S}]

-----------------------------------------------------------------------------
VARIABLES
  \* taskExecution, one per task
  state,          \* taskExecution.state
  ctxDone,        \* the context now in taskExecution.ctx was cancelled by a cancel()
  inherited,      \* tasks whose taskExecution.ctx is still the one add made
  terminalCh,     \* tasks whose terminalCh holds its one element
  pending,        \* tasks with a pending invalidation
  \* Executor
  mu,             \* who holds Executor.mu
  invalidationCh, \* the one-element channel holds an element
  toInvalidate,   \* evaluateInvalidationPlan's local, of the holder of mu
  timer,          \* the loop's timer
  rootDone,       \* Executor.ctx is cancelled
  watcher,        \* the watcher's goroutine is in the errgroup
  failed,         \* the errgroup holds an error
  calls,          \* the Invalidate calls made from outside (bounded)
  \* goroutines
  pc,
  todo,           \* the tasks the current loop has still to visit
  cur,            \* the task the current step is about
  job,            \* the task a worker runs, the task an Invalidate call is for
  err,            \* the task function of the worker returned an error
  stale           \* the context the worker captured has been replaced since

taskVars == <<state, ctxDone, inherited, terminalCh, pending>>
planVars == <<mu, toInvalidate>>
loopVars == <<invalidationCh, timer>>
runVars == <<rootDone, watcher, failed, calls>>
execVars == <<planVars, loopVars, runVars>>
locals == <<todo, cur, job, err, stale>>
vars == <<taskVars, execVars, locals, pc>>

States == {"invalid", "running", "error", "done", "canceled"}

WorkerPcs == {"launched", "running", "stopped", "failed", "completed", "flushed",
              "keepAlive", "leave"}
RoutinePcs == {"invalidate", "record", "send",
               "plan", "collect", "invalidating", "reset", "drain",
               "pass", "passLock", "visit"}
OtherPcs == {"idle", "build", "hooks", "wait", "returned", "select", "spawn", "exited"}

\* Inside a critical section of Executor.mu.
CriticalPcs == {"collect", "invalidating", "reset", "drain", "visit"}

\* A worker at one of these still owes its task the element of terminalCh.
ActivePcs == {"launched", "running", "stopped", "failed", "completed"}
PreTokenPcs == ActivePcs \cup {"flushed"}

TypeOK ==
  /\ state \in [Tasks -> States]
  /\ ctxDone \in [Tasks -> BOOLEAN]
  /\ inherited \subseteq Tasks
  /\ terminalCh \subseteq Tasks
  /\ pending \subseteq Tasks
  /\ mu \in Procs \cup {NoProc}
  /\ invalidationCh \in BOOLEAN
  /\ toInvalidate \subseteq Tasks
  /\ timer \in {"stopped", "armed", "fired"}
  /\ rootDone \in BOOLEAN
  /\ watcher \in BOOLEAN
  /\ failed \in BOOLEAN
  /\ calls \in Nat
  /\ pc \in [Procs -> WorkerPcs \cup RoutinePcs \cup OtherPcs]
  /\ todo \in [Procs -> SUBSET Tasks]
  /\ cur \in [Procs -> Tasks \cup {NoTask}]
  /\ job \in [Procs -> Tasks \cup {NoTask}]
  /\ err \in [Workers -> BOOLEAN]
  /\ stale \in [Workers -> BOOLEAN]

Init ==
  /\ state = [t \in Tasks |-> "invalid"]
  /\ ctxDone = [t \in Tasks |-> FALSE]
  /\ inherited = Tasks
  /\ terminalCh = {}
  /\ pending = {}
  /\ mu = NoProc
  /\ invalidationCh = FALSE
  /\ toInvalidate = {}
  /\ timer = "stopped"
  /\ rootDone = FALSE
  /\ watcher = WatchMode
  /\ failed = FALSE
  /\ calls = 0
  /\ pc = [p \in Procs |-> CASE p = Main -> "build"
                             [] p = Loop -> "select"
                             [] OTHER -> "idle"]
  /\ todo = [p \in Procs |-> {}]
  /\ cur = [p \in Procs |-> NoTask]
  /\ job = [p \in Procs |-> NoTask]
  /\ err = [w \in Workers |-> FALSE]
  /\ stale = [w \in Workers |-> FALSE]

Goto(p, l) == pc' = [pc EXCEPT ![p] = l]

\* ctx.Err() of the context worker w captured when it began.
CtxErr_Fresh(w) == rootDone \/ ctxDone[job[w]]
CtxErr_Background(w) == stale[w] \/ ctxDone[job[w]]
CtxErr(w) == rootDone \/ stale[w] \/ ctxDone[job[w]]

\* What a goroutine does after each of the shared routines.
AfterInvalidate(p) ==
  IF p \in Workers THEN (IF err[p] THEN "pass" ELSE "plan") ELSE "idle"
AfterMarks(p) == IF p \in Handlers THEN "idle" ELSE "send"
AfterPlan_NoPass(p) == IF p = Loop THEN "spawn" ELSE "leave"
AfterPlan_NoSpawn(p) == IF p = Loop THEN "select" ELSE "pass"
AfterPlan(p) == IF p = Loop THEN "spawn" ELSE "pass"
AfterPass(p) == CASE p \in Workers -> "leave" [] p = Main -> "wait" [] OTHER -> "idle"

-----------------------------------------------------------------------------
(* taskExecution.Invalidate and Executor.Invalidate *)

\* The reason a mark of t carries in the call that p is making.
Reason(p, t) == IF t # job[p] THEN "dependency"
                ELSE IF p \in Workers THEN "keepalive" ELSE "external"

Refused(p, t) == state[t] = "invalid" \/ <<t, Reason(p, t)>> \in Vetoes

\* A file event, a user restart or a hook calls Executor.Invalidate, or a
\* subscriber calls TaskHandler.Invalidate.
CallInvalidate(p, t) ==
  /\ pc[p] = "idle"
  /\ pc[Main] # "build"
  /\ calls < MaxCalls
  /\ calls' = calls + 1
  /\ Goto(p, "invalidate")
  /\ todo' = [todo EXCEPT ![p] = {t}]
  /\ job' = [job EXCEPT ![p] = t]
  /\ UNCHANGED <<taskVars, planVars, loopVars, rootDone, watcher, failed, cur, err,
                 stale>>

\* The call returns from the last of the tasks it visits.
Marked(p, rest, next) ==
  /\ todo' = [todo EXCEPT ![p] = rest]
  /\ IF rest = {}
     THEN /\ Goto(p, next)
          /\ job' = [job EXCEPT ![p] = IF p \in Workers THEN @ ELSE NoTask]
     ELSE Goto(p, "invalidate") /\ UNCHANGED job

\* The call on t returns false: nothing is marked at t or through t, and
\* nothing is sent when t is the task of the whole call.
SkipMark(p) ==
  /\ pc[p] = "invalidate"
  /\ \E t \in todo[p] :
       /\ Refused(p, t)
       /\ Marked(p, todo[p] \ {t}, IF t = job[p] THEN AfterInvalidate(p) ELSE AfterMarks(p))
  /\ UNCHANGED <<taskVars, execVars, cur, err, stale>>

\* The checks pass; the write of pendingInvalidations is the next step, since
\* evaluateInvalidationPlan resets the state and the map without this lock.
CheckMark(p) ==
  /\ pc[p] = "invalidate"
  /\ \E t \in todo[p] :
       /\ ~ Refused(p, t)
       /\ todo' = [todo EXCEPT ![p] = @ \ {t}]
       /\ cur' = [cur EXCEPT ![p] = t]
  /\ Goto(p, "record")
  /\ UNCHANGED <<taskVars, execVars, job, err, stale>>

RecordMark(p) ==
  /\ pc[p] = "record"
  /\ pending' = pending \cup {cur[p]}
  /\ Marked(p, todo[p] \cup Dependents[cur[p]], AfterMarks(p))
  /\ cur' = [cur EXCEPT ![p] = NoTask]
  /\ UNCHANGED <<state, ctxDone, inherited, terminalCh, execVars, err, stale>>

\* e.invalidationCh <- struct{}{}: blocks while the channel is full.
Send_Unbuffered(p) ==
  /\ pc[p] = "send"
  /\ invalidationCh' = (pc[Loop] = "select")
  /\ Goto(p, AfterInvalidate(p))
  /\ UNCHANGED <<taskVars, planVars, timer, runVars, locals>>
Send(p) ==
  /\ pc[p] = "send"
  /\ ~ invalidationCh
  /\ invalidationCh' = TRUE
  /\ Goto(p, AfterInvalidate(p))
  /\ UNCHANGED <<taskVars, planVars, timer, runVars, locals>>

-----------------------------------------------------------------------------
(* evaluateInvalidationPlan and taskExecution.invalidate *)

PlanLock(p) ==
  /\ pc[p] = "plan"
  /\ mu = NoProc
  /\ mu' = p
  /\ todo' = [todo EXCEPT ![p] = Tasks]
  /\ Goto(p, "collect")
  /\ UNCHANGED <<taskVars, toInvalidate, loopVars, runVars, cur, job, err, stale>>

Collectable(t) == t \in pending /\ state[t] # "invalid"

\* The plan has rest to invalidate still, and ends when there is nothing.
Planned_NoUnlock(p, rest) ==
  /\ toInvalidate' = rest
  /\ UNCHANGED mu
  /\ Goto(p, IF rest = {} THEN AfterPlan(p) ELSE "invalidating")
Planned(p, rest) ==
  /\ toInvalidate' = rest
  /\ IF rest = {}
     THEN mu' = NoProc /\ Goto(p, AfterPlan(p))
     ELSE UNCHANGED mu /\ Goto(p, "invalidating")

Collect(p) ==
  /\ pc[p] = "collect"
  /\ \E t \in todo[p] :
       LET found == toInvalidate \cup {u \in {t} : Collectable(u)} IN
       /\ todo' = [todo EXCEPT ![p] = @ \ {t}]
       /\ IF todo[p] = {t}
          THEN Planned(p, found)
          ELSE toInvalidate' = found /\ UNCHANGED <<mu, pc>>
  /\ UNCHANGED <<taskVars, loopVars, runVars, cur, job, err, stale>>

\* A task that is invalid or canceled by now is left alone.
SkipInvalidate(p) ==
  /\ pc[p] = "invalidating"
  /\ \E t \in toInvalidate :
       /\ state[t] \in {"invalid", "canceled"}
       /\ Planned(p, toInvalidate \ {t})
  /\ UNCHANGED <<taskVars, loopVars, runVars, locals>>

\* e.cancel(): a context that add made cancels those made below it.
CancelRun(p) ==
  /\ pc[p] = "invalidating"
  /\ \E t \in toInvalidate :
       /\ state[t] \notin {"invalid", "canceled"}
       /\ ctxDone' = [u \in Tasks |->
            \/ ctxDone[u]
            \/ u = t
            \/ t \in inherited /\ u \in inherited \cap CtxBelow[t]]
       /\ cur' = [cur EXCEPT ![p] = t]
  /\ Goto(p, "reset")
  /\ UNCHANGED <<state, inherited, terminalCh, pending, execVars, todo, job, err,
                 stale>>

WithNewContext_Kept(t) == ctxDone
WithNewContext(t) == [ctxDone EXCEPT ![t] = FALSE]

\* The state is invalid and the context new; a worker that has captured the
\* old context keeps it.
ResetRun(p) ==
  LET t == cur[p] IN
  /\ pc[p] = "reset"
  /\ state' = [state EXCEPT ![t] = "invalid"]
  /\ ctxDone' = WithNewContext(t)
  /\ inherited' = inherited \ {t}
  /\ stale' = [w \in Workers |->
       stale[w] \/ (job[w] = t /\ pc[w] \notin {"idle", "launched"})]
  /\ Goto(p, "drain")
  /\ UNCHANGED <<terminalCh, pending, execVars, todo, cur, job, err>>

Terminated_NoWait(t) == TRUE
Terminated(t) == t \in terminalCh

\* <-e.terminalCh, then a new channel and no pending invalidations.
DrainRun(p) ==
  LET t == cur[p] IN
  /\ pc[p] = "drain"
  /\ Terminated(t)
  /\ terminalCh' = terminalCh \ {t}
  /\ pending' = pending \ {t}
  /\ cur' = [cur EXCEPT ![p] = NoTask]
  /\ Planned(p, toInvalidate \ {t})
  /\ UNCHANGED <<state, ctxDone, inherited, loopVars, runVars, todo, job, err, stale>>

-----------------------------------------------------------------------------
(* runPass *)

PassCheck(p) ==
  /\ pc[p] = "pass"
  /\ Goto(p, IF rootDone THEN AfterPass(p) ELSE "passLock")
  /\ UNCHANGED <<taskVars, execVars, locals>>

PassLock(p) ==
  /\ pc[p] = "passLock"
  /\ mu = NoProc
  /\ mu' = p
  /\ todo' = [todo EXCEPT ![p] = Tasks]
  /\ Goto(p, "visit")
  /\ UNCHANGED <<taskVars, toInvalidate, loopVars, runVars, cur, job, err, stale>>

ShouldExecute_Direct(t) ==
  /\ state[t] = "invalid"
  /\ \A d \in Deps[t] : state[d] = "done"
ShouldExecute(t) ==
  /\ state[t] = "invalid"
  /\ \A d \in Dependencies[t] : state[d] = "done"

\* The visit of t is over, and with the last one the pass.
VisitedPc(p, t) == IF todo[p] = {t} THEN AfterPass(p) ELSE "visit"

Visited(p, t) ==
  /\ todo' = [todo EXCEPT ![p] = @ \ {t}]
  /\ mu' = IF todo[p] = {t} THEN NoProc ELSE mu

PassSkip(p) ==
  /\ pc[p] = "visit"
  /\ \E t \in todo[p] :
       /\ ~ ShouldExecute(t)
       /\ Visited(p, t)
       /\ Goto(p, VisitedPc(p, t))
  /\ UNCHANGED <<taskVars, toInvalidate, loopVars, runVars, cur, job, err, stale>>

\* The pool of workers bounds the goroutines alive: with none idle the pass waits.
PassLaunch(p) ==
  /\ pc[p] = "visit"
  /\ \E t \in todo[p], w \in Workers :
       /\ ShouldExecute(t)
       /\ pc[w] = "idle"
       /\ Visited(p, t)
       /\ state' = [state EXCEPT ![t] = "running"]
       /\ job' = [job EXCEPT ![w] = t]
       /\ pc' = [pc EXCEPT ![w] = "launched", ![p] = VisitedPc(p, t)]
  /\ UNCHANGED <<ctxDone, inherited, terminalCh, pending, toInvalidate, loopVars,
                 runVars, cur, err, stale>>

-----------------------------------------------------------------------------
(* The goroutine that runs a task *)

\* execution.ctx is read without the lock; stale is FALSE from here on until
\* the context is replaced.
Begin(w) ==
  /\ pc[w] = "launched"
  /\ Goto(w, "running")
  /\ UNCHANGED <<taskVars, execVars, locals>>

\* The task function returns, with an error or not, and ctx.Err() is checked.
\* The pool of workers bounds this too: a function whose context is live
\* returns only while there is a goroutine left to start what follows.
Return(w) ==
  /\ pc[w] = "running"
  /\ CtxErr(w) \/ \E v \in Workers : pc[v] = "idle"
  /\ \E e \in BOOLEAN :
       /\ err' = [err EXCEPT ![w] = e]
       /\ Goto(w, CASE CtxErr(w) -> "stopped"
                    [] ~ CtxErr(w) /\ e -> "failed"
                    [] OTHER -> "completed")
  /\ UNCHANGED <<taskVars, execVars, todo, cur, job, stale>>

\* Write the state, without the lock.
Flush(w) ==
  /\ pc[w] \in {"stopped", "failed", "completed"}
  /\ state' = [state EXCEPT ![job[w]] =
       CASE pc[w] = "failed" -> "error"
         [] pc[w] = "completed" -> "done"
         [] pc[w] = "stopped" /\ rootDone -> "canceled"
         [] OTHER -> @]
  /\ Goto(w, "flushed")
  /\ UNCHANGED <<ctxDone, inherited, terminalCh, pending, execVars, locals>>

\* execution.terminalCh <- struct{}{}
SendTerminal(w) ==
  /\ pc[w] = "flushed"
  /\ job[w] \notin terminalCh
  /\ terminalCh' = terminalCh \cup {job[w]}
  /\ Goto(w, IF job[w] \in KeepAlive THEN "keepAlive" ELSE AfterInvalidate(w))
  /\ UNCHANGED <<state, ctxDone, inherited, pending, execVars, locals>>

Restarts_OnError(w) == err[w]
Restarts(w) == state[job[w]] # "canceled"

KeepAliveCheck(w) ==
  /\ pc[w] = "keepAlive"
  /\ IF Restarts(w)
     THEN Goto(w, "invalidate") /\ todo' = [todo EXCEPT ![w] = {job[w]}]
     ELSE Goto(w, AfterInvalidate(w)) /\ UNCHANGED todo
  /\ UNCHANGED <<taskVars, execVars, cur, job, err, stale>>

\* err != nil && ctx.Err() != context.Canceled
Reports_Canceled(w) == err[w] /\ CtxErr(w)
Reports(w) == err[w] /\ ~ CtxErr(w)

Leave(w) ==
  /\ pc[w] = "leave"
  /\ failed' = (failed \/ Reports(w))
  /\ Goto(w, "idle")
  /\ job' = [job EXCEPT ![w] = NoTask]
  /\ err' = [err EXCEPT ![w] = FALSE]
  /\ stale' = [stale EXCEPT ![w] = FALSE]
  /\ UNCHANGED <<taskVars, planVars, loopVars, rootDone, watcher, calls, todo, cur>>

-----------------------------------------------------------------------------
(* runInvalidationLoop: select over the channel, the context and the timer *)

LoopReceive ==
  /\ pc[Loop] = "select"
  /\ invalidationCh
  /\ invalidationCh' = FALSE
  /\ timer' = "armed"
  /\ UNCHANGED <<taskVars, planVars, runVars, locals, pc>>

LoopStop ==
  /\ pc[Loop] = "select"
  /\ rootDone
  /\ Goto(Loop, "exited")
  /\ UNCHANGED <<taskVars, execVars, locals>>

LoopTimer ==
  /\ pc[Loop] = "select"
  /\ timer = "fired"
  /\ timer' = "stopped"
  /\ Goto(Loop, "plan")
  /\ UNCHANGED <<taskVars, planVars, invalidationCh, runVars, locals>>

\* go e.runPass()
LoopSpawn ==
  /\ pc[Loop] = "spawn"
  /\ \E p \in Passers :
       /\ pc[p] = "idle"
       /\ pc' = [pc EXCEPT ![p] = "pass", ![Loop] = "select"]
  /\ UNCHANGED <<taskVars, execVars, locals>>

\* The second of time.Reset(time.Second) is over.
TimerFires ==
  /\ timer = "armed"
  /\ timer' = "fired"
  /\ UNCHANGED <<taskVars, planVars, invalidationCh, runVars, locals, pc>>

-----------------------------------------------------------------------------
(* Executor.Run, the watcher's goroutine and the interrupt signal *)

\* Every name is in the registry: the DAG is built and Executor.tasks set.
RunBuild ==
  /\ pc[Main] = "build"
  /\ Goto(Main, "hooks")
  /\ UNCHANGED <<taskVars, execVars, locals>>

\* The onStart hooks succeed and the first pass begins.
RunStart ==
  /\ pc[Main] = "hooks"
  /\ Goto(Main, "pass")
  /\ UNCHANGED <<taskVars, execVars, locals>>

\* An undefined name, --help, or an onStart hook that fails: no task is run.
RunEarlyReturn ==
  /\ "start" \in Faults
  /\ pc[Main] \in {"build", "hooks"}
  /\ Goto(Main, "returned")
  /\ UNCHANGED <<taskVars, execVars, locals>>

Exited_Function == \A w \in Workers : pc[w] # "running"
Exited == \A w \in Workers : pc[w] = "idle"

\* e.wg.Wait() returns once every goroutine of the errgroup has.
RunWait ==
  /\ pc[Main] = "wait"
  /\ Exited
  /\ ~ watcher
  /\ Goto(Main, "returned")
  /\ UNCHANGED <<taskVars, execVars, locals>>

\* watcher.Run returns once its context is done, or its process ends by itself,
\* with an error or without.
WatcherExit ==
  /\ watcher
  /\ rootDone \/ "watcher" \in Faults
  /\ watcher' = FALSE
  /\ failed' \in {failed, failed \/ ~ rootDone}
  /\ UNCHANGED <<taskVars, planVars, loopVars, rootDone, calls, locals, pc>>

\* The context of Run is cancelled: a signal, or another member of the
\* runner's errgroup failed.
Interrupt ==
  /\ "interrupt" \in Faults
  /\ ~ rootDone
  /\ rootDone' = TRUE
  /\ UNCHANGED <<taskVars, planVars, loopVars, watcher, failed, calls, locals, pc>>

-----------------------------------------------------------------------------
InvalidateCall(p) ==
  SkipMark(p) \/ CheckMark(p) \/ RecordMark(p) \/ Send(p)

Plan(p) ==
  \/ PlanLock(p) \/ Collect(p) \/ SkipInvalidate(p) \/ CancelRun(p)
  \/ ResetRun(p) \/ DrainRun(p)

Pass(p) ==
  PassCheck(p) \/ PassLock(p) \/ PassSkip(p) \/ PassLaunch(p)

Worker(w) ==
  \/ Begin(w) \/ Return(w) \/ Flush(w) \/ SendTerminal(w)
  \/ KeepAliveCheck(w) \/ Leave(w)

LoopStep == LoopReceive \/ LoopStop \/ LoopTimer \/ LoopSpawn

RunStep == RunBuild \/ RunStart \/ RunEarlyReturn \/ RunWait

Environment ==
  \/ \E p \in Callers \cup Handlers, t \in External : CallInvalidate(p, t)
  \/ TimerFires
  \/ WatcherExit
  \/ Interrupt

Next ==
  \/ \E p \in Workers \cup Callers \cup Handlers : InvalidateCall(p)
  \/ \E p \in Workers \cup {Loop} : Plan(p)
  \/ \E p \in Workers \cup Passers \cup {Main} : Pass(p)
  \/ \E w \in Workers : Worker(w)
  \/ LoopStep
  \/ RunStep
  \/ Environment

Spec == Init /\ [][Next]_vars

-----------------------------------------------------------------------------
(* Fairness: the runtime schedules every goroutine that can run.  Weak     *)
(* fairness is enough: whoever takes a lock or wins a select again and     *)
(* again needs a task that is started again and again.                     *)

\* A task function has to return once its context is cancelled (task.go:24).
Cancelable(w) == Return(w) /\ CtxErr(w)

SchedulerFairness ==
  /\ \A p \in Procs : WF_vars(InvalidateCall(p) \/ Plan(p) \/ Pass(p))
  /\ WF_vars(LoopStep)
  /\ WF_vars(TimerFires)
  /\ WF_vars(RunBuild \/ RunStart \/ RunWait)
  /\ WF_vars(WatcherExit /\ rootDone)
  /\ \A w \in Workers :
       WF_vars(Begin(w) \/ Flush(w) \/ SendTerminal(w) \/ KeepAliveCheck(w) \/ Leave(w))

FairSpec == Spec /\ SchedulerFairness /\ \A w \in Workers : WF_vars(Cancelable(w))

\* Task functions also return on their own: builds and linters, not servers.
TerminatingSpec == FairSpec /\ \A w \in Workers : WF_vars(Return(w))

-----------------------------------------------------------------------------
(* Safety *)

\* Two goroutines never run the same task at once: terminalCh makes
\* invalidate wait for the old run before the next pass can start a new one.
AtMostOneRun ==
  \A v, w \in Workers :
    /\ pc[v] \in PreTokenPcs
    /\ pc[w] \in PreTokenPcs
    /\ job[v] = job[w]
    => v = w

\* A run is never started on a context that a cancel() has already ended,
\* although add derives a dependency's context from its dependent's.
StartsOnLiveContext ==
  [][\A t \in Tasks : state[t] = "invalid" /\ state'[t] = "running" => ~ ctxDone[t]]_vars

\* Goroutine p is on its way to a pass that has still to visit t.
PassComing(p, t) ==
  \/ pc[p] \in PreTokenPcs \cup {"keepAlive", "pass", "passLock", "spawn", "build", "hooks"}
  \/ p \in Workers \cup {Loop} /\ pc[p] \in RoutinePcs \ {"visit"}
  \/ pc[p] = "visit" /\ t \in todo[p]

\* Work conservation (runPass after every exit and every plan): a task whose
\* dependencies are all done does not stay invalid with no pass to start it.
NoForgottenTask ==
  \A t \in Tasks :
    ShouldExecute(t) /\ ~ rootDone /\ pc[Main] # "returned"
    => \E p \in Procs : PassComing(p, t)

\* Run came to its own end, with every task started once and none interrupted:
\* what was left unrun is below a failure, all else is done or has failed, and
\* wg.Wait reports an error when a task has failed and only then.
Settled ==
  pc[Main] = "returned" /\ ~ rootDone /\ (\E t \in Tasks : state[t] # "invalid")
  => /\ \A t \in Tasks :
          \/ state[t] \in {"done", "error"}
          \/ state[t] = "invalid" /\ \E d \in Dependencies[t] : state[d] = "error"
     /\ failed <=> \E t \in Tasks : state[t] = "error"

\* A plan that will look at the pending invalidations of t is on its way.  A call
\* of Executor.Invalidate brings one once it is past the checks of its own task;
\* TaskHandler.Invalidate never sends.
PlanComing(t) ==
  \/ invalidationCh
  \/ timer # "stopped"
  \/ t \in toInvalidate
  \/ \E p \in Procs \ Handlers :
       \/ pc[p] \in {"record", "send", "plan"}
       \/ pc[p] = "invalidate" /\ job[p] \notin todo[p]
       \/ pc[p] = "collect" /\ t \in todo[p]

\* The mark of t is written in this step, by a call of Executor.Invalidate.
Recording(t) ==
  \E p \in Procs \ Handlers : pc[p] = "record" /\ pc'[p] # "record" /\ cur[p] = t

\* No lost wake-up (executor.go:161-227): from its mark on, a pending invalidation
\* of the current run has the channel, the timer, the caller or a goroutine at
\* the plan to bring it to evaluateInvalidationPlan, and no step of anybody takes
\* the last of these away before the plan has taken the invalidation in.
SignalNotLost ==
  [][\A t \in pending' :
       /\ state'[t] \notin {"invalid", "canceled"}
       /\ ~ rootDone'
       /\ Recording(t) \/ PlanComing(t)
       => PlanComing(t)']_vars

\* task.go:43: a KeepAlive task that exited, with an error or without, is about
\* to be invalidated and then planned, until the context of Run is done.
KeepAliveRestarts ==
  \A t \in KeepAlive :
    state[t] \in {"done", "error"} /\ ~ rootDone
    => \/ \E w \in Workers : /\ job[w] = t
                             /\ pc[w] \in {"flushed", "keepAlive", "invalidate", "record"}
       \/ t \in pending /\ PlanComing(t)

-----------------------------------------------------------------------------
(* Why: the inductive invariants *)

\* Executor.mu is held by the goroutine inside a critical section.
LockInv == \A p \in Procs : pc[p] \in CriticalPcs => mu = p

\* A goroutine that is about to use its task has one.
LocalInv ==
  /\ \A w \in Workers : pc[w] \in PreTokenPcs \cup {"keepAlive"} => job[w] \in Tasks
  /\ \A p \in Procs : pc[p] \in {"record", "reset", "drain"} => cur[p] \in Tasks

\* A call of Invalidate marks its own task first, and then only tasks above it.
MarksInv ==
  \A p \in Procs :
    /\ pc[p] \in {"invalidate", "record"} =>
         /\ job[p] \in Tasks
         /\ \A x \in todo[p] : x = job[p] \/ job[p] \in Dependencies[x]
    /\ pc[p] = "invalidate" /\ job[p] \in todo[p] => todo[p] = {job[p]}
    /\ pc[p] = "record" =>
         /\ job[p] \notin todo[p]
         /\ cur[p] = job[p] \/ job[p] \in Dependencies[cur[p]]

\* terminalCh is empty while a run is under way, and a task is invalid only
\* with no run under way, or with the plan that invalidated it waiting for one.
TokenInv ==
  /\ \A w \in Workers : pc[w] \in PreTokenPcs => job[w] \notin terminalCh
  /\ \A t \in Tasks : state[t] = "invalid" =>
       \/ \E p \in Procs : pc[p] = "drain" /\ cur[p] = t
       \/ /\ t \notin terminalCh
          /\ \A w \in Workers : pc[w] \in PreTokenPcs => job[w] # t
  /\ \A w \in Workers : pc[w] \in ActivePcs => state[job[w]] # "done"

\* The context of an invalid task is live: a task below one that has run on
\* its first context has itself run, or has a context of its own by now.
ContextInv ==
  /\ \A t \in Tasks : state[t] = "invalid" => ~ ctxDone[t]
  /\ \A p \in Procs : pc[p] = "drain" => cur[p] \notin inherited
  /\ \A t \in inherited : state[t] # "invalid" =>
       \A u \in CtxBelow[t] \cap inherited : state[u] # "invalid"

-----------------------------------------------------------------------------
(* Refinement: the runs of the tasks, as TaskRuns describes them *)

Runs(t) == {w \in Workers : job[w] = t /\ pc[w] \in ActivePcs}

Abstract == INSTANCE TaskRuns WITH
  Runners <- Workers,
  runners <- [t \in Tasks |-> Runs(t)],
  ok <- {t \in Tasks : state[t] = "done"}

\* Whatever is invalidated, interrupted or restarted meanwhile, a run starts
\* alone and on dependencies that are done (runPass, ShouldExecute).
ImplementsTaskRuns == Abstract!Spec

-----------------------------------------------------------------------------
(* Liveness *)

\* Tasks that all terminate, and nobody invalidates, let Run return.
RunReturns == <>(pc[Main] = "returned")

\* An interrupt ends Run (executor.go:286 waits for every task to exit).
InterruptEndsRun == rootDone ~> (pc[Main] = "returned")

\* A KeepAlive task is always started again.
KeepAliveRunsAgain == \A t \in KeepAlive : []<>(\E w \in Workers : pc[w] = "launched" /\ job[w] = t)

-----------------------------------------------------------------------------
(* What the comments of the code promise *)

\* task_execution.go:22: "Tasks cannot leave canceled state."
CanceledIsFinal ==
  [][\A t \in Tasks : state[t] = "canceled" => state'[t] = "canceled"]_vars

\* executor.go:676: invalidations occur after the state is flushed "so that
\* those channels do not block": somebody will send what invalidate receives.
DrainIsServed ==
  \A p \in Procs : pc[p] = "drain" =>
    \/ cur[p] \in terminalCh
    \/ \E w \in Workers : job[w] = cur[p] /\ pc[w] \in PreTokenPcs

\* task_execution.go:67: "invalidate stops the task if running": the run that a
\* plan waits for has the context that the plan cancelled.
InvalidateStopsRun ==
  \A p \in Procs, w \in Workers :
    pc[p] = "drain" /\ job[w] = cur[p] /\ pc[w] = "running" => CtxErr(w)

\* executor.go:684: the KeepAlive invalidation of a run that another one ended
\* "is a no-op": it is not recorded against the run that has taken its place.
KeepAliveSparesNewRun ==
  [][\A v, w \in Workers :
       /\ v # w
       /\ job[v] = job[w]
       /\ pc[v] \in ActivePcs
       => ~ (pc[w] = "invalidate" /\ pc'[w] = "record" /\ cur'[w] = job[w])]_vars

\* task.go:39: "When those dependencies are invalidated, this task will also
\* be invalidated."
DependentsFollow ==
  \A t \in Tasks : \A dep \in Deps[t] :
    /\ mu = NoProc
    /\ state[dep] = "invalid"
    /\ \A p \in Procs : pc[p] \notin {"invalidate", "record"}
    => state[t] \in {"invalid", "canceled"} \/ t \in pending

\* executor.go:286: "Wait on all tasks to exit before stopping": no run is left,
\* or started any more, when Run has returned.
NoRunOutlivesRun == pc[Main] = "returned" => \A w \in Workers : pc[w] = "idle"

\* executor.go:286: "Wait on all tasks to exit before stopping": each of them
\* does, since whoever receives a KeepAlive task's invalidation is still there.
KeepAliveIsReceived ==
  \A w \in Workers : pc[w] = "send" /\ invalidationCh => pc[Loop] # "exited"

\* task.go:43: "this task will be restarted whenever it exits, regardless of
\* exit code, until taskrunner itself stops": Run does not end under it.
KeepAliveHoldsRun ==
  pc[Main] = "returned" => rootDone \/ \A t \in KeepAlive : state[t] = "invalid"

=============================================================================
