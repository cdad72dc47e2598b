------------------------------ MODULE PassProofs ------------------------------
(***************************************************************************)
(* Work conservation: theorems about the passes of Executor and the runs   *)
(* they start, for every DAG, every fault and any number of goroutines and *)
(* invalidations.                                                          *)
(***************************************************************************)
EXTENDS ExecutorProofs

\* The groups of variables an action leaves alone.
USE DEF taskVars, planVars, loopVars, runVars, execVars, locals

-----------------------------------------------------------------------------
(* A task that can run has a pass *)

\* No goroutine loses its pass, and no task becomes ready, in a step that
\* leaves the states and the visits alone.
LEMMA PassFrame ==
  ASSUME NoForgottenTask,
         \A t \in Tasks : ShouldExecute(t)' => ShouldExecute(t),
         rootDone => rootDone',
         pc[Main] = "returned" => pc'[Main] = "returned",
         \A t \in Tasks, p \in Procs :
           PassComing(p, t) /\ ShouldExecute(t)' /\ ~ rootDone' /\ pc'[Main] # "returned"
           => \E q \in Procs : PassComing(q, t)'
  PROVE  NoForgottenTask'
  BY DEF NoForgottenTask

LEMMA PassStep ==
  ASSUME TypeInv, NoForgottenTask, [Next]_vars
  PROVE  NoForgottenTask'
<1> USE DEF TypeInv, TypeOK, Goto, Procs
<1>1. ASSUME NEW p \in Workers \cup Callers \cup Handlers, InvalidateCall(p)
      PROVE  NoForgottenTask'
  <2>1. UNCHANGED <<state, rootDone>>
    BY <1>1 DEF InvalidateCall, SkipMark, CheckMark, RecordMark, Send
  <2>2. \A q \in Procs \ {p} : pc'[q] = pc[q] /\ todo'[q] = todo[q]
    BY <1>1 DEF InvalidateCall, SkipMark, CheckMark, RecordMark, Send, Marked
  <2>3. p \in Workers => pc'[p] \in {"invalidate", "record", "send", "pass", "plan"}
    BY <1>1, ProcsAssumption DEF InvalidateCall, SkipMark, CheckMark, RecordMark, Send, Marked,
       AfterInvalidate, AfterMarks
  <2>4. pc[p] \in {"invalidate", "record", "send"}
    BY <1>1 DEF InvalidateCall, SkipMark, CheckMark, RecordMark, Send
  <2>5. p # Main /\ p # Loop
    BY ProcsAssumption
  <2>6. \A t \in Tasks, q \in Procs : PassComing(q, t) => PassComing(q, t)'
    BY <2>2, <2>3, <2>4, <2>5 DEF PassComing, PreTokenPcs, ActivePcs, RoutinePcs
  <2>7. QED BY <2>1, <2>2, <2>5, <2>6, PassFrame DEF ShouldExecute
<1>2. ASSUME NEW p \in Workers \cup {Loop}, Plan(p)
      PROVE  NoForgottenTask'
  <2>1. UNCHANGED rootDone
    BY <1>2 DEF Plan, PlanLock, Collect, SkipInvalidate, CancelRun, ResetRun, DrainRun
  <2>2. \A q \in Procs \ {p} : pc'[q] = pc[q] /\ todo'[q] = todo[q]
    BY <1>2 DEF Plan, PlanLock, Collect, SkipInvalidate, CancelRun, ResetRun, DrainRun, Planned
  <2>3. pc[p] # "visit" /\ \A t \in Tasks : PassComing(p, t)'
    BY <1>2, ProcsAssumption DEF Plan, PlanLock, Collect, SkipInvalidate, CancelRun, ResetRun,
       DrainRun, Planned, AfterPlan, PassComing, RoutinePcs
  <2>4. p # Main
    BY ProcsAssumption
  <2>5. QED BY <2>1, <2>2, <2>3, <2>4 DEF NoForgottenTask
<1>3. ASSUME NEW p \in Workers \cup Passers \cup {Main}, Pass(p)
      PROVE  NoForgottenTask'
  <2>1. UNCHANGED rootDone /\ AfterPass(p) # "returned"
    BY <1>3 DEF Pass, PassCheck, PassLock, PassSkip, PassLaunch, AfterPass
  <2>2. CASE PassCheck(p)
    BY <2>1, <2>2, PassFrame DEF PassCheck, PassComing, ShouldExecute
  <2>3. CASE PassLock(p)
    BY <2>1, <2>3, PassFrame DEF PassLock, PassComing, ShouldExecute
  <2>4. CASE PassSkip(p)
    <3>1. PICK t \in todo[p] :
            /\ ~ ShouldExecute(t)
            /\ todo' = [todo EXCEPT ![p] = @ \ {t}]
            /\ pc' = [pc EXCEPT ![p] = VisitedPc(p, t)]
      BY <2>4 DEF PassSkip, Visited
    <3>2. pc[p] = "visit" /\ UNCHANGED state
      BY <2>4 DEF PassSkip
    <3>3. pc'[Main] = "returned" <=> pc[Main] = "returned"
      BY <2>1, <3>1, <3>2 DEF VisitedPc
    <3>4. \A u \in Tasks, q \in Procs \ {p} : PassComing(q, u) => PassComing(q, u)'
      BY <3>1 DEF PassComing
    <3>5. \A u \in Tasks : u # t /\ PassComing(p, u) => PassComing(p, u)'
      BY <3>1, <3>2 DEF PassComing, VisitedPc, PreTokenPcs, ActivePcs, RoutinePcs
    <3>6. QED BY <2>1, <3>1, <3>2, <3>3, <3>4, <3>5, PassFrame DEF ShouldExecute
  <2>5. CASE PassLaunch(p)
    <3>1. PICK t \in todo[p], w \in Workers : pc' = [pc EXCEPT ![w] = "launched", ![p] = VisitedPc(p, t)]
                                            /\ pc[w] = "idle" /\ pc[p] = "visit"
      BY <2>5 DEF PassLaunch
    <3>2. pc'[w] = "launched"
      BY <3>1
    <3>3. \A u \in Tasks : PassComing(w, u)'
      BY <3>2 DEF PassComing, PreTokenPcs, ActivePcs
    <3>4. QED BY <3>3 DEF NoForgottenTask
  <2>6. QED BY <1>3, <2>2, <2>3, <2>4, <2>5 DEF Pass
<1>4. ASSUME NEW w \in Workers, Worker(w)
      PROVE  NoForgottenTask'
  <2>1. UNCHANGED <<rootDone, pc[Main]>> /\ w # Main
    BY <1>4, ProcsAssumption DEF Worker, Begin, Return, Flush, SendTerminal, KeepAliveCheck, Leave
  <2>2. \A q \in Procs \ {w} : pc'[q] = pc[q] /\ todo'[q] = todo[q]
    BY <1>4 DEF Worker, Begin, Return, Flush, SendTerminal, KeepAliveCheck, Leave
  <2>3. CASE Leave(w)
    BY <2>1, <2>2, <2>3, PassFrame DEF Leave, PassComing, ShouldExecute, PreTokenPcs, ActivePcs,
       RoutinePcs
  <2>4. CASE ~ Leave(w)
    <3>1. pc'[w] \in PreTokenPcs \cup {"keepAlive", "invalidate", "pass", "plan"}
      BY <1>4, <2>4 DEF Worker, Begin, Return, Flush, SendTerminal, KeepAliveCheck,
         AfterInvalidate, PreTokenPcs, ActivePcs
    <3>2. \A t \in Tasks : PassComing(w, t)'
      BY <3>1 DEF PassComing, RoutinePcs, PreTokenPcs, ActivePcs
    <3>3. QED BY <3>2 DEF NoForgottenTask
  <2>5. QED BY <2>3, <2>4
<1>5. CASE LoopStep
  <2>1. CASE LoopReceive \/ LoopStop \/ LoopTimer
    BY <2>1, ProcsAssumption, PassFrame DEF LoopReceive, LoopStop, LoopTimer, PassComing,
       ShouldExecute, RoutinePcs, PreTokenPcs, ActivePcs
  <2>2. CASE LoopSpawn
    BY <2>2, ProcsAssumption DEF LoopSpawn, PassComing, NoForgottenTask
  <2>3. QED BY <1>5, <2>1, <2>2 DEF LoopStep
<1>6. CASE RunStep
  BY <1>6, ProcsAssumption, PassFrame DEF RunStep, RunBuild, RunStart, RunEarlyReturn, RunWait,
     PassComing, ShouldExecute, RoutinePcs, PreTokenPcs, ActivePcs
<1>7. ASSUME NEW p \in Callers \cup Handlers, NEW t \in External, CallInvalidate(p, t)
      PROVE  NoForgottenTask'
  BY <1>7, ProcsAssumption, PassFrame DEF CallInvalidate,
     PassComing, ShouldExecute, RoutinePcs, PreTokenPcs, ActivePcs
<1>8. CASE TimerFires \/ WatcherExit \/ Interrupt \/ UNCHANGED vars
  BY <1>8, PassFrame DEF TimerFires, WatcherExit, Interrupt, vars, PassComing, ShouldExecute
<1>9. QED BY <1>1, <1>2, <1>3, <1>4, <1>5, <1>6, <1>7, <1>8 DEF Next, Environment

ForgetsNone == TypeInv /\ NoForgottenTask

LEMMA InitForgetsNone == Init => ForgetsNone
<1> SUFFICES ASSUME Init PROVE NoForgottenTask
  BY InitType DEF ForgetsNone
<1>1. Main \in Procs /\ pc[Main] = "build"
  BY ProcsAssumption DEF Init, Procs
<1>2. \A t \in Tasks : PassComing(Main, t)
  BY <1>1 DEF PassComing
<1>3. QED BY <1>1, <1>2 DEF NoForgottenTask

LEMMA ForgetsNoneStep == ForgetsNone /\ [Next]_vars => ForgetsNone'
  BY NextType, PassStep DEF ForgetsNone

\* Work conservation: a task whose dependencies are all done does not stay invalid with
\* no pass to start it, whoever ends, plans, fails or invalidates meanwhile (runPass
\* after every exit and every plan).
THEOREM NoTaskIsForgotten == Spec => []NoForgottenTask
<1>1. ForgetsNone => NoForgottenTask
  BY DEF ForgetsNone
<1>2. QED BY InitForgetsNone, ForgetsNoneStep, <1>1, PTL DEF Spec

-----------------------------------------------------------------------------
(* A task that is running has a run *)

\* A plan has cancelled the context of t and is about to reset its state.
Cancelling(t) == \E p \in Procs : pc[p] = "reset" /\ cur[p] = t

\* What the goroutines of the tasks, their contexts and the states know of each other: a
\* run of a task that is still running has the context of the task, which is live unless
\* a plan is at the task, and only such a plan leaves a task running without a run.
RunsInv ==
  /\ \A w \in Workers : pc[w] \in ActivePcs =>
       /\ state[job[w]] \in {"running", "invalid"}
       /\ state[job[w]] = "running" => ~ stale[w]
  /\ \A w \in Workers : pc[w] \in {"idle", "launched"} => ~ stale[w]
  /\ \A w \in Workers : pc[w] = "stopped" => CtxErr(w)
  /\ \A t \in Tasks : ctxDone[t] /\ state[t] = "running" => Cancelling(t)
  /\ \A t \in inherited : state[t] # "invalid" =>
       \A u \in CtxBelow[t] \cap inherited : state[u] \notin {"invalid", "running"}
  /\ \A t \in Tasks : state[t] = "running" =>
       Cancelling(t) \/ \E w \in Workers : job[w] = t /\ pc[w] \in ActivePcs
  /\ \A t \in Tasks : state[t] = "canceled" => rootDone

\* Steps that neither start nor end a run, nor touch its context.
LEMMA RunsInvFrame ==
  ASSUME TypeInv, RunsInv,
         UNCHANGED <<state, ctxDone, inherited, stale>>,
         rootDone => rootDone',
         \A w \in Workers :
           \/ pc'[w] = pc[w] /\ job'[w] = job[w]
           \/ /\ pc[w] \notin ActivePcs \cup {"idle"}
              /\ pc'[w] \notin ActivePcs \cup {"idle"},
         \A p \in Procs : pc[p] = "reset" => pc'[p] = "reset" /\ cur'[p] = cur[p]
  PROVE  RunsInv'
<1>1. \A t \in Tasks : Cancelling(t) => Cancelling(t)'
  BY DEF Cancelling
<1>2. \A w \in Workers : pc'[w] \in ActivePcs \cup {"idle"} => pc'[w] = pc[w] /\ job'[w] = job[w]
  OBVIOUS
<1>3. \A t \in Tasks, w \in Workers :
        job[w] = t /\ pc[w] \in ActivePcs => job'[w] = t /\ pc'[w] \in ActivePcs
  OBVIOUS
<1>4. \A w \in Workers : pc'[w] \in ActivePcs =>
        /\ state'[job'[w]] \in {"running", "invalid"}
        /\ state'[job'[w]] = "running" => ~ stale'[w]
  BY <1>2 DEF RunsInv
<1>5. \A w \in Workers : pc'[w] \in {"idle", "launched"} => ~ stale'[w]
  BY <1>2 DEF RunsInv, ActivePcs
<1>6. \A w \in Workers : pc'[w] = "stopped" => CtxErr(w)'
  BY <1>2 DEF RunsInv, ActivePcs, CtxErr
<1>7. \A t \in Tasks : state'[t] = "running" =>
        Cancelling(t)' \/ \E w \in Workers : job'[w] = t /\ pc'[w] \in ActivePcs
  BY <1>1, <1>3 DEF RunsInv
<1>8. QED BY <1>1, <1>4, <1>5, <1>6, <1>7 DEF RunsInv

LEMMA PlanRuns ==
  ASSUME OneRunInv, ContextInv, RunsInv, NEW p \in Workers \cup {Loop}, Plan(p)
  PROVE  RunsInv'
<1> USE DEF OneRunInv, TypeInv, TypeOK, Goto, Procs
<1>1. /\ pc[p] \notin ActivePcs \cup {"idle"} /\ pc'[p] \notin ActivePcs \cup {"idle"}
      /\ \A q \in Procs \ {p} : pc'[q] = pc[q] /\ cur'[q] = cur[q]
      /\ UNCHANGED <<job, rootDone>>
  BY DEF Plan, PlanLock, Collect, SkipInvalidate, CancelRun, ResetRun, DrainRun, Planned, AfterPlan,
     ActivePcs
<1>2. CASE PlanLock(p) \/ Collect(p) \/ SkipInvalidate(p) \/ DrainRun(p)
  <2>1. UNCHANGED <<state, ctxDone, inherited, stale>> /\ pc[p] # "reset"
    BY <1>2 DEF PlanLock, Collect, SkipInvalidate, DrainRun
  <2>2. QED BY <1>1, <2>1, RunsInvFrame
<1>3. CASE CancelRun(p)
  <2>1. PICK t \in toInvalidate :
          /\ state[t] \notin {"invalid", "canceled"}
          /\ ctxDone' = [u \in Tasks |-> \/ ctxDone[u]
                                         \/ u = t
                                         \/ t \in inherited /\ u \in inherited \cap CtxBelow[t]]
          /\ cur' = [cur EXCEPT ![p] = t]
    BY <1>3 DEF CancelRun
  <2>2. /\ pc[p] = "invalidating" /\ pc'[p] = "reset" /\ cur'[p] = t /\ t \in Tasks
        /\ UNCHANGED <<state, inherited, stale>>
    BY <1>3, <2>1 DEF CancelRun
  <2>3. \A u \in Tasks : Cancelling(u) => Cancelling(u)'
    BY <1>1, <2>2 DEF Cancelling
  <2>4. Cancelling(t)'
    BY <2>2 DEF Cancelling
  <2>5. ASSUME NEW u \in Tasks, ctxDone'[u], state'[u] = "running" PROVE Cancelling(u)'
    <3>1. ~ (t \in inherited /\ u \in inherited \cap CtxBelow[t])
      BY <2>1, <2>2, <2>5 DEF RunsInv
    <3>2. QED BY <2>1, <2>2, <2>3, <2>4, <2>5, <3>1 DEF RunsInv
  <2>6. \A w \in Workers : pc'[w] \in ActivePcs \cup {"idle"} => pc'[w] = pc[w]
    BY <1>1
  <2>7. \A w \in Workers : pc'[w] = "stopped" => CtxErr(w)'
    <3>1. \A w \in Workers : pc[w] = "stopped" => job[w] \in Tasks
      BY DEF LocalInv, PreTokenPcs, ActivePcs
    <3>2. \A u \in Tasks : ctxDone[u] => ctxDone'[u]
      BY <2>1
    <3>3. QED BY <1>1, <2>2, <2>6, <3>1, <3>2 DEF RunsInv, CtxErr, ActivePcs
  <2>8. \A u \in Tasks : state'[u] = "running" =>
          Cancelling(u)' \/ \E w \in Workers : job'[w] = u /\ pc'[w] \in ActivePcs
    BY <1>1, <2>2, <2>3 DEF RunsInv
  <2>9. QED BY <1>1, <2>2, <2>5, <2>6, <2>7, <2>8 DEF RunsInv, ActivePcs
<1>4. CASE ResetRun(p)
  <2>1. PICK t \in Tasks : t = cur[p]
    BY <1>4 DEF ResetRun, LocalInv
  <2>2. /\ pc[p] = "reset" /\ pc'[p] = "drain"
        /\ state' = [state EXCEPT ![t] = "invalid"]
        /\ ctxDone' = [ctxDone EXCEPT ![t] = FALSE]
        /\ inherited' = inherited \ {t}
        /\ stale' = [w \in Workers |->
             stale[w] \/ (job[w] = t /\ pc[w] \notin {"idle", "launched"})]
    BY <1>4, <2>1 DEF ResetRun, WithNewContext
  <2>3. \A w \in Workers : pc'[w] \in ActivePcs \cup {"idle"} => pc'[w] = pc[w]
    BY <1>1
  <2>4. \A w \in Workers : pc[w] \in ActivePcs => job[w] \in Tasks
    BY DEF LocalInv, PreTokenPcs
  <2>5. \A w \in Workers : pc'[w] \in ActivePcs =>
          /\ state'[job'[w]] \in {"running", "invalid"}
          /\ state'[job'[w]] = "running" => ~ stale'[w]
    BY <1>1, <2>2, <2>3, <2>4 DEF RunsInv, ActivePcs
  <2>6. \A w \in Workers : pc'[w] \in {"idle", "launched"} => ~ stale'[w]
    BY <1>1, <2>2, <2>3 DEF RunsInv, ActivePcs
  <2>7. \A w \in Workers : pc'[w] = "stopped" => CtxErr(w)'
    BY <1>1, <2>2, <2>3, <2>4 DEF RunsInv, ActivePcs, CtxErr
  <2>8. \A u \in Tasks \ {t} : Cancelling(u) => Cancelling(u)'
    BY <1>1, <2>1 DEF Cancelling
  <2>9. \A u \in Tasks : ctxDone'[u] /\ state'[u] = "running" => Cancelling(u)'
    BY <2>2, <2>8 DEF RunsInv
  <2>10. \A u \in Tasks : state'[u] = "running" =>
           Cancelling(u)' \/ \E w \in Workers : job'[w] = u /\ pc'[w] \in ActivePcs
    BY <1>1, <2>2, <2>8 DEF RunsInv
  <2>11. \A u \in inherited' : state'[u] # "invalid" =>
           \A v \in CtxBelow[u] \cap inherited' : state'[v] \notin {"invalid", "running"}
    BY <2>2 DEF RunsInv
  <2>12. \A u \in Tasks : state'[u] = "canceled" => rootDone'
    BY <1>1, <2>2 DEF RunsInv
  <2>13. QED BY <2>5, <2>6, <2>7, <2>9, <2>10, <2>11, <2>12 DEF RunsInv
<1>5. QED BY <1>2, <1>3, <1>4 DEF Plan

LEMMA PassRuns ==
  ASSUME OneRunInv, ContextInv, RunsInv, NEW p \in Workers \cup Passers \cup {Main}, Pass(p)
  PROVE  RunsInv'
<1> USE DEF OneRunInv, TypeInv, TypeOK, Goto, Procs
<1>0. p \in Workers => AfterPass(p) \notin ActivePcs \cup {"idle"}
  BY DEF AfterPass, ActivePcs
<1>1. CASE PassCheck(p) \/ PassLock(p) \/ PassSkip(p)
  <2>1. /\ UNCHANGED <<state, ctxDone, inherited, stale, rootDone, job, cur>>
        /\ pc[p] \in {"pass", "passLock", "visit"}
        /\ p \in Workers => pc'[p] \notin ActivePcs \cup {"idle"}
        /\ \A q \in Procs \ {p} : pc'[q] = pc[q]
    BY <1>0, <1>1 DEF PassCheck, PassLock, PassSkip, VisitedPc, ActivePcs
  <2>2. QED BY <2>1, RunsInvFrame DEF ActivePcs
<1>2. CASE PassLaunch(p)
  <2>1. PICK t \in todo[p], w \in Workers :
          /\ ShouldExecute(t)
          /\ pc[w] = "idle"
          /\ state' = [state EXCEPT ![t] = "running"]
          /\ job' = [job EXCEPT ![w] = t]
          /\ pc' = [pc EXCEPT ![w] = "launched", ![p] = VisitedPc(p, t)]
    BY <1>2 DEF PassLaunch
  <2>2. /\ t \in Tasks /\ p # w /\ pc[p] = "visit" /\ state[t] = "invalid"
        /\ p \in Workers => VisitedPc(p, t) \notin ActivePcs \cup {"idle"}
        /\ UNCHANGED <<ctxDone, inherited, stale, rootDone, cur>>
    BY <1>0, <1>2, <2>1 DEF PassLaunch, VisitedPc, ActivePcs, ShouldExecute
  <2>3. \A q \in Procs : pc[q] \notin {"reset", "drain"}
    BY <2>2 DEF LockInv, CriticalPcs
  <2>4. \A v \in Workers : pc[v] \in ActivePcs => job[v] # t
    BY <2>2, <2>3 DEF TokenInv, PreTokenPcs
  <2>5. ~ ctxDone[t]
    BY <2>2 DEF ContextInv
  <2>6. \A v \in Workers \ {w} :
          /\ job'[v] = job[v]
          /\ pc'[v] \in ActivePcs \cup {"idle"} \/ pc[v] \in ActivePcs \cup {"idle"} => pc'[v] = pc[v]
    BY <2>1, <2>2 DEF ActivePcs
  <2>7. pc'[w] = "launched" /\ job'[w] = t /\ ~ stale[w] /\ state'[t] = "running"
    BY <2>1, <2>2 DEF RunsInv
  <2>8. \A u \in Tasks \ {t} : state'[u] = state[u]
    BY <2>1
  <2>9. \A v \in Workers : pc[v] \in ActivePcs => job[v] \in Tasks
    BY DEF LocalInv, PreTokenPcs
  <2>10. \A v \in Workers \ {w} : pc'[v] \in ActivePcs =>
           /\ state'[job'[v]] \in {"running", "invalid"}
           /\ state'[job'[v]] = "running" => ~ stale'[v]
    BY <2>2, <2>4, <2>6, <2>8, <2>9 DEF RunsInv
  <2>11. \A v \in Workers : pc'[v] \in {"idle", "launched"} => ~ stale'[v]
    BY <2>2, <2>6, <2>7 DEF RunsInv, ActivePcs
  <2>12. \A v \in Workers : pc'[v] = "stopped" => CtxErr(v)'
    BY <2>2, <2>6, <2>7 DEF RunsInv, ActivePcs, CtxErr
  <2>13. \A u \in Tasks : ~ (ctxDone'[u] /\ state'[u] = "running")
    BY <2>2, <2>3, <2>5, <2>8 DEF RunsInv, Cancelling
  <2>14. ASSUME NEW u \in inherited, state'[u] # "invalid", NEW v \in CtxBelow[u] \cap inherited
         PROVE  state'[v] \notin {"invalid", "running"}
    <3>1. v \in Tasks /\ u \in Tasks
      BY DEF CtxBelow
    <3>2. CASE u = t
      <4>1. v \in Dependencies[t]
        BY <3>2, CtxBelowIsDependency
      <4>2. state[v] = "done"
        BY <2>1, <4>1 DEF ShouldExecute
      <4>3. v # t
        BY <2>2, <4>2
      <4>4. QED BY <2>8, <3>1, <4>2, <4>3
    <3>3. CASE u # t
      <4>1. state[v] \notin {"invalid", "running"}
        BY <2>8, <2>14, <3>1, <3>3 DEF RunsInv
      <4>2. QED BY <2>2, <2>8, <3>1, <4>1
    <3>4. QED BY <3>2, <3>3
  <2>15. ASSUME NEW u \in Tasks, state'[u] = "running"
         PROVE  \E v \in Workers : job'[v] = u /\ pc'[v] \in ActivePcs
    <3>1. CASE u = t
      BY <2>7, <3>1 DEF ActivePcs
    <3>2. CASE u # t
      <4>1. PICK v \in Workers : job[v] = u /\ pc[v] \in ActivePcs
        BY <2>3, <2>8, <2>15, <3>2 DEF RunsInv, Cancelling
      <4>2. v # w
        BY <2>1, <4>1 DEF ActivePcs
      <4>3. QED BY <2>6, <4>1, <4>2
    <3>3. QED BY <3>1, <3>2
  <2>16. \A u \in Tasks : state'[u] = "canceled" => rootDone'
    BY <2>2, <2>7, <2>8 DEF RunsInv
  <2>17. QED BY <2>2, <2>7, <2>10, <2>11, <2>12, <2>13, <2>14, <2>15, <2>16 DEF RunsInv
<1>3. QED BY <1>1, <1>2 DEF Pass

LEMMA WorkerRuns ==
  ASSUME OneRunInv, ContextInv, RunsInv, NEW w \in Workers, Worker(w)
  PROVE  RunsInv'
<1> USE DEF OneRunInv, TypeInv, TypeOK, Goto, Procs
<1>1. CASE SendTerminal(w) \/ KeepAliveCheck(w)
  <2>1. /\ UNCHANGED <<state, ctxDone, inherited, stale, rootDone, job, cur>>
        /\ pc[w] \in {"flushed", "keepAlive"}
        /\ pc'[w] \notin ActivePcs \cup {"idle"}
        /\ \A q \in Procs \ {w} : pc'[q] = pc[q]
    BY <1>1 DEF SendTerminal, KeepAliveCheck, AfterInvalidate, ActivePcs
  <2>2. QED BY <2>1, RunsInvFrame DEF ActivePcs
<1>2. CASE Begin(w) \/ Return(w)
  <2>1. /\ UNCHANGED <<state, ctxDone, inherited, stale, rootDone, job, cur>>
        /\ pc[w] \in {"launched", "running"} /\ pc'[w] \in ActivePcs \ {"launched"}
        /\ pc'[w] = "stopped" => CtxErr(w)
        /\ \A q \in Procs \ {w} : pc'[q] = pc[q]
    BY <1>2 DEF Begin, Return, ActivePcs
  <2>2. \A t \in Tasks : Cancelling(t) => Cancelling(t)'
    BY <2>1 DEF Cancelling
  <2>3. \A v \in Workers : pc'[v] \in ActivePcs <=> pc[v] \in ActivePcs
    BY <2>1 DEF ActivePcs
  <2>4. \A v \in Workers : pc'[v] = "stopped" => CtxErr(v)'
    BY <2>1 DEF RunsInv, CtxErr
  <2>5. \A v \in Workers : pc'[v] \in {"idle", "launched"} => ~ stale'[v]
    BY <2>1 DEF RunsInv, ActivePcs
  <2>6. \A t \in Tasks : state'[t] = "running" =>
          Cancelling(t)' \/ \E v \in Workers : job'[v] = t /\ pc'[v] \in ActivePcs
    BY <2>1, <2>2, <2>3 DEF RunsInv
  <2>7. QED BY <2>1, <2>2, <2>3, <2>4, <2>5, <2>6 DEF RunsInv
<1>3. CASE Leave(w)
  <2>1. /\ UNCHANGED <<state, ctxDone, inherited, rootDone, cur>>
        /\ pc[w] = "leave" /\ pc'[w] = "idle" /\ ~ stale'[w]
        /\ \A q \in Procs \ {w} : pc'[q] = pc[q]
        /\ \A v \in Workers \ {w} : job'[v] = job[v] /\ stale'[v] = stale[v]
    BY <1>3 DEF Leave
  <2>2. \A t \in Tasks : Cancelling(t) => Cancelling(t)'
    BY <2>1 DEF Cancelling
  <2>3. \A v \in Workers : pc[v] \in ActivePcs => v # w
    BY <2>1 DEF ActivePcs
  <2>4. \A v \in Workers : pc'[v] \in ActivePcs => v # w
    BY <2>1 DEF ActivePcs
  <2>5. \A v \in Workers : pc'[v] \in ActivePcs =>
          /\ state'[job'[v]] \in {"running", "invalid"}
          /\ state'[job'[v]] = "running" => ~ stale'[v]
    BY <2>1, <2>4 DEF RunsInv
  <2>6. \A v \in Workers : pc'[v] = "stopped" => CtxErr(v)'
    BY <2>1 DEF RunsInv, CtxErr
  <2>7. \A v \in Workers : pc'[v] \in {"idle", "launched"} => ~ stale'[v]
    BY <2>1 DEF RunsInv
  <2>8. \A t \in Tasks : state'[t] = "running" =>
          Cancelling(t)' \/ \E v \in Workers : job'[v] = t /\ pc'[v] \in ActivePcs
    BY <2>1, <2>2, <2>3 DEF RunsInv
  <2>9. QED BY <2>1, <2>2, <2>5, <2>6, <2>7, <2>8 DEF RunsInv
<1>4. CASE Flush(w)
  <2>1. PICK t \in Tasks : t = job[w]
    BY <1>4 DEF Flush, LocalInv, PreTokenPcs, ActivePcs
  <2>2. /\ pc[w] \in {"stopped", "failed", "completed"} /\ pc'[w] = "flushed"
        /\ \A q \in Procs \ {w} : pc'[q] = pc[q]
        /\ UNCHANGED <<ctxDone, inherited, stale, rootDone, job, cur>>
        /\ \A u \in Tasks \ {t} : state'[u] = state[u]
    BY <1>4, <2>1 DEF Flush
  <2>3. /\ state'[t] \in {"error", "done", "canceled", state[t]}
        /\ state'[t] = "canceled" => rootDone \/ state[t] = "canceled"
        /\ state'[t] = "running" => pc[w] = "stopped" /\ ~ rootDone /\ state[t] = "running"
    BY <1>4, <2>1 DEF Flush, RunsInv, ActivePcs
  <2>4. \A v \in Workers \ {w} : pc[v] \in ActivePcs => job[v] # t
    BY <2>1, <2>2 DEF AtMostOneRun, PreTokenPcs, ActivePcs
  <2>5. \A u \in Tasks : Cancelling(u) => Cancelling(u)'
    BY <2>2 DEF Cancelling
  <2>6. \A v \in Workers : pc[v] \in ActivePcs => job[v] \in Tasks
    BY DEF LocalInv, PreTokenPcs
  <2>7. \A v \in Workers : pc'[v] \in ActivePcs => v # w
    BY <2>2 DEF ActivePcs
  <2>8. \A v \in Workers : pc'[v] \in ActivePcs =>
          /\ state'[job'[v]] \in {"running", "invalid"}
          /\ state'[job'[v]] = "running" => ~ stale'[v]
    BY <2>2, <2>4, <2>6, <2>7 DEF RunsInv
  <2>9. \A v \in Workers : pc'[v] \in {"idle", "launched"} => ~ stale'[v]
    BY <2>2 DEF RunsInv
  <2>10. \A v \in Workers : pc'[v] = "stopped" => CtxErr(v)'
    BY <2>2 DEF RunsInv, CtxErr
  <2>11. state'[t] = "running" => Cancelling(t)
    <3>1. SUFFICES ASSUME pc[w] = "stopped", ~ rootDone, state[t] = "running" PROVE Cancelling(t)
      BY <2>3
    <3>2. CtxErr(w) /\ ~ stale[w]
      BY <2>1, <3>1 DEF RunsInv, ActivePcs
    <3>3. ctxDone[t]
      BY <2>1, <3>1, <3>2 DEF CtxErr
    <3>4. QED BY <3>1, <3>3 DEF RunsInv
  <2>12. \A u \in Tasks : ctxDone'[u] /\ state'[u] = "running" => Cancelling(u)'
    BY <2>2, <2>5, <2>11 DEF RunsInv
  <2>13. ASSUME NEW u \in Tasks, state'[u] = "running"
         PROVE  Cancelling(u)' \/ \E v \in Workers : job'[v] = u /\ pc'[v] \in ActivePcs
    <3>1. CASE u = t
      BY <2>5, <2>11, <2>13, <3>1
    <3>2. CASE u # t
      <4>1. Cancelling(u) \/ \E v \in Workers : job[v] = u /\ pc[v] \in ActivePcs
        BY <2>2, <2>13, <3>2 DEF RunsInv
      <4>2. \A v \in Workers : job[v] = u => v # w
        BY <2>1, <3>2
      <4>3. QED BY <2>2, <2>5, <4>1, <4>2
    <3>3. QED BY <3>1, <3>2
  <2>14. ASSUME NEW u \in inherited, state'[u] # "invalid", NEW v \in CtxBelow[u] \cap inherited
         PROVE  state'[v] \notin {"invalid", "running"}
    <3>1. v \in Tasks /\ u \in Tasks
      BY DEF CtxBelow
    <3>2. state[t] = "invalid" => t \notin inherited
      BY <2>1, <2>2 DEF TokenInv, ContextInv, PreTokenPcs, ActivePcs
    <3>3. state[u] # "invalid"
      BY <2>2, <2>14, <3>1, <3>2
    <3>4. state[v] \notin {"invalid", "running"}
      BY <3>3 DEF RunsInv
    <3>5. v # t
      BY <2>1, <2>2, <3>4 DEF RunsInv, ActivePcs
    <3>6. QED BY <2>2, <3>1, <3>4, <3>5
  <2>15. \A u \in Tasks : state'[u] = "canceled" => rootDone'
    BY <2>2, <2>3 DEF RunsInv
  <2>16. QED BY <2>2, <2>8, <2>9, <2>10, <2>12, <2>13, <2>14, <2>15 DEF RunsInv
<1>5. QED BY <1>1, <1>2, <1>3, <1>4 DEF Worker

LEMMA RunsStep ==
  ASSUME OneRunInv, ContextInv, RunsInv, [Next]_vars
  PROVE  RunsInv'
<1> USE DEF OneRunInv, TypeInv, TypeOK, Goto, Procs
<1>1. ASSUME NEW p \in Workers \cup Callers \cup Handlers, InvalidateCall(p) PROVE RunsInv'
  <2>1. /\ UNCHANGED <<state, ctxDone, inherited, stale, rootDone>>
        /\ pc[p] \in {"invalidate", "record", "send"}
        /\ p \in Workers => pc'[p] \in {"invalidate", "record", "send", "pass", "plan"}
        /\ \A q \in Procs \ {p} : pc'[q] = pc[q] /\ job'[q] = job[q] /\ cur'[q] = cur[q]
    BY <1>1, ProcsAssumption DEF InvalidateCall, SkipMark, CheckMark, RecordMark, Send, Marked,
       AfterInvalidate, AfterMarks
  <2>2. QED BY <2>1, RunsInvFrame DEF ActivePcs
<1>2. CASE LoopStep \/ RunStep \/ Environment \/ UNCHANGED vars
  <2>1. /\ UNCHANGED <<state, ctxDone, inherited, stale, cur>>
        /\ rootDone => rootDone'
        /\ \A w \in Workers : pc'[w] = pc[w] /\ job'[w] = job[w]
        /\ \A q \in Procs : pc[q] = "reset" => pc'[q] = "reset"
    BY <1>2, ProcsAssumption DEF LoopStep, LoopReceive, LoopStop, LoopTimer, LoopSpawn,
       RunStep, RunBuild, RunStart, RunEarlyReturn, RunWait, Environment, CallInvalidate,
       TimerFires, WatcherExit, Interrupt, vars
  <2>2. QED BY <2>1, RunsInvFrame
<1>3. QED BY <1>1, <1>2, PlanRuns, PassRuns, WorkerRuns DEF Next

LEMMA InitRuns == Init => RunsInv /\ ContextInv
<1> SUFFICES ASSUME Init PROVE RunsInv /\ ContextInv
  OBVIOUS
<1>1. \A p \in Procs : pc[p] \in {"build", "select", "idle"}
  BY DEF Init
<1>2. RunsInv
  BY <1>1 DEF Init, RunsInv, ActivePcs, Procs
<1>3. ContextInv
  BY <1>1 DEF Init, ContextInv
<1>4. QED BY <1>2, <1>3

\* A task that is running has a goroutine that runs it, or a plan that has cancelled it
\* and is about to reset it: a state "running" is never left behind, whatever is
\* invalidated or interrupted meanwhile (runPass, taskExecution.invalidate).
THEOREM RunningHasRun ==
  Spec => [](\A t \in Tasks : state[t] = "running" => Cancelling(t) \/ Runs(t) # {})
<1>1. RunsInv => \A t \in Tasks : state[t] = "running" => Cancelling(t) \/ Runs(t) # {}
  BY DEF RunsInv, Runs
<1>2. OneRunInv /\ ContextInv /\ RunsInv /\ [Next]_vars => ContextInv' /\ RunsInv'
  BY ContextStep, RunsStep DEF OneRunInv
<1>3. QED BY InitOneRun, OneRunStep, InitRuns, <1>1, <1>2, PTL DEF Spec

-----------------------------------------------------------------------------
(* A run of the program without watch mode settles *)

\* Nobody invalidates a task: no watch mode, no call from outside, no KeepAlive.
OneShot == ~ WatchMode /\ MaxCalls = 0 /\ KeepAlive = {}

\* So plans find nothing, and only Main and the workers go through passes.
QuietInv ==
  /\ ~ invalidationCh /\ timer = "stopped" /\ ~ watcher
  /\ pending = {} /\ toInvalidate = {}
  /\ pc[Loop] \in {"select", "exited"}
  /\ pc[Main] \in {"build", "hooks", "pass", "passLock", "visit", "wait", "returned"}
  /\ \A p \in Passers \cup Callers \cup Handlers : pc[p] = "idle"
  /\ \A w \in Workers :
       pc[w] \in PreTokenPcs \cup {"plan", "collect", "pass", "passLock", "visit", "leave", "idle"}
  /\ \A t \in Tasks : ~ ctxDone[t]
  /\ \A w \in Workers : ~ stale[w]

\* Worker w has seen the task function of t fail, and has still to report it.
Failing(w, t) == job[w] = t /\ err[w] /\ pc[w] \notin ActivePcs \cup {"idle"}

\* Until an interrupt: what the goroutines of the tasks know agrees with the states, and
\* a failure is in the errgroup or on its way there.
OutcomeInv ==
  /\ \A w \in Workers :
       /\ pc[w] \in ActivePcs => state[job[w]] = "running"
       /\ pc[w] \in {"idle", "launched", "running", "completed"} => ~ err[w]
       /\ pc[w] = "failed" => err[w]
       /\ pc[w] # "stopped"
       /\ err[w] /\ pc[w] # "failed" => job[w] \in Tasks /\ state[job[w]] = "error"
  /\ \A t \in Tasks :
       /\ state[t] # "canceled"
       /\ state[t] = "running" => \E w \in Workers : job[w] = t /\ pc[w] \in ActivePcs
       /\ state[t] = "error" => failed \/ \E w \in Workers : Failing(w, t)
  /\ failed => \E t \in Tasks : state[t] = "error"

\* Run starts with nothing done and returns with nobody left, and then with no task that
\* a pass would start.
EndInv ==
  /\ pc[Main] \in {"build", "hooks"} =>
       (\A t \in Tasks : state[t] = "invalid") /\ Exited
  /\ pc[Main] = "returned" =>
       /\ Exited
       /\ \/ rootDone
          \/ \A t \in Tasks : state[t] = "invalid"
          \/ \A t \in Tasks : ~ ShouldExecute(t)

\* Then nothing ever leads into Invalidate or into taskExecution.invalidate.
LEMMA QuietNext ==
  ASSUME OneShot, TypeInv, QuietInv, [Next]_vars
  PROVE  \/ \E w \in Workers : PlanLock(w) \/ Collect(w)
         \/ \E p \in Workers \cup {Main} : Pass(p)
         \/ \E w \in Workers : Worker(w) /\ ~ KeepAliveCheck(w)
         \/ LoopStop \/ RunStep \/ Interrupt \/ UNCHANGED vars
<1> USE DEF PreTokenPcs, ActivePcs
<1>1. \A p \in Workers \cup Callers \cup Handlers : ~ InvalidateCall(p)
  BY DEF QuietInv, InvalidateCall, SkipMark, CheckMark, RecordMark, Send
<1>2. /\ ~ Plan(Loop)
      /\ \A w \in Workers : Plan(w) => PlanLock(w) \/ Collect(w)
  BY DEF QuietInv, Plan, PlanLock, Collect, SkipInvalidate, CancelRun, ResetRun, DrainRun
<1>3. \A p \in Passers : ~ Pass(p)
  BY DEF QuietInv, Pass, PassCheck, PassLock, PassSkip, PassLaunch
<1>4. LoopStep => LoopStop
  BY DEF QuietInv, LoopStep, LoopReceive, LoopTimer, LoopSpawn
<1>5. ~ TimerFires /\ ~ WatcherExit
  BY DEF QuietInv, TimerFires, WatcherExit
<1>6. \A p, t : ~ CallInvalidate(p, t)
  BY DEF OneShot, CallInvalidate, TypeInv, TypeOK
<1>7. \A w \in Workers : ~ KeepAliveCheck(w)
  BY DEF QuietInv, KeepAliveCheck
<1>8. QED BY <1>1, <1>2, <1>3, <1>4, <1>5, <1>6, <1>7 DEF Next, Environment

LEMMA RootStep ==
  ASSUME [Next]_vars, rootDone
  PROVE  rootDone'
<1>1. ASSUME NEW p \in Procs, InvalidateCall(p) \/ Plan(p) \/ Pass(p) PROVE rootDone'
  BY <1>1 DEF InvalidateCall, SkipMark, CheckMark, RecordMark, Send, Plan, PlanLock, Collect,
     SkipInvalidate, CancelRun, ResetRun, DrainRun, Pass, PassCheck, PassLock, PassSkip, PassLaunch
<1>2. ASSUME NEW w \in Workers, Worker(w) PROVE rootDone'
  BY <1>2 DEF Worker, Begin, Return, Flush, SendTerminal, KeepAliveCheck, Leave
<1>3. CASE LoopStep \/ RunStep \/ Environment \/ UNCHANGED vars
  BY <1>3 DEF LoopStep, LoopReceive, LoopStop, LoopTimer, LoopSpawn, RunStep, RunBuild, RunStart,
     RunEarlyReturn, RunWait, Environment, CallInvalidate, TimerFires, WatcherExit, Interrupt, vars
<1>4. QED BY <1>1, <1>2, <1>3 DEF Next, Procs

LEMMA InitQuiet ==
  ASSUME OneShot, Init
  PROVE  QuietInv /\ OutcomeInv /\ EndInv
<1>1. /\ pc[Main] = "build" /\ pc[Loop] = "select"
      /\ \A p \in Procs \ {Main, Loop} : pc[p] = "idle"
  BY ProcsAssumption DEF Init, Procs
<1>2. /\ \A w \in Workers : pc[w] = "idle"
      /\ \A p \in Passers \cup Callers \cup Handlers : pc[p] = "idle"
  BY <1>1, ProcsAssumption DEF Procs
<1>3. QuietInv
  BY <1>1, <1>2 DEF QuietInv, OneShot, Init
<1>4. OutcomeInv
  BY <1>2 DEF OutcomeInv, Init, ActivePcs
<1>5. EndInv
  BY <1>1, <1>2 DEF EndInv, Exited, Init
<1>6. QED BY <1>3, <1>4, <1>5

LEMMA QuietStep ==
  ASSUME OneShot, TypeInv, QuietInv, [Next]_vars
  PROVE  QuietInv'
<1> USE DEF TypeInv, TypeOK, Goto, Procs, PreTokenPcs, ActivePcs
<1>1. ASSUME NEW w \in Workers, PlanLock(w) \/ Collect(w) PROVE QuietInv'
  <2>1. CASE PlanLock(w)
    BY <2>1, ProcsAssumption DEF QuietInv, PlanLock
  <2>2. CASE Collect(w)
    <3>1. PICK t \in todo[w] :
            LET found == toInvalidate \cup {u \in {t} : Collectable(u)} IN
            IF todo[w] = {t} THEN Planned(w, found) ELSE toInvalidate' = found /\ UNCHANGED <<mu, pc>>
      BY <2>2 DEF Collect
    <3>2. {u \in {t} : Collectable(u)} = {}
      BY DEF Collectable, QuietInv
    <3>3. toInvalidate' = {} /\ (UNCHANGED pc \/ pc' = [pc EXCEPT ![w] = "pass"])
      BY <3>1, <3>2, ProcsAssumption DEF QuietInv, Planned, AfterPlan
    <3>4. QED BY <2>2, <3>3, ProcsAssumption DEF QuietInv, Collect
  <2>3. QED BY <1>1, <2>1, <2>2
<1>2. ASSUME NEW p \in Workers \cup {Main}, Pass(p) PROVE QuietInv'
  <2>1. AfterPass(p) = IF p = Main THEN "wait" ELSE "leave"
    BY ProcsAssumption DEF AfterPass
  <2>2. CASE PassCheck(p) \/ PassLock(p) \/ PassSkip(p)
    <3>1. pc' = [pc EXCEPT ![p] = pc'[p]] /\ pc'[p] \in {"passLock", "visit", AfterPass(p)}
      BY <2>2 DEF PassCheck, PassLock, PassSkip, VisitedPc
    <3>2. QED BY <2>1, <2>2, <3>1, ProcsAssumption DEF QuietInv, PassCheck, PassLock, PassSkip
  <2>3. CASE PassLaunch(p)
    <3>1. PICK t \in todo[p], w \in Workers :
             pc[w] = "idle" /\ pc' = [pc EXCEPT ![w] = "launched", ![p] = VisitedPc(p, t)]
      BY <2>3 DEF PassLaunch
    <3>2. VisitedPc(p, t) \in {"visit", AfterPass(p)}
      BY DEF VisitedPc
    <3>3. QED BY <2>1, <2>3, <3>1, <3>2, ProcsAssumption DEF QuietInv, PassLaunch
  <2>4. QED BY <1>2, <2>2, <2>3 DEF Pass
<1>3. ASSUME NEW w \in Workers, Worker(w), ~ KeepAliveCheck(w) PROVE QuietInv'
  <2>1. /\ pc' = [pc EXCEPT ![w] = pc'[w]]
        /\ pc'[w] \in PreTokenPcs \cup {"plan", "pass", "leave", "idle"}
    BY <1>3 DEF Worker, Begin, Return, Flush, SendTerminal, Leave, OneShot, AfterInvalidate
  <2>2. \A v \in Workers : ~ stale'[v]
    BY <1>3 DEF QuietInv, Worker, Begin, Return, Flush, SendTerminal, Leave
  <2>3. UNCHANGED <<ctxDone, pending, toInvalidate, invalidationCh, timer, watcher>>
    BY <1>3 DEF Worker, Begin, Return, Flush, SendTerminal, Leave
  <2>4. QED BY <2>1, <2>2, <2>3, ProcsAssumption DEF QuietInv
<1>4. CASE LoopStop
  BY <1>4, ProcsAssumption DEF QuietInv, LoopStop
<1>5. CASE RunStep
  BY <1>5, ProcsAssumption DEF QuietInv, RunStep, RunBuild, RunStart, RunEarlyReturn, RunWait
<1>6. CASE Interrupt \/ UNCHANGED vars
  BY <1>6 DEF QuietInv, Interrupt, vars
<1>7. QED BY <1>1, <1>2, <1>3, <1>4, <1>5, <1>6, QuietNext

\* Steps that report nothing and neither start nor end a run.
LEMMA OutcomeFrame ==
  ASSUME OutcomeInv,
         UNCHANGED <<state, failed, job, err>>,
         \A w \in Workers :
           \/ pc'[w] = pc[w]
           \/ /\ pc[w] \notin ActivePcs \cup {"idle"}
              /\ pc'[w] \notin ActivePcs \cup {"idle"}
  PROVE  OutcomeInv'
  BY DEF OutcomeInv, Failing, ActivePcs

LEMMA OutcomeStep ==
  ASSUME OneShot, OneRunInv, QuietInv, rootDone \/ OutcomeInv, [Next]_vars
  PROVE  (rootDone \/ OutcomeInv)'
<1>0. rootDone => rootDone'
  BY RootStep
<1> SUFFICES ASSUME ~ rootDone, ~ rootDone', OutcomeInv PROVE OutcomeInv'
  BY <1>0
<1> USE DEF OneRunInv, TypeInv, TypeOK, Goto, Procs
<1>1. ASSUME NEW w \in Workers, PlanLock(w) \/ Collect(w) PROVE OutcomeInv'
  <2>1. /\ pc[w] \in {"plan", "collect"}
        /\ pc'[w] \in {"collect", "invalidating", "pass"}
        /\ \A v \in Workers \ {w} : pc'[v] = pc[v]
        /\ UNCHANGED <<state, failed, job, err>>
    BY <1>1, ProcsAssumption DEF PlanLock, Collect, Planned, AfterPlan
  <2>2. QED BY <2>1, OutcomeFrame DEF ActivePcs
<1>2. ASSUME NEW p \in Workers \cup {Main}, Pass(p) PROVE OutcomeInv'
  <2>1. AfterPass(p) \in {"wait", "leave"}
    BY ProcsAssumption DEF AfterPass
  <2>2. CASE PassCheck(p) \/ PassLock(p) \/ PassSkip(p)
    <3>1. /\ pc[p] \in {"pass", "passLock", "visit"}
          /\ pc'[p] \in {"passLock", "visit", "wait", "leave"}
          /\ \A v \in Workers \ {p} : pc'[v] = pc[v]
          /\ UNCHANGED <<state, failed, job, err>>
      BY <2>1, <2>2 DEF PassCheck, PassLock, PassSkip, VisitedPc
    <3>2. QED BY <3>1, OutcomeFrame DEF ActivePcs
  <2>3. CASE PassLaunch(p)
    <3>1. PICK t \in todo[p], w \in Workers :
            /\ ShouldExecute(t)
            /\ pc[w] = "idle"
            /\ state' = [state EXCEPT ![t] = "running"]
            /\ job' = [job EXCEPT ![w] = t]
            /\ pc' = [pc EXCEPT ![w] = "launched", ![p] = VisitedPc(p, t)]
      BY <2>3 DEF PassLaunch
    <3>2. /\ t \in Tasks /\ state[t] = "invalid"
          /\ pc[p] = "visit" /\ p # w
          /\ VisitedPc(p, t) \in {"visit", "wait", "leave"}
          /\ UNCHANGED <<failed, err>>
          /\ ~ err[w]
      BY <2>1, <2>3, <3>1 DEF PassLaunch, ShouldExecute, VisitedPc, OutcomeInv
    <3>3. \A v \in Workers : pc[v] \in ActivePcs \/ (err[v] /\ pc[v] # "failed") => job[v] # t
      BY <3>2 DEF OutcomeInv
    <3>4. \A v \in Workers \ {w} :
            /\ job'[v] = job[v]
            /\ \/ pc'[v] = pc[v]
               \/ /\ pc[v] \notin ActivePcs \cup {"idle"}
                  /\ pc'[v] \notin ActivePcs \cup {"idle"}
      BY <3>1, <3>2 DEF ActivePcs
    <3>5. pc'[w] = "launched" /\ job'[w] = t /\ ~ err'[w]
      BY <3>1, <3>2
    <3>6. \A u \in Tasks : \A v \in Workers : Failing(v, u) => Failing(v, u)'
      BY <3>1, <3>2, <3>4, <3>5 DEF Failing
    <3>7. /\ \A u \in Tasks \ {t} : state'[u] = state[u]
          /\ state'[t] = "running"
      BY <3>1, <3>2
    <3>8. \A v \in Workers :
            /\ pc'[v] \in ActivePcs => state'[job'[v]] = "running"
            /\ pc'[v] \in {"idle", "launched", "running", "completed"} => ~ err'[v]
            /\ pc'[v] = "failed" => err'[v]
            /\ pc'[v] # "stopped"
            /\ err'[v] /\ pc'[v] # "failed" => job'[v] \in Tasks /\ state'[job'[v]] = "error"
      <4>1. ASSUME NEW v \in Workers \ {w}, job[v] = t
            PROVE  pc'[v] \notin ActivePcs /\ ~ (err'[v] /\ pc'[v] # "failed")
        <5>1. pc[v] \notin ActivePcs /\ (err[v] => pc[v] = "failed")
          BY <3>3, <4>1
        <5>2. pc'[v] \notin ActivePcs
          BY <3>4, <5>1
        <5>3. ~ err[v]
          BY <5>1 DEF ActivePcs
        <5>4. err' = err
          BY <3>2
        <5>5. QED BY <5>2, <5>3, <5>4
      <4>2. ASSUME NEW v \in Workers \ {w}, job[v] # t, job[v] \in Tasks
            PROVE  state'[job'[v]] = state[job[v]]
        BY <3>4, <3>7, <4>2
      <4>3. \A v \in Workers : pc[v] \in ActivePcs => job[v] \in Tasks
        BY DEF LocalInv, PreTokenPcs
      <4>4. \A v \in Workers \ {w} :
              /\ err'[v] = err[v] /\ job'[v] = job[v]
              /\ pc'[v] \in ActivePcs \cup {"idle"} \/ pc[v] \in ActivePcs \cup {"idle"} => pc'[v] = pc[v]
        BY <3>2, <3>4
      <4>5. \A v \in Workers \ {w} :
              /\ pc'[v] \in ActivePcs => state'[job'[v]] = "running"
              /\ err'[v] /\ pc'[v] # "failed" => job'[v] \in Tasks /\ state'[job'[v]] = "error"
        <5>1. SUFFICES ASSUME NEW v \in Workers \ {w}
                       PROVE  /\ pc'[v] \in ActivePcs => state'[job'[v]] = "running"
                              /\ err'[v] /\ pc'[v] # "failed" =>
                                   job'[v] \in Tasks /\ state'[job'[v]] = "error"
          OBVIOUS
        <5>2. pc[v] \in ActivePcs => state[job[v]] = "running"
          BY DEF OutcomeInv
        <5>3. err[v] /\ pc[v] # "failed" => job[v] \in Tasks /\ state[job[v]] = "error"
          BY DEF OutcomeInv
        <5>4. pc'[v] \in ActivePcs => pc[v] \in ActivePcs
          BY <4>4
        <5>5. err'[v] /\ pc'[v] # "failed" => err[v] /\ pc[v] # "failed"
          BY <4>4 DEF ActivePcs
        <5>6. QED BY <4>1, <4>2, <4>3, <4>4, <5>2, <5>3, <5>4, <5>5
      <4>6. \A v \in Workers \ {w} :
              /\ pc'[v] \in {"idle", "launched", "running", "completed"} => ~ err'[v]
              /\ pc'[v] = "failed" => err'[v]
              /\ pc'[v] # "stopped"
        BY <4>4 DEF OutcomeInv, ActivePcs
      <4>7. QED BY <3>5, <3>7, <4>5, <4>6
    <3>9. \A u \in Tasks :
            /\ state'[u] # "canceled"
            /\ state'[u] = "running" => \E v \in Workers : job'[v] = u /\ pc'[v] \in ActivePcs
            /\ state'[u] = "error" => failed' \/ \E v \in Workers : Failing(v, u)'
      <4>1. ASSUME NEW u \in Tasks \ {t}, NEW v \in Workers, job[v] = u, pc[v] \in ActivePcs
            PROVE  job'[v] = u /\ pc'[v] \in ActivePcs
        BY <3>1, <3>4, <4>1 DEF ActivePcs
      <4>2. \A u \in Tasks \ {t} :
              state'[u] = "running" => \E v \in Workers : job'[v] = u /\ pc'[v] \in ActivePcs
        BY <3>7, <4>1 DEF OutcomeInv
      <4>3. pc'[w] \in ActivePcs
        BY <3>5 DEF ActivePcs
      <4>4. \A u \in Tasks \ {t} :
              /\ state'[u] # "canceled"
              /\ state'[u] = "error" => failed' \/ \E v \in Workers : Failing(v, u)'
        BY <3>2, <3>6, <3>7 DEF OutcomeInv
      <4>5. QED BY <3>5, <3>7, <4>2, <4>3, <4>4
    <3>10. failed' => \E u \in Tasks : state'[u] = "error"
      BY <3>2, <3>7 DEF OutcomeInv
    <3>11. QED BY <3>8, <3>9, <3>10 DEF OutcomeInv
  <2>4. QED BY <1>2, <2>2, <2>3 DEF Pass
<1>3. ASSUME NEW w \in Workers, Worker(w), ~ KeepAliveCheck(w) PROVE OutcomeInv'
  <2>1. \A v \in Workers : job[v] \in Tasks => ~ CtxErr(v)
    BY DEF CtxErr, QuietInv
  <2>2. CASE Begin(w)
    BY <2>2 DEF Begin, OutcomeInv, Failing, ActivePcs
  <2>3. CASE Return(w)
    <3>1. job[w] \in Tasks
      BY <2>3 DEF Return, LocalInv, PreTokenPcs, ActivePcs
    <3>2. QED BY <2>1, <2>3, <3>1 DEF Return, OutcomeInv, Failing, ActivePcs
  <2>4. CASE Flush(w)
    <3> DEFINE t == job[w]
    <3>1. /\ t \in Tasks /\ state[t] = "running"
          /\ pc[w] \in {"failed", "completed"}
          /\ pc' = [pc EXCEPT ![w] = "flushed"]
          /\ UNCHANGED <<job, err, failed>>
      BY <2>4 DEF Flush, LocalInv, OutcomeInv, PreTokenPcs, ActivePcs
    <3>2. /\ \A u \in Tasks \ {t} : state'[u] = state[u]
          /\ pc[w] = "failed" => state'[t] = "error" /\ err[w]
          /\ pc[w] = "completed" => state'[t] = "done" /\ ~ err[w]
      BY <2>4, <3>1 DEF Flush, OutcomeInv
    <3>3. \A v \in Workers \ {w} : pc[v] \in ActivePcs => job[v] # t
      BY <3>1 DEF AtMostOneRun, PreTokenPcs, ActivePcs
    <3>4. \A v \in Workers : err[v] /\ pc[v] # "failed" => job[v] # t
      BY <3>1 DEF OutcomeInv
    <3>5. \A v \in Workers :
            /\ pc'[v] \in ActivePcs => state'[job'[v]] = "running"
            /\ pc'[v] \in {"idle", "launched", "running", "completed"} => ~ err'[v]
            /\ pc'[v] = "failed" => err'[v]
            /\ pc'[v] # "stopped"
            /\ err'[v] /\ pc'[v] # "failed" => job'[v] \in Tasks /\ state'[job'[v]] = "error"
      <4>1. ASSUME NEW v \in Workers \ {w}, job[v] # t
            PROVE  job[v] \in Tasks => state'[job[v]] = state[job[v]]
        BY <3>2, <4>1
      <4>2. \A v \in Workers : pc[v] \in ActivePcs => job[v] \in Tasks
        BY DEF LocalInv, PreTokenPcs
      <4>3. QED BY <3>1, <3>2, <3>3, <3>4, <4>1, <4>2 DEF OutcomeInv, ActivePcs
    <3>6. \A u \in Tasks : \A v \in Workers : Failing(v, u) => Failing(v, u)'
      BY <3>1 DEF Failing, ActivePcs
    <3>7. pc[w] = "failed" => Failing(w, t)'
      BY <3>1, <3>2 DEF Failing, ActivePcs
    <3>8. \A u \in Tasks :
            /\ state'[u] # "canceled"
            /\ state'[u] = "running" => \E v \in Workers : job'[v] = u /\ pc'[v] \in ActivePcs
            /\ state'[u] = "error" => failed' \/ \E v \in Workers : Failing(v, u)'
      BY <3>1, <3>2, <3>6, <3>7 DEF OutcomeInv, ActivePcs
    <3>9. failed' => \E u \in Tasks : state'[u] = "error"
      BY <3>1, <3>2 DEF OutcomeInv
    <3>10. QED BY <3>5, <3>8, <3>9 DEF OutcomeInv
  <2>5. CASE SendTerminal(w)
    <3>1. /\ pc[w] = "flushed" /\ pc'[w] \in {"keepAlive", "pass", "plan"}
          /\ \A v \in Workers \ {w} : pc'[v] = pc[v]
          /\ UNCHANGED <<state, failed, job, err>>
      BY <2>5 DEF SendTerminal, AfterInvalidate
    <3>2. QED BY <3>1, OutcomeFrame DEF ActivePcs
  <2>6. CASE Leave(w)
    <3>1. /\ pc[w] = "leave" /\ pc'[w] = "idle" /\ ~ err'[w]
          /\ UNCHANGED state
          /\ \A v \in Workers \ {w} : pc'[v] = pc[v] /\ job'[v] = job[v] /\ err'[v] = err[v]
      BY <2>6 DEF Leave
    <3>2. failed' = (failed \/ err[w])
      BY <2>1, <2>6 DEF Leave, Reports, OutcomeInv
    <3>3. err[w] => job[w] \in Tasks /\ state[job[w]] = "error"
      BY <3>1 DEF OutcomeInv
    <3>4. \A u \in Tasks : \A v \in Workers \ {w} : Failing(v, u) => Failing(v, u)'
      BY <3>1 DEF Failing
    <3>5. \A u \in Tasks :
            /\ state'[u] # "canceled"
            /\ state'[u] = "running" => \E v \in Workers : job'[v] = u /\ pc'[v] \in ActivePcs
            /\ state'[u] = "error" => failed' \/ \E v \in Workers : Failing(v, u)'
      BY <3>1, <3>2, <3>4 DEF OutcomeInv, Failing, ActivePcs
    <3>6. \A v \in Workers :
            /\ pc'[v] \in ActivePcs => state'[job'[v]] = "running"
            /\ pc'[v] \in {"idle", "launched", "running", "completed"} => ~ err'[v]
            /\ pc'[v] = "failed" => err'[v]
            /\ pc'[v] # "stopped"
            /\ err'[v] /\ pc'[v] # "failed" => job'[v] \in Tasks /\ state'[job'[v]] = "error"
      BY <3>1 DEF OutcomeInv, ActivePcs
    <3>7. QED BY <3>1, <3>2, <3>3, <3>5, <3>6 DEF OutcomeInv
  <2>7. QED BY <1>3, <2>2, <2>3, <2>4, <2>5, <2>6 DEF Worker
<1>4. CASE LoopStop \/ RunStep \/ Interrupt \/ UNCHANGED vars
  <2>1. /\ \A w \in Workers : pc'[w] = pc[w]
        /\ UNCHANGED <<state, failed, job, err>>
    BY <1>4, ProcsAssumption DEF LoopStop, RunStep, RunBuild, RunStart, RunEarlyReturn, RunWait,
       Interrupt, vars
  <2>2. QED BY <2>1, OutcomeFrame
<1>5. QED BY <1>1, <1>2, <1>3, <1>4, QuietNext

LEMMA EndStep ==
  ASSUME OneShot, TypeInv, QuietInv, NoForgottenTask, EndInv, [Next]_vars
  PROVE  EndInv'
<1> USE DEF TypeInv, TypeOK, Goto, Procs
<1>0. rootDone => rootDone'
  BY RootStep
<1>1. ASSUME NEW w \in Workers, PlanLock(w) \/ Collect(w) PROVE EndInv'
  <2>1. pc[w] # "idle" /\ UNCHANGED <<state, pc[Main]>>
    BY <1>1, ProcsAssumption DEF PlanLock, Collect, Planned
  <2>2. QED BY <2>1 DEF EndInv, Exited
<1>2. ASSUME NEW p \in Workers, Pass(p) PROVE EndInv'
  <2>1. pc[p] # "idle" /\ UNCHANGED pc[Main]
    BY <1>2, ProcsAssumption DEF Pass, PassCheck, PassLock, PassSkip, PassLaunch
  <2>2. QED BY <2>1 DEF EndInv, Exited
<1>3. CASE Pass(Main)
  <2>1. /\ pc[Main] \in {"pass", "passLock", "visit"}
        /\ pc'[Main] \in {"passLock", "visit", "wait"}
    <3>1. AfterPass(Main) = "wait"
      BY ProcsAssumption DEF AfterPass
    <3>2. QED BY <1>3, <3>1, ProcsAssumption DEF Pass, PassCheck, PassLock, PassSkip, PassLaunch, VisitedPc
  <2>2. QED BY <2>1 DEF EndInv
<1>4. ASSUME NEW w \in Workers, Worker(w) PROVE EndInv'
  <2>1. pc[w] # "idle" /\ UNCHANGED pc[Main]
    BY <1>4, ProcsAssumption DEF Worker, Begin, Return, Flush, SendTerminal, KeepAliveCheck, Leave
  <2>2. QED BY <2>1 DEF EndInv, Exited
<1>5. CASE LoopStop \/ Interrupt \/ UNCHANGED vars
  <2>1. UNCHANGED <<state, pc[Main]>> /\ \A w \in Workers : pc'[w] = pc[w]
    BY <1>5, ProcsAssumption DEF LoopStop, Interrupt, vars
  <2>2. QED BY <1>0, <2>1 DEF EndInv, Exited, ShouldExecute
<1>6. CASE RunStep
  <2>1. /\ UNCHANGED <<state, rootDone>>
        /\ \A w \in Workers : pc'[w] = pc[w]
    BY <1>6, ProcsAssumption DEF RunStep, RunBuild, RunStart, RunEarlyReturn, RunWait
  <2>2. CASE RunBuild \/ RunStart \/ RunEarlyReturn
    BY <2>1, <2>2 DEF RunBuild, RunStart, RunEarlyReturn, EndInv, Exited
  <2>3. CASE RunWait
    <3>1. pc[Main] = "wait" /\ pc'[Main] = "returned" /\ Exited
      BY <2>3 DEF RunWait
    <3>2. \A p \in Procs, t \in Tasks : ~ PassComing(p, t)
      BY <3>1 DEF PassComing, QuietInv, Exited, PreTokenPcs, ActivePcs, RoutinePcs
    <3>3. rootDone \/ \A t \in Tasks : ~ ShouldExecute(t)
      BY <3>1, <3>2 DEF NoForgottenTask
    <3>4. QED BY <2>1, <3>1, <3>3 DEF EndInv, Exited, ShouldExecute
  <2>4. QED BY <1>6, <2>2, <2>3 DEF RunStep
<1>7. QED BY <1>1, <1>2, <1>3, <1>4, <1>5, <1>6, QuietNext

SettledInv == OneRunInv /\ NoForgottenTask /\ QuietInv /\ (rootDone \/ OutcomeInv) /\ EndInv

\* What a pass would not start, though nothing runs, is below a failure.
LEMMA Blocked ==
  ASSUME TypeInv,
         \A t \in Tasks : state[t] \notin {"running", "canceled"},
         \A t \in Tasks : ~ ShouldExecute(t)
  PROVE  \A t \in Tasks : state[t] = "invalid" =>
           \E d \in Dependencies[t] : state[d] = "error"
<1> DEFINE S == {t \in Tasks : /\ state[t] = "invalid"
                               /\ \A d \in Dependencies[t] : state[d] # "error"}
<1>1. SUFFICES ASSUME S # {} PROVE FALSE
  OBVIOUS
<1>2. PICK t \in S : Dependencies[t] \cap S = {}
  BY <1>1, LowestTask, S \in SUBSET Tasks
<1>3. PICK d \in Dependencies[t] : state[d] # "done"
  BY DEF ShouldExecute
<1>4. d \in Tasks
  BY DEF Dependencies
<1>5. state[d] = "invalid"
  BY <1>3, <1>4 DEF TypeInv, TypeOK, States
<1>6. \A e \in Dependencies[d] : e \in Dependencies[t]
  BY <1>4, DagAssumption DEF Dependencies
<1>7. QED BY <1>2, <1>4, <1>5, <1>6

\* Run came to its own end with a task run, nobody interrupted it and nothing is re-run:
\* every task is done, has failed or was not run for being below one that failed, and
\* wg.Wait reports an error exactly when a task has failed (Executor.Run, runPass, the
\* goroutine of a task).
THEOREM OneShotSettles == ASSUME OneShot PROVE Spec => []Settled
<1>1. Init => SettledInv
  BY InitOneRun, InitForgetsNone, InitQuiet DEF SettledInv, ForgetsNone
<1>2. SettledInv /\ [Next]_vars => SettledInv'
  BY OneRunStep, PassStep, QuietStep, OutcomeStep, EndStep DEF SettledInv, OneRunInv
<1>3. SettledInv => Settled
  <2> SUFFICES ASSUME SettledInv, pc[Main] = "returned", ~ rootDone,
                      NEW u \in Tasks, state[u] # "invalid"
               PROVE  /\ \A t \in Tasks :
                           \/ state[t] \in {"done", "error"}
                           \/ state[t] = "invalid" /\ \E d \in Dependencies[t] : state[d] = "error"
                      /\ failed <=> \E t \in Tasks : state[t] = "error"
    BY DEF Settled
  <2>1. /\ TypeInv /\ OutcomeInv /\ Exited
        /\ \A t \in Tasks : ~ ShouldExecute(t)
    BY DEF SettledInv, EndInv, OneRunInv
  <2>2. \A t \in Tasks : state[t] \notin {"running", "canceled"}
    BY <2>1 DEF OutcomeInv, Exited, ActivePcs
  <2>3. failed <=> \E t \in Tasks : state[t] = "error"
    BY <2>1 DEF OutcomeInv, Failing, Exited
  <2>4. \A t \in Tasks : state[t] \in {"invalid", "done", "error"}
    BY <2>1, <2>2 DEF TypeInv, TypeOK, States
  <2>5. QED BY <2>1, <2>2, <2>3, <2>4, Blocked
<1>4. QED BY <1>1, <1>2, <1>3, PTL DEF Spec
=============================================================================
