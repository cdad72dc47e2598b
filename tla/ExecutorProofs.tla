--------------------------- MODULE ExecutorProofs ---------------------------
(***************************************************************************)
(* Theorems about Executor, for every DAG, every set of KeepAlive tasks,   *)
(* every veto and any number of goroutines.                                *)
(***************************************************************************)
EXTENDS Executor, TLAPS

\* The groups of variables an action leaves alone.
USE DEF taskVars, planVars, loopVars, runVars, execVars, locals

-----------------------------------------------------------------------------
(* The DAG *)

\* taskSet.add: what lies below a dependency lies below the task.
LEMMA DependencyChain ==
  ASSUME NEW t \in Tasks, NEW d \in Deps[t]
  PROVE  /\ d \in Tasks
         /\ d \in Dependencies[t]
         /\ Dependencies[d] \subseteq Dependencies[t]
<1>1. d \in Tasks
  BY DagAssumption
<1>2. d \in Dependencies[t]
  BY <1>1, DagAssumption DEF Dependencies
<1>3. ASSUME NEW e \in Dependencies[d] PROVE e \in Dependencies[t]
  <2>1. SUFFICES ASSUME NEW S \in SUBSET Tasks, Deps[t] \subseteq S,
                        \A x \in S : Deps[x] \subseteq S
                 PROVE  e \in S
    BY <1>1, <1>3 DEF Dependencies
  <2>2. Deps[d] \subseteq S
    BY <2>1
  <2>3. QED BY <1>1, <1>3, <2>1, <2>2 DEF Dependencies
<1>4. QED BY <1>1, <1>2, <1>3

\* What lies below a task is a direct dependency, or lies below one.
LEMMA DependencySplit ==
  ASSUME NEW t \in Tasks, NEW e \in Dependencies[t]
  PROVE  \E d \in Deps[t] : e = d \/ e \in Dependencies[d]
<1> DEFINE S == Deps[t] \cup UNION {Dependencies[d] : d \in Deps[t]}
<1>0. \A x \in Tasks : Dependencies[x] \subseteq Tasks
  BY DEF Dependencies
<1>1. S \in SUBSET Tasks
  BY <1>0, DagAssumption
<1>2. ASSUME NEW x \in S PROVE Deps[x] \subseteq S
  <2>1. CASE x \in Deps[t]
    BY <2>1, DependencyChain
  <2>2. ASSUME NEW d \in Deps[t], x \in Dependencies[d] PROVE Deps[x] \subseteq S
    <3>1. d \in Tasks
      BY DagAssumption
    <3>2. Deps[x] \subseteq Dependencies[d]
      <4>0. x \in Tasks /\ Deps[x] \subseteq Tasks
        BY <1>0, <2>2, <3>1, DagAssumption
      <4>1. SUFFICES ASSUME NEW y \in Deps[x], NEW R \in SUBSET Tasks, Deps[d] \subseteq R,
                            \A z \in R : Deps[z] \subseteq R
                     PROVE  y \in R
        BY <3>1, <4>0 DEF Dependencies
      <4>2. x \in R
        BY <2>2, <3>1, <4>1 DEF Dependencies
      <4>3. QED BY <4>1, <4>2
    <3>3. QED BY <3>2
  <2>3. QED BY <2>1, <2>2
<1>3. e \in S
  BY <1>1, <1>2 DEF Dependencies
<1>4. QED BY <1>3

\* Every set of tasks has one with none of the others below it.
LEMMA LowestTask ==
  ASSUME NEW S \in SUBSET Tasks, S # {}
  PROVE  \E t \in S : Dependencies[t] \cap S = {}
<1> DEFINE C == {x \in Tasks : x \in S \/ Dependencies[x] \cap S # {}}
<1>1. PICK m \in C : Deps[m] \cap C = {}
  <2>1. C \in SUBSET Tasks /\ C # {}
    OBVIOUS
  <2>2. QED BY <2>1, AcyclicAssumption
<1>2. Dependencies[m] \cap S = {}
  <2>1. SUFFICES ASSUME NEW e \in S, e \in Dependencies[m] PROVE FALSE
    OBVIOUS
  <2>2. PICK d \in Deps[m] : e = d \/ e \in Dependencies[d]
    BY <2>1, DependencySplit
  <2>3. d \in C
    BY <2>1, <2>2, DagAssumption
  <2>4. QED BY <1>1, <2>3
<1>3. QED BY <1>1, <1>2

\* No task lies below itself.
LEMMA NoCycle ==
  ASSUME NEW t \in Tasks
  PROVE  t \notin Dependencies[t]
<1>1. QED BY LowestTask, {t} # {}, {t} \in SUBSET Tasks

-----------------------------------------------------------------------------
(* Types *)

TypeInv == TypeOK /\ LocalInv

LEMMA InitType == Init => TypeInv
<1> SUFFICES ASSUME Init PROVE TypeInv
  OBVIOUS
<1>1. \A p \in Procs : pc[p] \in {"build", "select", "idle"}
  BY DEF Init
<1>2. TypeOK
  BY <1>1, OptionsAssumption DEF Init, TypeOK, Procs, States, OtherPcs
<1>3. LocalInv
  BY <1>1 DEF LocalInv, PreTokenPcs, ActivePcs, Procs
<1>4. QED BY <1>2, <1>3 DEF TypeInv

LEMMA InvalidateCallType ==
  ASSUME TypeInv, NEW p \in Workers \cup Callers \cup Handlers, InvalidateCall(p)
  PROVE  TypeInv'
<1> USE DEF TypeInv, TypeOK, LocalInv, Goto,
        Procs, States, WorkerPcs, RoutinePcs, OtherPcs, PreTokenPcs, ActivePcs
<1>0. /\ AfterInvalidate(p) \in {"plan", "pass", "idle"}
      /\ AfterMarks(p) \in {"idle", "send"}
  BY DEF AfterInvalidate, AfterMarks
<1>1. CASE SkipMark(p)
  BY <1>0, <1>1 DEF SkipMark, Marked
<1>2. CASE CheckMark(p)
  BY <1>2 DEF CheckMark
<1>3. CASE RecordMark(p)
  <2>1. cur[p] \in Tasks /\ Dependents[cur[p]] \subseteq Tasks
    BY <1>3 DEF RecordMark, Dependents
  <2>2. QED BY <1>0, <1>3, <2>1 DEF RecordMark, Marked
<1>4. CASE Send(p)
  BY <1>0, <1>4 DEF Send
<1>5. QED BY <1>1, <1>2, <1>3, <1>4 DEF InvalidateCall

LEMMA PlanType ==
  ASSUME TypeInv, NEW p \in Workers \cup {Loop}, Plan(p)
  PROVE  TypeInv'
<1> USE DEF TypeInv, TypeOK, LocalInv, Goto,
        Procs, States, WorkerPcs, RoutinePcs, OtherPcs, PreTokenPcs, ActivePcs
<1>0. AfterPlan(p) \in {"spawn", "pass"}
  BY DEF AfterPlan
<1>1. CASE PlanLock(p)
  BY <1>1 DEF PlanLock
<1>2. CASE Collect(p)
  BY <1>0, <1>2 DEF Collect, Planned
<1>3. CASE SkipInvalidate(p)
  BY <1>0, <1>3 DEF SkipInvalidate, Planned
<1>4. CASE CancelRun(p)
  BY <1>4 DEF CancelRun
<1>5. CASE ResetRun(p)
  BY <1>5 DEF ResetRun, WithNewContext
<1>6. CASE DrainRun(p)
  BY <1>0, <1>6 DEF DrainRun, Terminated, Planned
<1>7. QED BY <1>1, <1>2, <1>3, <1>4, <1>5, <1>6 DEF Plan

LEMMA PassType ==
  ASSUME TypeInv, NEW p \in Workers \cup Passers \cup {Main}, Pass(p)
  PROVE  TypeInv'
<1> USE DEF TypeInv, TypeOK, LocalInv, Goto,
        Procs, States, WorkerPcs, RoutinePcs, OtherPcs, PreTokenPcs, ActivePcs
<1>0. AfterPass(p) \in {"leave", "wait", "idle"}
  BY DEF AfterPass
<1>1. CASE PassCheck(p)
  BY <1>0, <1>1 DEF PassCheck
<1>2. CASE PassLock(p)
  BY <1>2 DEF PassLock
<1>3. CASE PassSkip(p)
  BY <1>0, <1>3 DEF PassSkip, Visited, VisitedPc
<1>4. CASE PassLaunch(p)
  BY <1>0, <1>4 DEF PassLaunch, Visited, VisitedPc
<1>5. QED BY <1>1, <1>2, <1>3, <1>4 DEF Pass

LEMMA WorkerType ==
  ASSUME TypeInv, NEW w \in Workers, Worker(w)
  PROVE  TypeInv'
<1> USE DEF TypeInv, TypeOK, LocalInv, Goto,
        Procs, States, WorkerPcs, RoutinePcs, OtherPcs, PreTokenPcs, ActivePcs
<1>0. AfterInvalidate(w) \in {"plan", "pass", "idle"}
  BY DEF AfterInvalidate
<1>1. CASE Begin(w)
  BY <1>1 DEF Begin
<1>2. CASE Return(w)
  BY <1>2 DEF Return
<1>3. CASE Flush(w)
  BY <1>3 DEF Flush
<1>4. CASE SendTerminal(w)
  BY <1>0, <1>4 DEF SendTerminal
<1>5. CASE KeepAliveCheck(w)
  BY <1>0, <1>5 DEF KeepAliveCheck, Restarts
<1>6. CASE Leave(w)
  BY <1>6 DEF Leave, Reports, CtxErr
<1>7. QED BY <1>1, <1>2, <1>3, <1>4, <1>5, <1>6 DEF Worker

LEMMA OtherType ==
  ASSUME TypeInv, LoopStep \/ RunStep \/ Environment
  PROVE  TypeInv'
<1> USE DEF TypeInv, TypeOK, LocalInv, Goto,
        Procs, States, WorkerPcs, RoutinePcs, OtherPcs, PreTokenPcs, ActivePcs
<1>1. CASE LoopStep
  <2>1. CASE LoopReceive \/ LoopStop \/ LoopTimer
    BY <2>1 DEF LoopReceive, LoopStop, LoopTimer
  <2>2. CASE LoopSpawn
    BY <2>2 DEF LoopSpawn
  <2>3. QED BY <1>1, <2>1, <2>2 DEF LoopStep
<1>2. CASE RunStep
  BY <1>2 DEF RunStep, RunBuild, RunStart, RunEarlyReturn, RunWait
<1>3. ASSUME NEW p \in Callers \cup Handlers, NEW t \in External, CallInvalidate(p, t)
      PROVE  TypeInv'
  BY <1>3, OptionsAssumption DEF CallInvalidate
<1>4. CASE TimerFires \/ WatcherExit \/ Interrupt
  BY <1>4 DEF TimerFires, WatcherExit, Interrupt
<1>5. QED BY <1>1, <1>2, <1>3, <1>4 DEF Environment

LEMMA NextType == TypeInv /\ [Next]_vars => TypeInv'
<1> SUFFICES ASSUME TypeInv, [Next]_vars PROVE TypeInv'
  OBVIOUS
<1>1. CASE UNCHANGED vars
  BY <1>1 DEF vars, TypeInv, TypeOK, LocalInv
<1>2. CASE Next
  BY <1>2, InvalidateCallType, PlanType, PassType, WorkerType, OtherType DEF Next
<1>3. QED BY <1>1, <1>2

\* Every variable keeps its type, and a goroutine that is about to run, mark
\* or invalidate a task has one.
THEOREM TypeCorrect == Spec => [](TypeOK /\ LocalInv)
<1>1. QED BY InitType, NextType, PTL DEF Spec, TypeInv

-----------------------------------------------------------------------------
(* The mutex, and one run at a time *)

LEMMA LockStep ==
  ASSUME TypeInv, LockInv, [Next]_vars
  PROVE  LockInv'
<1> USE DEF LockInv, CriticalPcs, TypeInv, TypeOK, Goto, Procs
<1>1. ASSUME NEW p \in Workers \cup Callers \cup Handlers, InvalidateCall(p)
      PROVE  LockInv'
  BY <1>1 DEF InvalidateCall, SkipMark, CheckMark, RecordMark, Send, Marked,
     AfterInvalidate, AfterMarks
<1>2. ASSUME NEW p \in Workers \cup {Loop}, Plan(p) PROVE LockInv'
  <2>0. AfterPlan(p) \notin CriticalPcs
    BY DEF AfterPlan
  <2>1. CASE PlanLock(p)
    BY <2>1, ProcsAssumption DEF PlanLock
  <2>2. CASE Collect(p)
    BY <2>0, <2>2 DEF Collect, Planned
  <2>3. CASE SkipInvalidate(p)
    BY <2>0, <2>3 DEF SkipInvalidate, Planned
  <2>4. CASE CancelRun(p) \/ ResetRun(p)
    BY <2>4 DEF CancelRun, ResetRun
  <2>5. CASE DrainRun(p)
    BY <2>0, <2>5 DEF DrainRun, Terminated, Planned
  <2>6. QED BY <1>2, <2>1, <2>2, <2>3, <2>4, <2>5 DEF Plan
<1>3. ASSUME NEW p \in Workers \cup Passers \cup {Main}, Pass(p) PROVE LockInv'
  <2>0. AfterPass(p) \notin CriticalPcs
    BY DEF AfterPass
  <2>1. CASE PassCheck(p)
    BY <2>0, <2>1 DEF PassCheck
  <2>2. CASE PassLock(p)
    BY <2>2, ProcsAssumption DEF PassLock
  <2>3. CASE PassSkip(p)
    BY <2>0, <2>3 DEF PassSkip, Visited, VisitedPc
  <2>4. CASE PassLaunch(p)
    BY <2>0, <2>4 DEF PassLaunch, Visited, VisitedPc
  <2>5. QED BY <1>3, <2>1, <2>2, <2>3, <2>4 DEF Pass
<1>4. ASSUME NEW w \in Workers, Worker(w) PROVE LockInv'
  BY <1>4 DEF Worker, Begin, Return, Flush, SendTerminal, KeepAliveCheck, Leave,
     AfterInvalidate
<1>5. CASE LoopStep \/ RunStep \/ Environment
  BY <1>5 DEF LoopStep, LoopReceive, LoopStop, LoopTimer, LoopSpawn, RunStep, RunBuild,
     RunStart, RunEarlyReturn, RunWait, Environment, CallInvalidate, TimerFires,
     WatcherExit, Interrupt
<1>6. CASE UNCHANGED vars
  BY <1>6 DEF vars
<1>7. QED BY <1>1, <1>2, <1>3, <1>4, <1>5, <1>6 DEF Next

LEMMA InitInv == Init => LockInv /\ TokenInv
<1> SUFFICES ASSUME Init PROVE LockInv /\ TokenInv
  OBVIOUS
<1>1. \A p \in Procs : pc[p] \in {"build", "select", "idle"}
  BY DEF Init
<1>2. QED
  BY <1>1 DEF Init, LockInv, CriticalPcs, TokenInv, PreTokenPcs, ActivePcs, Procs

\* Steps that leave a run where it is: no task, worker or plan moves in or out
\* of what TokenInv speaks of.
LEMMA TokenFrame ==
  ASSUME TypeInv, TokenInv,
         UNCHANGED <<state, terminalCh>>,
         \A w \in Workers : pc'[w] \in PreTokenPcs =>
           pc[w] \in PreTokenPcs /\ job'[w] = job[w],
         \A w \in Workers : pc'[w] \in ActivePcs => pc[w] \in ActivePcs,
         \A p \in Procs : pc[p] = "drain" => pc'[p] = "drain" /\ cur'[p] = cur[p]
  PROVE  TokenInv'
  BY DEF TokenInv, TypeInv, TypeOK, PreTokenPcs

LEMMA TokenStep ==
  ASSUME TypeInv, LockInv, TokenInv, AtMostOneRun, [Next]_vars
  PROVE  TokenInv' /\ AtMostOneRun'
<1> USE DEF TypeInv, TypeOK, Goto, PreTokenPcs, ActivePcs, Procs
<1>1. ASSUME NEW p \in Workers \cup Callers \cup Handlers, InvalidateCall(p)
      PROVE  TokenInv' /\ AtMostOneRun'
  <2>1. /\ AfterInvalidate(p) \notin PreTokenPcs \cup {"drain"}
        /\ AfterMarks(p) \notin PreTokenPcs \cup {"drain"}
    BY DEF AfterInvalidate, AfterMarks
  <2>2. UNCHANGED <<state, terminalCh>>
    BY <1>1 DEF InvalidateCall, SkipMark, CheckMark, RecordMark, Send
  <2>3. /\ pc[p] \in {"invalidate", "record", "send"}
        /\ pc'[p] \notin PreTokenPcs
        /\ \A q \in Procs \ {p} : pc'[q] = pc[q] /\ cur'[q] = cur[q] /\ job'[q] = job[q]
    BY <1>1, <2>1 DEF InvalidateCall, SkipMark, CheckMark, RecordMark, Send, Marked
  <2>4. QED BY <2>2, <2>3, TokenFrame DEF AtMostOneRun
<1>2. ASSUME NEW p \in Workers \cup {Loop}, Plan(p)
      PROVE  TokenInv' /\ AtMostOneRun'
  <2>1. AfterPlan(p) \notin PreTokenPcs \cup {"drain"}
    BY DEF AfterPlan
  <2>2. /\ pc[p] \notin PreTokenPcs
        /\ pc'[p] \notin PreTokenPcs
        /\ job' = job
        /\ \A q \in Procs \ {p} : pc'[q] = pc[q] /\ cur'[q] = cur[q]
    BY <1>2, <2>1 DEF Plan, PlanLock, Collect, SkipInvalidate, CancelRun, ResetRun,
       DrainRun, Planned
  <2>3. CASE PlanLock(p) \/ Collect(p) \/ SkipInvalidate(p) \/ CancelRun(p)
    <3>1. UNCHANGED <<state, terminalCh>> /\ pc[p] # "drain"
      BY <2>3 DEF PlanLock, Collect, SkipInvalidate, CancelRun
    <3>2. QED BY <2>2, <3>1, TokenFrame DEF AtMostOneRun
  <2>4. CASE ResetRun(p)
    BY <2>2, <2>4 DEF ResetRun, TokenInv, AtMostOneRun, LocalInv
  <2>5. CASE DrainRun(p)
    <3>1. \A w \in Workers : pc[w] \in PreTokenPcs => job[w] # cur[p]
      BY <2>5 DEF DrainRun, Terminated, TokenInv
    <3>2. QED BY <2>1, <2>2, <2>5, <3>1 DEF DrainRun, Terminated, Planned, TokenInv, AtMostOneRun
  <2>6. QED BY <1>2, <2>3, <2>4, <2>5 DEF Plan
<1>3. ASSUME NEW p \in Workers \cup Passers \cup {Main}, Pass(p)
      PROVE  TokenInv' /\ AtMostOneRun'
  <2>1. AfterPass(p) \notin PreTokenPcs \cup {"drain"}
    BY DEF AfterPass
  <2>2. CASE PassCheck(p) \/ PassLock(p) \/ PassSkip(p)
    <3>1. /\ UNCHANGED <<state, terminalCh, cur, job>>
          /\ pc[p] # "drain"
          /\ pc'[p] \notin PreTokenPcs
          /\ \A q \in Procs \ {p} : pc'[q] = pc[q]
      BY <2>1, <2>2 DEF PassCheck, PassLock, PassSkip, Visited, VisitedPc
    <3>2. QED BY <3>1, TokenFrame DEF AtMostOneRun
  <2>3. CASE PassLaunch(p)
    <3>1. PICK t \in todo[p], w \in Workers :
            /\ ShouldExecute(t)
            /\ pc[w] = "idle"
            /\ state' = [state EXCEPT ![t] = "running"]
            /\ job' = [job EXCEPT ![w] = t]
            /\ pc' = [pc EXCEPT ![w] = "launched", ![p] = VisitedPc(p, t)]
      BY <2>3 DEF PassLaunch
    <3>2. /\ t \in Tasks
          /\ p # w
          /\ pc[p] = "visit"
          /\ VisitedPc(p, t) \notin PreTokenPcs \cup {"drain"}
          /\ UNCHANGED <<terminalCh, cur>>
      BY <2>1, <2>3, <3>1 DEF PassLaunch, VisitedPc
    <3>3. \A q \in Procs : pc[q] # "drain"
      BY <3>2 DEF LockInv, CriticalPcs
    <3>4. t \notin terminalCh /\ \A v \in Workers : pc[v] \in PreTokenPcs => job[v] # t
      BY <3>1, <3>2, <3>3 DEF ShouldExecute, TokenInv
    <3>5. QED BY <3>1, <3>2, <3>3, <3>4 DEF TokenInv, AtMostOneRun
  <2>4. QED BY <1>3, <2>2, <2>3 DEF Pass
<1>4. ASSUME NEW w \in Workers, Worker(w)
      PROVE  TokenInv' /\ AtMostOneRun'
  <2>1. AfterInvalidate(w) \notin PreTokenPcs \cup {"drain"}
    BY DEF AfterInvalidate
  <2>2. CASE Begin(w) \/ Return(w) \/ KeepAliveCheck(w) \/ Leave(w)
    <3>1. /\ UNCHANGED <<state, terminalCh, cur>>
          /\ pc[w] # "drain"
          /\ pc'[w] \in ActivePcs => pc[w] \in ActivePcs /\ job'[w] = job[w]
          /\ pc'[w] # "flushed"
          /\ \A q \in Procs \ {w} : pc'[q] = pc[q] /\ job'[q] = job[q]
      BY <2>1, <2>2 DEF Begin, Return, KeepAliveCheck, Leave
    <3>2. QED BY <3>1, TokenFrame DEF AtMostOneRun
  <2>3. CASE Flush(w)
    BY <2>3 DEF Flush, TokenInv, AtMostOneRun, LocalInv
  <2>4. CASE SendTerminal(w)
    BY <2>1, <2>4 DEF SendTerminal, TokenInv, AtMostOneRun, LocalInv
  <2>5. QED BY <1>4, <2>2, <2>3, <2>4 DEF Worker
<1>5. CASE LoopStep \/ RunStep \/ Environment
  <2>1. /\ UNCHANGED <<state, terminalCh>>
        /\ UNCHANGED cur
        /\ \A q \in Procs : pc[q] = "drain" => pc'[q] = "drain"
        /\ \A w \in Workers : pc'[w] = pc[w] /\ job'[w] = job[w]
    BY <1>5, ProcsAssumption DEF LoopStep, LoopReceive, LoopStop, LoopTimer, LoopSpawn,
       RunStep, RunBuild, RunStart, RunEarlyReturn, RunWait, Environment, CallInvalidate,
       TimerFires, WatcherExit, Interrupt
  <2>2. QED BY <2>1, TokenFrame DEF AtMostOneRun
<1>6. CASE UNCHANGED vars
  BY <1>6 DEF vars, TokenInv, AtMostOneRun
<1>7. QED BY <1>1, <1>2, <1>3, <1>4, <1>5, <1>6 DEF Next

OneRunInv == TypeInv /\ LockInv /\ TokenInv /\ AtMostOneRun

LEMMA InitOneRun == Init => OneRunInv
  BY InitType, InitInv DEF OneRunInv, AtMostOneRun, Init, PreTokenPcs, ActivePcs, Procs

LEMMA OneRunStep == OneRunInv /\ [Next]_vars => OneRunInv'
  BY NextType, LockStep, TokenStep DEF OneRunInv

\* Two goroutines never run the same task at once, however many invalidations,
\* restarts and interrupts there are (runPass, taskExecution.invalidate).
THEOREM OneRunAtATime == Spec => []AtMostOneRun
<1>1. OneRunInv => AtMostOneRun
  BY DEF OneRunInv
<1>2. QED BY InitOneRun, OneRunStep, <1>1, PTL DEF Spec

\* What makes it so: terminalCh is empty while a run of the task is under way, and a task
\* is invalid only with no run under way, or with the plan waiting for the run's end.
THEOREM TokenDiscipline == Spec => []TokenInv
<1>1. OneRunInv => TokenInv
  BY DEF OneRunInv
<1>2. QED BY InitOneRun, OneRunStep, <1>1, PTL DEF Spec

-----------------------------------------------------------------------------
(* Contexts *)

\* taskSet.add: what lies below t among the contexts lies below it in the DAG.
LEMMA CtxBelowIsDependency ==
  \A t \in Tasks : CtxBelow[t] \subseteq Dependencies[t]
<1> SUFFICES ASSUME NEW t \in Tasks, NEW d \in CtxBelow[t] PROVE d \in Dependencies[t]
  OBVIOUS
<1> DEFINE D == Dependencies[t]
<1>1. D \in SUBSET Tasks
  BY DEF Dependencies
<1>2. Deps[t] \subseteq D
  BY DagAssumption DEF Dependencies
<1>3. \A y \in D : Deps[y] \subseteq D
  BY DagAssumption DEF Dependencies
<1>4. \A x \in Tasks : CtxParent[x] \in D \cup {t} => x \in D
  BY <1>1, <1>2, <1>3, DagAssumption
<1>5. QED BY <1>1, <1>4 DEF CtxBelow

LEMMA ContextFrame ==
  ASSUME ContextInv,
         UNCHANGED <<state, ctxDone, inherited>>,
         \A p \in Procs : pc'[p] = "drain" => pc[p] = "drain" /\ cur'[p] = cur[p]
  PROVE  ContextInv'
  BY DEF ContextInv

LEMMA ContextStep ==
  ASSUME TypeInv, LockInv, TokenInv, ContextInv, [Next]_vars
  PROVE  ContextInv'
<1> USE DEF TypeInv, TypeOK, Goto, Procs
<1>1. ASSUME NEW p \in Workers \cup Callers \cup Handlers, InvalidateCall(p)
      PROVE  ContextInv'
  <2>1. AfterInvalidate(p) # "drain" /\ AfterMarks(p) # "drain"
    BY DEF AfterInvalidate, AfterMarks
  <2>2. /\ UNCHANGED <<state, ctxDone, inherited>>
        /\ pc'[p] # "drain"
        /\ \A q \in Procs \ {p} : pc'[q] = pc[q] /\ cur'[q] = cur[q]
    BY <1>1, <2>1 DEF InvalidateCall, SkipMark, CheckMark, RecordMark, Send, Marked
  <2>3. QED BY <2>2, ContextFrame
<1>2. ASSUME NEW p \in Workers \cup {Loop}, Plan(p) PROVE ContextInv'
  <2>1. AfterPlan(p) # "drain"
    BY DEF AfterPlan
  <2>2. \A q \in Procs \ {p} : pc'[q] = pc[q] /\ cur'[q] = cur[q]
    BY <1>2 DEF Plan, PlanLock, Collect, SkipInvalidate, CancelRun, ResetRun, DrainRun, Terminated,
       Planned
  <2>3. CASE PlanLock(p) \/ Collect(p) \/ SkipInvalidate(p) \/ DrainRun(p)
    <3>1. UNCHANGED <<state, ctxDone, inherited>> /\ pc'[p] # "drain"
      BY <2>1, <2>3 DEF PlanLock, Collect, SkipInvalidate, DrainRun, Terminated, Planned
    <3>2. QED BY <2>2, <3>1, ContextFrame
  <2>4. CASE CancelRun(p)
    <3>1. /\ UNCHANGED <<state, inherited>>
          /\ pc'[p] # "drain"
      BY <2>4 DEF CancelRun
    <3>2. ASSUME NEW u \in Tasks, state[u] = "invalid" PROVE ~ ctxDone'[u]
      BY <2>4, <3>2 DEF CancelRun, ContextInv
    <3>3. QED BY <2>2, <3>1, <3>2 DEF ContextInv
  <2>5. CASE ResetRun(p)
    BY <2>2, <2>5 DEF ResetRun, WithNewContext, ContextInv, LocalInv
  <2>6. QED BY <1>2, <2>3, <2>4, <2>5 DEF Plan
<1>3. ASSUME NEW p \in Workers \cup Passers \cup {Main}, Pass(p) PROVE ContextInv'
  <2>1. AfterPass(p) # "drain"
    BY DEF AfterPass
  <2>2. CASE PassCheck(p) \/ PassLock(p) \/ PassSkip(p)
    <3>1. /\ UNCHANGED <<state, ctxDone, inherited, cur>>
          /\ pc'[p] # "drain"
          /\ \A q \in Procs \ {p} : pc'[q] = pc[q]
      BY <2>1, <2>2 DEF PassCheck, PassLock, PassSkip, Visited, VisitedPc
    <3>2. QED BY <3>1, ContextFrame
  <2>3. CASE PassLaunch(p)
    <3>1. PICK t \in Tasks, w \in Workers :
            /\ ShouldExecute(t)
            /\ pc[w] = "idle"
            /\ state' = [state EXCEPT ![t] = "running"]
            /\ pc' = [pc EXCEPT ![w] = "launched", ![p] = VisitedPc(p, t)]
      BY <2>3 DEF PassLaunch
    <3>2. /\ VisitedPc(p, t) # "drain"
          /\ UNCHANGED <<ctxDone, inherited, cur>>
      BY <2>1, <2>3 DEF PassLaunch, VisitedPc
    <3>3. \A u \in CtxBelow[t] : state[u] # "invalid"
      BY <3>1, CtxBelowIsDependency DEF ShouldExecute
    <3>4. \A q \in Procs : pc'[q] = "drain" => pc[q] = "drain"
      BY <3>1, <3>2
    <3>5. QED BY <3>1, <3>2, <3>3, <3>4 DEF ContextInv
  <2>4. QED BY <1>3, <2>2, <2>3 DEF Pass
<1>4. ASSUME NEW w \in Workers, Worker(w) PROVE ContextInv'
  <2>1. AfterInvalidate(w) # "drain"
    BY DEF AfterInvalidate
  <2>2. CASE Begin(w) \/ Return(w) \/ SendTerminal(w) \/ KeepAliveCheck(w) \/ Leave(w)
    <3>1. /\ UNCHANGED <<state, ctxDone, inherited, cur>>
          /\ pc'[w] # "drain"
          /\ \A q \in Procs \ {w} : pc'[q] = pc[q]
      BY <2>1, <2>2 DEF Begin, Return, SendTerminal, KeepAliveCheck, Leave
    <3>2. QED BY <3>1, ContextFrame
  <2>3. CASE Flush(w)
    <3>1. /\ UNCHANGED <<ctxDone, inherited, cur>>
          /\ pc'[w] # "drain"
          /\ \A q \in Procs \ {w} : pc'[q] = pc[q]
      BY <2>3 DEF Flush
    <3>2. \A u \in Tasks : u # job[w] => state'[u] = state[u]
      BY <2>3 DEF Flush
    <3>3. state[job[w]] # "invalid" => state'[job[w]] # "invalid"
      BY <2>3 DEF Flush, LocalInv, PreTokenPcs, ActivePcs
    <3>4. state[job[w]] = "invalid" => job[w] \notin inherited
      BY <2>3 DEF Flush, LocalInv, TokenInv, ContextInv, PreTokenPcs, ActivePcs
    <3>5. QED BY <3>1, <3>2, <3>3, <3>4 DEF ContextInv
  <2>4. QED BY <1>4, <2>2, <2>3 DEF Worker
<1>5. CASE LoopStep \/ RunStep \/ Environment
  <2>1. /\ UNCHANGED <<state, ctxDone, inherited, cur>>
        /\ \A q \in Procs : pc'[q] = "drain" => pc[q] = "drain"
    BY <1>5 DEF LoopStep, LoopReceive, LoopStop, LoopTimer, LoopSpawn,
       RunStep, RunBuild, RunStart, RunEarlyReturn, RunWait, Environment, CallInvalidate,
       TimerFires, WatcherExit, Interrupt
  <2>2. QED BY <2>1, ContextFrame
<1>6. CASE UNCHANGED vars
  BY <1>6, ContextFrame DEF vars
<1>7. QED BY <1>1, <1>2, <1>3, <1>4, <1>5, <1>6 DEF Next

\* A run that goes on keeps its task, and once it is cancelled it stays so: the plan that
\* replaces the context of its task makes it stale.
LEMMA RunStaysCancelled ==
  ASSUME TypeInv, [Next]_vars, NEW w \in Workers, pc[w] = "running", pc'[w] = "running"
  PROVE  /\ job'[w] = job[w] /\ job[w] \in Tasks
         /\ CtxErr(w) => CtxErr(w)'
<1> USE DEF TypeInv, TypeOK, Goto, Procs
<1>0. job[w] \in Tasks /\ w \in Procs
  BY DEF LocalInv, PreTokenPcs, ActivePcs
<1>1. ASSUME NEW p \in Workers \cup Callers \cup Handlers, InvalidateCall(p)
      PROVE  job'[w] = job[w] /\ (CtxErr(w) => CtxErr(w)')
  <2>1. p # w
    BY <1>1 DEF InvalidateCall, SkipMark, CheckMark, RecordMark, Send
  <2>2. QED BY <1>0, <1>1, <2>1 DEF InvalidateCall, SkipMark, CheckMark, RecordMark, Send, Marked, CtxErr
<1>2. ASSUME NEW p \in Workers \cup {Loop}, Plan(p)
      PROVE  job'[w] = job[w] /\ (CtxErr(w) => CtxErr(w)')
  <2>1. CASE CancelRun(p)
    BY <1>0, <2>1 DEF CancelRun, CtxErr
  <2>2. CASE ResetRun(p)
    BY <1>0, <2>2 DEF ResetRun, WithNewContext, CtxErr
  <2>3. CASE PlanLock(p) \/ Collect(p) \/ SkipInvalidate(p) \/ DrainRun(p)
    BY <1>0, <2>3 DEF PlanLock, Collect, SkipInvalidate, DrainRun, CtxErr
  <2>4. QED BY <1>2, <2>1, <2>2, <2>3 DEF Plan
<1>3. ASSUME NEW p \in Workers \cup Passers \cup {Main}, Pass(p)
      PROVE  job'[w] = job[w] /\ (CtxErr(w) => CtxErr(w)')
  <2>1. CASE PassLaunch(p)
    BY <1>0, <2>1 DEF PassLaunch, CtxErr
  <2>2. CASE PassCheck(p) \/ PassLock(p) \/ PassSkip(p)
    BY <1>0, <2>2 DEF PassCheck, PassLock, PassSkip, CtxErr
  <2>3. QED BY <1>3, <2>1, <2>2 DEF Pass
<1>4. ASSUME NEW v \in Workers, Worker(v)
      PROVE  job'[w] = job[w] /\ (CtxErr(w) => CtxErr(w)')
  <2>1. CASE Leave(v)
    BY <1>0, <2>1 DEF Leave, CtxErr
  <2>2. CASE Begin(v) \/ Return(v) \/ Flush(v) \/ SendTerminal(v) \/ KeepAliveCheck(v)
    BY <1>0, <2>2 DEF Begin, Return, Flush, SendTerminal, KeepAliveCheck, CtxErr
  <2>3. QED BY <1>4, <2>1, <2>2 DEF Worker
<1>5. CASE LoopStep \/ RunStep
  BY <1>0, <1>5 DEF LoopStep, LoopReceive, LoopStop, LoopTimer, LoopSpawn, RunStep, RunBuild,
     RunStart, RunEarlyReturn, RunWait, CtxErr
<1>6. CASE Environment
  BY <1>0, <1>6 DEF Environment, CallInvalidate, TimerFires, WatcherExit, Interrupt, CtxErr
<1>7. CASE UNCHANGED vars
  BY <1>0, <1>7 DEF vars, CtxErr
<1>8. QED BY <1>0, <1>1, <1>2, <1>3, <1>4, <1>5, <1>6, <1>7 DEF Next

\* A run always starts on a live context, though a dependency's first context
\* dies with its dependent's (taskSet.add, taskExecution.invalidate).
THEOREM LiveContexts == Spec => StartsOnLiveContext
<1>1. Init => ContextInv
  BY DEF Init, ContextInv, Procs
<1>2. OneRunInv /\ ContextInv /\ [Next]_vars => ContextInv'
  BY ContextStep DEF OneRunInv
<1>3. ContextInv =>
        [\A t \in Tasks : state[t] = "invalid" /\ state'[t] = "running" => ~ ctxDone[t]]_vars
  BY DEF ContextInv
<1>4. QED BY InitOneRun, OneRunStep, <1>1, <1>2, <1>3, PTL DEF Spec, StartsOnLiveContext

\* What makes it so: the context of an invalid task is live, its own or the first one of
\* a nest in which nothing above it has run.
THEOREM ContextDiscipline == Spec => []ContextInv
<1>1. Init => ContextInv
  BY DEF Init, ContextInv, Procs
<1>2. OneRunInv /\ ContextInv /\ [Next]_vars => ContextInv'
  BY ContextStep DEF OneRunInv
<1>3. QED BY InitOneRun, OneRunStep, <1>1, <1>2, PTL DEF Spec

-----------------------------------------------------------------------------
(* Refinement *)

\* Steps that start no run, end none and invalidate no task that is done.
LEMMA RunsFrame ==
  ASSUME TypeInv,
         UNCHANGED state,
         \A w \in Workers :
           /\ pc'[w] \in ActivePcs <=> pc[w] \in ActivePcs
           /\ pc[w] \in ActivePcs => job'[w] = job[w]
  PROVE  UNCHANGED Abstract!vars
<1>1. \A t \in Tasks : Runs(t)' = Runs(t)
  BY DEF Runs
<1>2. [t \in Tasks |-> Runs(t)]' = [t \in Tasks |-> Runs(t)]
  BY <1>1
<1>3. QED BY <1>2 DEF Abstract!vars

LEMMA RefineStep ==
  ASSUME OneRunInv, [Next]_vars
  PROVE  [Abstract!Next]_(Abstract!vars)
<1> USE DEF OneRunInv, TypeInv, TypeOK, Goto, ActivePcs, Procs
<1>1. ASSUME NEW p \in Workers \cup Callers \cup Handlers, InvalidateCall(p)
      PROVE  UNCHANGED Abstract!vars
  <2>1. AfterInvalidate(p) \notin ActivePcs /\ AfterMarks(p) \notin ActivePcs
    BY DEF AfterInvalidate, AfterMarks
  <2>2. /\ UNCHANGED state
        /\ pc[p] \notin ActivePcs /\ pc'[p] \notin ActivePcs
        /\ \A q \in Procs \ {p} : pc'[q] = pc[q] /\ job'[q] = job[q]
    BY <1>1, <2>1 DEF InvalidateCall, SkipMark, CheckMark, RecordMark, Send, Marked
  <2>3. QED BY <2>2, RunsFrame
<1>2. ASSUME NEW p \in Workers \cup {Loop}, Plan(p)
      PROVE  [Abstract!Next]_(Abstract!vars)
  <2>1. AfterPlan(p) \notin ActivePcs
    BY DEF AfterPlan
  <2>2. /\ pc[p] \notin ActivePcs /\ pc'[p] \notin ActivePcs
        /\ job' = job
        /\ \A q \in Procs \ {p} : pc'[q] = pc[q]
    BY <1>2, <2>1 DEF Plan, PlanLock, Collect, SkipInvalidate, CancelRun, ResetRun,
       DrainRun, Planned
  <2>3. CASE ~ ResetRun(p)
    <3>1. UNCHANGED state
      BY <1>2, <2>3 DEF Plan, PlanLock, Collect, SkipInvalidate, CancelRun, DrainRun, Terminated
    <3>2. QED BY <2>2, <3>1, RunsFrame
  <2>4. CASE ResetRun(p)
    <3> DEFINE t == cur[p]
    <3>1. t \in Tasks /\ state' = [state EXCEPT ![t] = "invalid"]
      BY <2>4 DEF ResetRun, LocalInv
    <3>2. \A u \in Tasks : Runs(u)' = Runs(u)
      BY <2>2 DEF Runs
    <3>3. [u \in Tasks |-> Runs(u)]' = [u \in Tasks |-> Runs(u)]
      BY <3>2
    <3>4. {u \in Tasks : state[u] = "done"}' = {u \in Tasks : state[u] = "done"} \ {t}
      BY <3>1
    <3>5. CASE state[t] = "done"
      BY <3>1, <3>3, <3>4, <3>5 DEF Abstract!Next, Abstract!Invalidate
    <3>6. CASE state[t] # "done"
      BY <3>1, <3>3, <3>4, <3>6 DEF Abstract!vars
    <3>7. QED BY <3>5, <3>6
  <2>5. QED BY <2>3, <2>4
<1>3. ASSUME NEW p \in Workers \cup Passers \cup {Main}, Pass(p)
      PROVE  [Abstract!Next]_(Abstract!vars)
  <2>1. AfterPass(p) \notin ActivePcs
    BY DEF AfterPass
  <2>2. CASE PassCheck(p) \/ PassLock(p) \/ PassSkip(p)
    <3>1. /\ UNCHANGED <<state, job>>
          /\ pc[p] \notin ActivePcs /\ pc'[p] \notin ActivePcs
          /\ \A q \in Procs \ {p} : pc'[q] = pc[q]
      BY <2>1, <2>2 DEF PassCheck, PassLock, PassSkip, Visited, VisitedPc
    <3>2. QED BY <3>1, RunsFrame
  <2>3. CASE PassLaunch(p)
    <3>1. PICK t \in todo[p], w \in Workers :
            /\ ShouldExecute(t)
            /\ pc[w] = "idle"
            /\ state' = [state EXCEPT ![t] = "running"]
            /\ job' = [job EXCEPT ![w] = t]
            /\ pc' = [pc EXCEPT ![w] = "launched", ![p] = VisitedPc(p, t)]
      BY <2>3 DEF PassLaunch
    <3>2. /\ t \in Tasks
          /\ p # w
          /\ pc[p] = "visit"
          /\ VisitedPc(p, t) \notin ActivePcs
      BY <2>1, <2>3, <3>1 DEF PassLaunch, VisitedPc
    <3>3. \A q \in Procs : pc[q] # "drain"
      BY <3>2 DEF LockInv, CriticalPcs
    <3>4. \A v \in Workers : pc[v] \in ActivePcs => job[v] # t
      BY <3>1, <3>2, <3>3 DEF ShouldExecute, TokenInv, PreTokenPcs
    <3>5. Runs(t) = {} /\ \A u \in Tasks : w \notin Runs(u)
      BY <3>1, <3>4 DEF Runs
    <3>6. Runs(t)' = {w}
      BY <3>1, <3>2, <3>4 DEF Runs
    <3>7. \A u \in Tasks \ {t} : Runs(u)' = Runs(u)
      BY <3>1, <3>2 DEF Runs
    <3>8. [u \in Tasks |-> Runs(u)]' = [[u \in Tasks |-> Runs(u)] EXCEPT ![t] = {w}]
      BY <3>2, <3>6, <3>7
    <3>9. {u \in Tasks : state[u] = "done"}' = {u \in Tasks : state[u] = "done"}
      BY <3>1, <3>2 DEF ShouldExecute
    <3>10. t \notin {u \in Tasks : state[u] = "done"}
           /\ Dependencies[t] \subseteq {u \in Tasks : state[u] = "done"}
      BY <3>1, <3>2 DEF ShouldExecute, Dependencies
    <3>11. Abstract!Start(t, w)
      BY <3>2, <3>5, <3>8, <3>9, <3>10 DEF Abstract!Start
    <3>12. QED BY <3>2, <3>11 DEF Abstract!Next
  <2>4. QED BY <1>3, <2>2, <2>3 DEF Pass
<1>4. ASSUME NEW w \in Workers, Worker(w)
      PROVE  [Abstract!Next]_(Abstract!vars)
  <2>1. AfterInvalidate(w) \notin ActivePcs
    BY DEF AfterInvalidate
  <2>2. CASE ~ Flush(w)
    <3>1. /\ UNCHANGED state
          /\ pc'[w] \in ActivePcs <=> pc[w] \in ActivePcs
          /\ pc[w] \in ActivePcs => job'[w] = job[w]
          /\ \A q \in Procs \ {w} : pc'[q] = pc[q] /\ job'[q] = job[q]
      BY <1>4, <2>1, <2>2 DEF Worker, Begin, Return, SendTerminal, KeepAliveCheck, Leave
    <3>2. QED BY <3>1, RunsFrame
  <2>3. CASE Flush(w)
    <3> DEFINE t == job[w]
    <3>1. /\ t \in Tasks /\ state[t] # "done"
          /\ pc[w] \in ActivePcs
          /\ pc' = [pc EXCEPT ![w] = "flushed"]
          /\ job' = job
      BY <2>3 DEF Flush, LocalInv, TokenInv, PreTokenPcs
    <3>2. Runs(t) = {w}
      BY <3>1 DEF Runs, AtMostOneRun, PreTokenPcs
    <3>3. Runs(t)' = {}
      BY <3>1, <3>2 DEF Runs
    <3>4. \A u \in Tasks \ {t} : Runs(u)' = Runs(u)
      BY <3>1 DEF Runs
    <3>5. [u \in Tasks |-> Runs(u)]' = [[u \in Tasks |-> Runs(u)] EXCEPT ![t] = {}]
      BY <3>1, <3>3, <3>4
    <3>6. \A u \in Tasks \ {t} : state'[u] = state[u]
      BY <2>3 DEF Flush
    <3>7. CASE state'[t] = "done"
      <4>1. {u \in Tasks : state[u] = "done"}' = {u \in Tasks : state[u] = "done"} \cup {t}
        BY <3>1, <3>6, <3>7
      <4>2. Abstract!Succeed(t, w)
        BY <3>1, <3>2, <3>5, <4>1 DEF Abstract!Succeed
      <4>3. QED BY <3>1, <4>2 DEF Abstract!Next
    <3>8. CASE state'[t] # "done"
      <4>1. {u \in Tasks : state[u] = "done"}' = {u \in Tasks : state[u] = "done"}
        BY <3>1, <3>6, <3>8
      <4>2. Abstract!Fail(t, w)
        BY <3>1, <3>2, <3>5, <4>1 DEF Abstract!Fail
      <4>3. QED BY <3>1, <4>2 DEF Abstract!Next
    <3>9. QED BY <3>7, <3>8
  <2>4. QED BY <2>2, <2>3
<1>5. CASE LoopStep \/ RunStep \/ Environment
  <2>1. /\ UNCHANGED state
        /\ \A w \in Workers : pc'[w] = pc[w] /\ job'[w] = job[w]
    BY <1>5, ProcsAssumption DEF LoopStep, LoopReceive, LoopStop, LoopTimer, LoopSpawn,
       RunStep, RunBuild, RunStart, RunEarlyReturn, RunWait, Environment, CallInvalidate,
       TimerFires, WatcherExit, Interrupt
  <2>2. QED BY <2>1, RunsFrame
<1>6. CASE UNCHANGED vars
  BY <1>6, RunsFrame DEF vars
<1>7. QED BY <1>1, <1>2, <1>3, <1>4, <1>5, <1>6 DEF Next

\* The executor implements TaskRuns: whatever is invalidated, interrupted or
\* restarted meanwhile, a run starts alone and on dependencies that are done.
THEOREM Refinement == Spec => ImplementsTaskRuns
<1>1. Init => Abstract!Init
  BY ProcsAssumption DEF Init, Abstract!Init, Runs, ActivePcs, Procs
<1>2. QED BY InitOneRun, OneRunStep, RefineStep, <1>1, PTL
      DEF Spec, ImplementsTaskRuns, Abstract!Spec
=============================================================================
