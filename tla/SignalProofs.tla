----------------------------- MODULE SignalProofs -----------------------------
(***************************************************************************)
(* No lost wake-up: theorems about the invalidations of Executor, for      *)
(* every DAG, every veto, every fault and any number of goroutines.        *)
(***************************************************************************)
EXTENDS ExecutorProofs

\* The groups of variables an action leaves alone.
USE DEF taskVars, planVars, loopVars, runVars, execVars, locals

-----------------------------------------------------------------------------
(* A call of Invalidate goes up the DAG *)

\* So a call never comes back to the task it was made for.
LEMMA MarkGoesUp ==
  ASSUME TypeInv, MarksInv, NEW p \in Procs, pc[p] = "record"
  PROVE  /\ job[p] \notin todo[p] \cup Dependents[cur[p]]
         /\ \A x \in Dependents[cur[p]] : x \in Tasks /\ job[p] \in Dependencies[x]
<1>1. /\ cur[p] \in Tasks /\ job[p] \in Tasks /\ job[p] \notin todo[p]
      /\ cur[p] = job[p] \/ job[p] \in Dependencies[cur[p]]
  BY DEF MarksInv, TypeInv, LocalInv
<1>2. QED BY <1>1, DependencyChain, NoCycle DEF Dependents

LEMMA MarksStep ==
  ASSUME TypeInv, MarksInv, [Next]_vars
  PROVE  MarksInv'
<1> USE DEF TypeInv, TypeOK, Goto, Procs
<1>1. ASSUME NEW p \in Workers \cup Callers \cup Handlers, InvalidateCall(p)
      PROVE  MarksInv'
  <2>1. \A q \in Procs \ {p} :
          pc'[q] = pc[q] /\ todo'[q] = todo[q] /\ cur'[q] = cur[q] /\ job'[q] = job[q]
    BY <1>1 DEF InvalidateCall, SkipMark, CheckMark, RecordMark, Send, Marked
  <2>2. /\ AfterInvalidate(p) \notin {"invalidate", "record"}
        /\ AfterMarks(p) \notin {"invalidate", "record"}
    BY DEF AfterInvalidate, AfterMarks
  <2>3. CASE SkipMark(p)
    BY <2>1, <2>2, <2>3 DEF SkipMark, Marked, MarksInv
  <2>4. CASE CheckMark(p)
    BY <2>1, <2>4 DEF CheckMark, MarksInv
  <2>5. CASE RecordMark(p)
    <3>1. /\ job[p] \notin todo[p] \cup Dependents[cur[p]]
          /\ \A x \in Dependents[cur[p]] : job[p] \in Dependencies[x]
      BY <2>5, MarkGoesUp DEF RecordMark
    <3>2. QED BY <2>1, <2>2, <2>5, <3>1 DEF RecordMark, Marked, MarksInv
  <2>6. CASE Send(p)
    BY <2>1, <2>2, <2>6 DEF Send, MarksInv
  <2>7. QED BY <1>1, <2>3, <2>4, <2>5, <2>6 DEF InvalidateCall
<1>2. ASSUME NEW p \in Workers \cup {Loop}, Plan(p)
      PROVE  MarksInv'
  <2>1. AfterPlan(p) \notin {"invalidate", "record"}
    BY DEF AfterPlan
  <2>2. /\ pc'[p] \notin {"invalidate", "record"}
        /\ \A q \in Procs \ {p} :
             pc'[q] = pc[q] /\ todo'[q] = todo[q] /\ cur'[q] = cur[q] /\ job'[q] = job[q]
    BY <1>2, <2>1 DEF Plan, PlanLock, Collect, SkipInvalidate, CancelRun, ResetRun, DrainRun,
       Planned
  <2>3. QED BY <2>2 DEF MarksInv
<1>3. ASSUME NEW p \in Workers \cup Passers \cup {Main}, Pass(p)
      PROVE  MarksInv'
  <2>1. AfterPass(p) \notin {"invalidate", "record"}
    BY DEF AfterPass
  <2>2. CASE PassCheck(p) \/ PassLock(p) \/ PassSkip(p)
    <3>1. /\ pc'[p] \notin {"invalidate", "record"}
          /\ \A q \in Procs \ {p} :
               pc'[q] = pc[q] /\ todo'[q] = todo[q] /\ cur'[q] = cur[q] /\ job'[q] = job[q]
      BY <2>1, <2>2 DEF PassCheck, PassLock, PassSkip, Visited, VisitedPc
    <3>2. QED BY <3>1 DEF MarksInv
  <2>3. CASE PassLaunch(p)
    <3>1. PICK t \in todo[p], w \in Workers :
            /\ Visited(p, t)
            /\ pc[w] = "idle"
            /\ job' = [job EXCEPT ![w] = t]
            /\ pc' = [pc EXCEPT ![w] = "launched", ![p] = VisitedPc(p, t)]
      BY <2>3 DEF PassLaunch
    <3>2. /\ pc'[p] \notin {"invalidate", "record"}
          /\ pc'[w] \notin {"invalidate", "record"}
          /\ \A q \in Procs \ {p, w} :
               pc'[q] = pc[q] /\ todo'[q] = todo[q] /\ cur'[q] = cur[q] /\ job'[q] = job[q]
      BY <2>1, <2>3, <3>1 DEF PassLaunch, Visited, VisitedPc
    <3>3. QED BY <3>2 DEF MarksInv
  <2>4. QED BY <1>3, <2>2, <2>3 DEF Pass
<1>4. ASSUME NEW w \in Workers, Worker(w)
      PROVE  MarksInv'
  <2>1. \A q \in Procs \ {w} :
          pc'[q] = pc[q] /\ todo'[q] = todo[q] /\ cur'[q] = cur[q] /\ job'[q] = job[q]
    BY <1>4 DEF Worker, Begin, Return, Flush, SendTerminal, KeepAliveCheck, Leave
  <2>2. AfterInvalidate(w) \notin {"invalidate", "record"}
    BY DEF AfterInvalidate
  <2>3. CASE KeepAliveCheck(w)
    BY <2>1, <2>2, <2>3 DEF KeepAliveCheck, MarksInv, LocalInv
  <2>4. CASE ~ KeepAliveCheck(w)
    <3>1. pc'[w] \notin {"invalidate", "record"}
      BY <1>4, <2>2, <2>4 DEF Worker, Begin, Return, Flush, SendTerminal, Leave
    <3>2. QED BY <2>1, <3>1 DEF MarksInv
  <2>5. QED BY <2>3, <2>4
<1>5. CASE LoopStep \/ RunStep \/ TimerFires \/ WatcherExit \/ Interrupt
  <2>1. /\ UNCHANGED <<todo, cur, job>>
        /\ \A q \in Procs : pc'[q] \in {"invalidate", "record"} => pc'[q] = pc[q]
    BY <1>5 DEF LoopStep, LoopReceive, LoopStop, LoopTimer, LoopSpawn, RunStep, RunBuild,
       RunStart, RunEarlyReturn, RunWait, TimerFires, WatcherExit, Interrupt
  <2>2. QED BY <2>1 DEF MarksInv
<1>6. ASSUME NEW p \in Callers \cup Handlers, NEW t \in External, CallInvalidate(p, t)
      PROVE  MarksInv'
  BY <1>6, OptionsAssumption DEF CallInvalidate, MarksInv
<1>7. CASE UNCHANGED vars
  BY <1>7 DEF vars, MarksInv
<1>8. QED BY <1>1, <1>2, <1>3, <1>4, <1>5, <1>6, <1>7 DEF Next, Environment

-----------------------------------------------------------------------------
(* No lost wake-up *)

\* The step of a goroutine hurts no signal that another one carries: what it has
\* to answer for is what it carries itself.
LEMMA SignalFrame ==
  ASSUME NEW t \in Tasks, NEW p \in Procs, PlanComing(t),
         \A q \in Procs \ {p} : pc'[q] = pc[q] /\ todo'[q] = todo[q] /\ job'[q] = job[q],
         invalidationCh => PlanComing(t)',
         timer # "stopped" => PlanComing(t)',
         t \in toInvalidate => PlanComing(t)',
         pc[p] \in {"record", "send", "plan"} => PlanComing(t)',
         pc[p] = "invalidate" /\ job[p] \notin todo[p] => PlanComing(t)',
         pc[p] = "collect" /\ t \in todo[p] => PlanComing(t)'
  PROVE  PlanComing(t)'
<1>1. CASE invalidationCh \/ timer # "stopped" \/ t \in toInvalidate
  BY <1>1
<1>2. ASSUME NEW q \in Procs \ Handlers,
             \/ pc[q] \in {"record", "send", "plan"}
             \/ pc[q] = "invalidate" /\ job[q] \notin todo[q]
             \/ pc[q] = "collect" /\ t \in todo[q]
      PROVE  PlanComing(t)'
  BY <1>2 DEF PlanComing
<1>3. QED BY <1>1, <1>2 DEF PlanComing

LEMMA SignalStep ==
  ASSUME TypeInv, MarksInv, [Next]_vars,
         NEW t \in pending', state'[t] \notin {"invalid", "canceled"}, ~ rootDone',
         Recording(t) \/ PlanComing(t)
  PROVE  PlanComing(t)'
<1> USE DEF TypeInv, TypeOK, Goto, Procs
<1>0. t \in Tasks
  BY NextType
<1>1. ASSUME NEW p \in Workers \cup Callers \cup Handlers, InvalidateCall(p)
      PROVE  PlanComing(t)'
  <2>1. /\ timer' = timer /\ toInvalidate' = toInvalidate
        /\ invalidationCh => invalidationCh'
        /\ \A q \in Procs \ {p} : pc'[q] = pc[q] /\ todo'[q] = todo[q] /\ job'[q] = job[q]
        /\ pc[p] \in {"invalidate", "record", "send"}
    BY <1>1 DEF InvalidateCall, SkipMark, CheckMark, RecordMark, Send, Marked
  <2>2. invalidationCh \/ timer # "stopped" \/ t \in toInvalidate => PlanComing(t)'
    BY <2>1 DEF PlanComing
  <2>3. CASE p \in Handlers
    BY <1>1, <2>1, <2>3 DEF PlanComing, Recording
  <2>4. CASE p \notin Handlers
    <3>0. AfterMarks(p) = "send"
      BY <2>4 DEF AfterMarks
    <3>1. CASE SkipMark(p)
      <4>1. job[p] \notin todo[p] => PlanComing(t)'
        BY <2>4, <3>0, <3>1 DEF SkipMark, Marked, PlanComing
      <4>2. PlanComing(t)
        BY <2>1, <3>1 DEF Recording, SkipMark
      <4>3. QED BY <1>0, <2>1, <2>2, <3>1, <4>1, <4>2, SignalFrame DEF SkipMark
    <3>2. CASE CheckMark(p)
      BY <2>4, <3>2 DEF CheckMark, PlanComing
    <3>3. CASE RecordMark(p)
      <4>1. job[p] \notin todo[p] \cup Dependents[cur[p]]
        BY <3>3, MarkGoesUp DEF RecordMark
      <4>2. QED BY <2>4, <3>0, <3>3, <4>1 DEF RecordMark, Marked, PlanComing
    <3>4. CASE Send(p)
      BY <3>4 DEF Send, PlanComing
    <3>5. QED BY <1>1, <3>1, <3>2, <3>3, <3>4 DEF InvalidateCall
  <2>5. QED BY <2>3, <2>4
<1>2. ASSUME NEW p \in Workers \cup {Loop}, Plan(p)
      PROVE  PlanComing(t)'
  <2>1. UNCHANGED <<invalidationCh, timer, job>>
    BY <1>2 DEF Plan, PlanLock, Collect, SkipInvalidate, CancelRun, ResetRun, DrainRun
  <2>2. \A q \in Procs \ {p} : pc'[q] = pc[q] /\ todo'[q] = todo[q]
    BY <1>2 DEF Plan, PlanLock, Collect, SkipInvalidate, CancelRun, ResetRun, DrainRun, Planned
  <2>3. pc[p] \notin {"invalidate", "record", "send"}
    BY <1>2 DEF Plan, PlanLock, Collect, SkipInvalidate, CancelRun, ResetRun, DrainRun
  <2>4. p \notin Handlers /\ PlanComing(t)
    BY <1>2, <2>2, <2>3, ProcsAssumption DEF Recording
  <2>5. invalidationCh \/ timer # "stopped" => PlanComing(t)'
    BY <2>1 DEF PlanComing
  <2>6. t \in toInvalidate => PlanComing(t)'
    <3>1. SUFFICES ASSUME t \in toInvalidate PROVE t \in toInvalidate'
      BY DEF PlanComing
    <3>2. CASE PlanLock(p) \/ Collect(p) \/ CancelRun(p) \/ ResetRun(p)
      BY <3>1, <3>2 DEF PlanLock, Collect, CancelRun, ResetRun, Planned
    <3>3. CASE SkipInvalidate(p)
      BY <3>1, <3>3 DEF SkipInvalidate, Planned
    <3>4. CASE DrainRun(p)
      BY <3>1, <3>4 DEF DrainRun, Planned
    <3>5. QED BY <1>2, <3>2, <3>3, <3>4 DEF Plan
  <2>7. pc[p] = "plan" => PlanComing(t)'
    BY <1>0, <1>2, <2>4 DEF Plan, PlanLock, Collect, SkipInvalidate, CancelRun, ResetRun, DrainRun,
       PlanComing
  <2>8. pc[p] = "collect" /\ t \in todo[p] => PlanComing(t)'
    <3>1. SUFFICES ASSUME Collect(p), t \in todo[p] PROVE PlanComing(t)'
      BY <1>2 DEF Plan, PlanLock, Collect, SkipInvalidate, CancelRun, ResetRun, DrainRun
    <3>2. t \in pending /\ state[t] # "invalid" /\ pc[p] = "collect"
      BY <3>1 DEF Collect
    <3>3. PICK u \in todo[p] :
            LET found == toInvalidate \cup {v \in {u} : Collectable(v)} IN
            /\ todo' = [todo EXCEPT ![p] = @ \ {u}]
            /\ toInvalidate' = found
            /\ todo[p] # {u} => UNCHANGED pc
      BY <3>1 DEF Collect, Planned
    <3>4. CASE u = t
      BY <3>2, <3>3, <3>4 DEF Collectable, PlanComing
    <3>5. CASE u # t
      BY <2>4, <3>1, <3>2, <3>3, <3>5 DEF PlanComing
    <3>6. QED BY <3>4, <3>5
  <2>9. QED BY <1>0, <2>1, <2>2, <2>3, <2>4, <2>5, <2>6, <2>7, <2>8, SignalFrame
<1>3. ASSUME NEW p \in Workers \cup Passers \cup {Main}, Pass(p)
      PROVE  PlanComing(t)'
  <2>1. /\ UNCHANGED <<invalidationCh, timer, toInvalidate>>
        /\ pc[p] \in {"pass", "passLock", "visit"}
        /\ PlanComing(t)
    BY <1>3 DEF Pass, PassCheck, PassLock, PassSkip, PassLaunch, Recording
  <2>2. \A q \in Procs \ {p} : pc[q] # "idle" =>
          pc'[q] = pc[q] /\ todo'[q] = todo[q] /\ job'[q] = job[q]
    BY <1>3 DEF Pass, PassCheck, PassLock, PassSkip, PassLaunch, Visited
  <2>3. QED BY <2>1, <2>2 DEF PlanComing
<1>4. ASSUME NEW w \in Workers, Worker(w)
      PROVE  PlanComing(t)'
  <2>1. /\ UNCHANGED <<invalidationCh, timer, toInvalidate>>
        /\ pc[w] \in PreTokenPcs \cup {"keepAlive", "leave"}
        /\ PlanComing(t)
    BY <1>4 DEF Worker, Begin, Return, Flush, SendTerminal, KeepAliveCheck, Leave, Recording,
       PreTokenPcs, ActivePcs
  <2>2. \A q \in Procs \ {w} : pc'[q] = pc[q] /\ todo'[q] = todo[q] /\ job'[q] = job[q]
    BY <1>4 DEF Worker, Begin, Return, Flush, SendTerminal, KeepAliveCheck, Leave
  <2>3. QED BY <2>1, <2>2 DEF PlanComing, PreTokenPcs, ActivePcs
<1>5. CASE LoopStep
  <2>1. PlanComing(t)
    BY <1>5 DEF LoopStep, LoopReceive, LoopStop, LoopTimer, LoopSpawn, Recording
  <2>2. Loop \notin Handlers
    BY ProcsAssumption
  <2>3. CASE LoopReceive \/ LoopTimer
    BY <2>2, <2>3 DEF LoopReceive, LoopTimer, PlanComing
  <2>4. CASE LoopStop
    BY <2>4 DEF LoopStop
  <2>5. CASE LoopSpawn
    BY <2>1, <2>5 DEF LoopSpawn, PlanComing
  <2>6. QED BY <1>5, <2>3, <2>4, <2>5 DEF LoopStep
<1>6. CASE RunStep \/ WatcherExit \/ Interrupt \/ TimerFires
  <2>1. /\ PlanComing(t)
        /\ UNCHANGED <<invalidationCh, toInvalidate, todo, job>>
        /\ timer # "stopped" => timer' # "stopped"
        /\ \A q \in Procs : pc[q] \in {"record", "send", "plan", "invalidate", "collect"}
                            => pc'[q] = pc[q]
    BY <1>6 DEF RunStep, RunBuild, RunStart, RunEarlyReturn, RunWait, WatcherExit, Interrupt,
       TimerFires, Recording
  <2>2. QED BY <2>1 DEF PlanComing
<1>7. ASSUME NEW p \in Callers \cup Handlers, NEW u \in External, CallInvalidate(p, u)
      PROVE  PlanComing(t)'
  <2>1. /\ PlanComing(t)
        /\ pc[p] = "idle"
        /\ UNCHANGED <<invalidationCh, timer, toInvalidate>>
        /\ \A q \in Procs \ {p} : pc'[q] = pc[q] /\ todo'[q] = todo[q] /\ job'[q] = job[q]
    BY <1>7 DEF CallInvalidate, Recording
  <2>2. QED BY <2>1 DEF PlanComing
<1>8. CASE UNCHANGED vars
  BY <1>8 DEF vars, PlanComing, Recording
<1>9. QED BY <1>1, <1>2, <1>3, <1>4, <1>5, <1>6, <1>7, <1>8 DEF Next, Environment

SignalInv == TypeInv /\ MarksInv

LEMMA InitSignal == Init => SignalInv
  BY InitType DEF Init, SignalInv, MarksInv

LEMMA SignalInvStep == SignalInv /\ [Next]_vars => SignalInv'
  BY NextType, MarksStep DEF SignalInv

\* A call of Invalidate visits the task it is for first and then only what depends on it,
\* directly or not, and never comes back to the former (taskExecution.Invalidate).
THEOREM MarksGoUp == Spec => []MarksInv
<1>1. SignalInv => MarksInv
  BY DEF SignalInv
<1>2. QED BY InitSignal, SignalInvStep, <1>1, PTL DEF Spec

\* No lost wake-up: whoever holds the last signal for a pending invalidation, the
\* channel, the timer, the caller, the loop or a plan, passes it on in the step
\* that takes it away (Executor.Invalidate, runInvalidationLoop).
THEOREM SignalsAreKept == Spec => SignalNotLost
<1>1. SignalInv /\ [Next]_vars =>
        [\A t \in pending' :
           /\ state'[t] \notin {"invalid", "canceled"}
           /\ ~ rootDone'
           /\ Recording(t) \/ PlanComing(t)
           => PlanComing(t)']_vars
  BY SignalStep DEF SignalInv
<1>2. QED BY InitSignal, SignalInvStep, <1>1, PTL DEF Spec, SignalNotLost

-----------------------------------------------------------------------------
(* KeepAlive tasks are restarted *)

\* Nothing but its own exit invalidates t: no file, no user, no KeepAlive task
\* among those it depends on.
RestartsAlone(t) ==
  /\ t \in KeepAlive \ External
  /\ Dependencies[t] \cap (External \cup KeepAlive) = {}
  /\ <<t, "keepalive">> \notin Vetoes

\* Worker w runs t, or has run it and has not yet marked it for the next run.
Owes(w, t) ==
  /\ job[w] = t
  /\ \/ pc[w] \in PreTokenPcs \cup {"keepAlive"}
     \/ pc[w] = "invalidate" /\ t \in todo[w]
     \/ pc[w] = "record" /\ cur[w] = t

\* A plan has begun to invalidate t.
Invalidating(t) == \E p \in Procs : pc[p] \in {"reset", "drain"} /\ cur[p] = t

\* Whom a call of Invalidate is for.
CallersInv ==
  /\ \A p \in Procs : pc[p] \in {"invalidate", "record"} =>
       job[p] \in IF p \in Workers THEN KeepAlive ELSE External
  /\ \A w \in Workers : pc[w] = "keepAlive" => job[w] \in KeepAlive
  /\ \A t \in Tasks : state[t] = "canceled" => rootDone

\* The run, the mark and the plan of t take turns: while the worker owes the mark
\* there is no mark and no plan, and a task between a plan and a run has none.
TurnInv(t) ==
  /\ \A v, w \in Workers : Owes(v, t) /\ Owes(w, t) => v = w
  /\ (\E w \in Workers : Owes(w, t)) =>
       t \notin pending /\ ~ Invalidating(t) /\ state[t] # "invalid"
  /\ t \in toInvalidate => t \in pending
  /\ \A p \in Procs : pc[p] = "drain" /\ cur[p] = t => state[t] = "invalid"
  /\ \A p \in Procs : pc[p] \in {"reset", "drain"} /\ cur[p] = t => t \in toInvalidate
  /\ state[t] = "invalid" /\ t \in pending => \E p \in Procs : pc[p] = "drain" /\ cur[p] = t
  /\ \A w \in Workers : pc[w] \in ActivePcs /\ job[w] = t => state[t] = "running"

RestartInv(t) ==
  state[t] # "invalid" /\ ~ rootDone =>
    \/ \E w \in Workers : Owes(w, t)
    \/ t \in pending /\ PlanComing(t)

LEMMA CallersStep ==
  ASSUME TypeInv, CallersInv, [Next]_vars
  PROVE  CallersInv'
<1> USE DEF TypeInv, TypeOK, Goto, Procs, CallersInv
<1>1. ASSUME NEW p \in Workers \cup Callers \cup Handlers, InvalidateCall(p)
      PROVE  CallersInv'
  <2>1. /\ AfterInvalidate(p) \notin {"invalidate", "record", "keepAlive"}
        /\ AfterMarks(p) \notin {"invalidate", "record", "keepAlive"}
    BY DEF AfterInvalidate, AfterMarks
  <2>2. UNCHANGED <<state, rootDone>>
    BY <1>1 DEF InvalidateCall, SkipMark, CheckMark, RecordMark, Send
  <2>3. /\ pc[p] \in {"invalidate", "record", "send"} /\ pc'[p] # "keepAlive"
        /\ pc'[p] \in {"invalidate", "record"} =>
             pc[p] \in {"invalidate", "record"} /\ job'[p] = job[p]
        /\ \A q \in Procs \ {p} : pc'[q] = pc[q] /\ job'[q] = job[q]
    BY <1>1, <2>1 DEF InvalidateCall, SkipMark, CheckMark, RecordMark, Send, Marked
  <2>4. QED BY <2>2, <2>3
<1>2. ASSUME NEW p \in Workers \cup {Loop}, Plan(p)
      PROVE  CallersInv'
  <2>1. AfterPlan(p) \notin {"invalidate", "record", "keepAlive"}
    BY DEF AfterPlan
  <2>2. /\ pc'[p] \notin {"invalidate", "record", "keepAlive"} /\ UNCHANGED <<rootDone, job>>
        /\ \A q \in Procs \ {p} : pc'[q] = pc[q]
    BY <1>2, <2>1 DEF Plan, PlanLock, Collect, SkipInvalidate, CancelRun, ResetRun, DrainRun,
       Planned
  <2>3. \A t \in Tasks : state'[t] = "canceled" => state[t] = "canceled"
    BY <1>2 DEF Plan, PlanLock, Collect, SkipInvalidate, CancelRun, ResetRun, DrainRun
  <2>4. QED BY <2>2, <2>3
<1>3. ASSUME NEW p \in Workers \cup Passers \cup {Main}, Pass(p)
      PROVE  CallersInv'
  <2>1. AfterPass(p) \notin {"invalidate", "record", "keepAlive"}
    BY DEF AfterPass
  <2>2. CASE PassCheck(p) \/ PassLock(p) \/ PassSkip(p)
    BY <2>1, <2>2 DEF PassCheck, PassLock, PassSkip, Visited, VisitedPc
  <2>3. CASE PassLaunch(p)
    BY <2>1, <2>3 DEF PassLaunch, VisitedPc
  <2>4. QED BY <1>3, <2>2, <2>3 DEF Pass
<1>4. ASSUME NEW w \in Workers, Worker(w)
      PROVE  CallersInv'
  <2>1. AfterInvalidate(w) \notin {"invalidate", "record", "keepAlive"}
    BY DEF AfterInvalidate
  <2>2. CASE Begin(w) \/ Return(w) \/ SendTerminal(w) \/ KeepAliveCheck(w) \/ Leave(w)
    BY <2>1, <2>2 DEF Begin, Return, SendTerminal, KeepAliveCheck, Leave
  <2>3. CASE Flush(w)
    BY <2>3 DEF Flush, LocalInv, PreTokenPcs, ActivePcs
  <2>4. QED BY <1>4, <2>2, <2>3 DEF Worker
<1>5. CASE LoopStep \/ RunStep \/ TimerFires \/ WatcherExit \/ Interrupt
  BY <1>5 DEF LoopStep, LoopReceive, LoopStop, LoopTimer, LoopSpawn, RunStep, RunBuild,
     RunStart, RunEarlyReturn, RunWait, TimerFires, WatcherExit, Interrupt
<1>6. ASSUME NEW p \in Callers \cup Handlers, NEW t \in External, CallInvalidate(p, t)
      PROVE  CallersInv'
  BY <1>6, ProcsAssumption DEF CallInvalidate
<1>7. CASE UNCHANGED vars
  BY <1>7 DEF vars
<1>8. QED BY <1>1, <1>2, <1>3, <1>4, <1>5, <1>6, <1>7 DEF Next, Environment

\* Only the worker that ran t marks it.
LEMMA OnlyItsWorkerMarks ==
  ASSUME SignalInv, CallersInv, NEW t \in Tasks, RestartsAlone(t), NEW p \in Procs,
         \/ pc[p] = "invalidate" /\ t \in todo[p]
         \/ pc[p] = "record" /\ cur[p] = t
  PROVE  p \in Workers /\ Owes(p, t)
<1>1. job[p] = t \/ job[p] \in Dependencies[t]
  BY DEF SignalInv, MarksInv
<1>2. job[p] \in External \cup KeepAlive
  BY DEF CallersInv
<1>3. job[p] = t
  BY <1>1, <1>2 DEF RestartsAlone
<1>4. QED BY <1>3 DEF RestartsAlone, CallersInv, Owes

\* Steps in which no plan goes on, and nobody starts, marks or ends a run of t.
LEMMA TurnFrame ==
  ASSUME NEW t \in Tasks, TurnInv(t),
         state'[t] = state[t],
         t \in pending' <=> t \in pending,
         t \in toInvalidate' <=> t \in toInvalidate,
         \A w \in Workers : Owes(w, t)' => Owes(w, t),
         \A w \in Workers : pc'[w] \in ActivePcs => pc[w] \in ActivePcs /\ job'[w] = job[w],
         \A p \in Procs : pc'[p] \in {"reset", "drain"} \/ pc[p] \in {"reset", "drain"}
                            => pc'[p] = pc[p] /\ cur'[p] = cur[p]
  PROVE  TurnInv(t)'
  BY DEF TurnInv, Invalidating

LEMMA TurnStep ==
  ASSUME OneRunInv, SignalInv, CallersInv, [Next]_vars,
         NEW t \in Tasks, RestartsAlone(t), TurnInv(t)
  PROVE  TurnInv(t)'
<1> USE DEF OneRunInv, TypeInv, TypeOK, Goto, Procs
<1>1. ASSUME NEW p \in Workers \cup Callers \cup Handlers, InvalidateCall(p)
      PROVE  TurnInv(t)'
  <2>1. /\ AfterInvalidate(p) \in {"plan", "pass", "idle"}
        /\ AfterMarks(p) \in {"idle", "send"}
    BY DEF AfterInvalidate, AfterMarks
  <2>2. /\ UNCHANGED <<state, toInvalidate>>
        /\ pc[p] \in {"invalidate", "record", "send"}
        /\ pc'[p] \in {"invalidate", "record", "send", "plan", "pass", "idle"}
        /\ \A q \in Procs \ {p} :
             pc'[q] = pc[q] /\ todo'[q] = todo[q] /\ cur'[q] = cur[q] /\ job'[q] = job[q]
    BY <1>1, <2>1 DEF InvalidateCall, SkipMark, CheckMark, RecordMark, Send, Marked
  <2>3. \A w \in Workers \ {p} : Owes(w, t)' <=> Owes(w, t)
    BY <2>2 DEF Owes
  <2>4. CASE RecordMark(p)
    <3>1. ~ Owes(p, t)'
      BY <2>4, <2>1, MarkGoesUp DEF RecordMark, Marked, Owes, SignalInv, PreTokenPcs, ActivePcs
    <3>2. CASE cur[p] = t
      <4>1. p \in Workers /\ Owes(p, t)
        BY <2>4, <3>2, OnlyItsWorkerMarks DEF RecordMark
      <4>2. \A w \in Workers : ~ Owes(w, t)'
        BY <2>3, <3>1, <4>1 DEF TurnInv
      <4>3. QED BY <2>2, <2>4, <4>1, <4>2 DEF TurnInv, Invalidating, RecordMark, Owes,
                   PreTokenPcs, ActivePcs
    <3>3. CASE cur[p] # t
      BY <2>2, <2>3, <2>4, <3>1, <3>3, TurnFrame DEF RecordMark, ActivePcs
    <3>4. QED BY <3>2, <3>3
  <2>5. CASE SkipMark(p) \/ CheckMark(p) \/ Send(p)
    <3>1. UNCHANGED pending
      BY <2>5 DEF SkipMark, CheckMark, Send
    <3>2. ASSUME p \in Workers, Owes(p, t)' PROVE Owes(p, t)
      BY <2>1, <2>5, <3>2 DEF SkipMark, CheckMark, Send, Marked, Owes, PreTokenPcs, ActivePcs
    <3>3. QED BY <2>2, <2>3, <3>1, <3>2, TurnFrame DEF ActivePcs
  <2>6. QED BY <1>1, <2>4, <2>5 DEF InvalidateCall
<1>2. ASSUME NEW p \in Workers \cup {Loop}, Plan(p)
      PROVE  TurnInv(t)'
  <2>1. AfterPlan(p) \in {"spawn", "pass"}
    BY DEF AfterPlan
  <2>2. /\ pc[p] \in {"plan", "collect", "invalidating", "reset", "drain"}
        /\ pc'[p] \in {"collect", "invalidating", "reset", "drain", "spawn", "pass"}
        /\ job' = job
        /\ \A q \in Procs \ {p} : pc'[q] = pc[q] /\ todo'[q] = todo[q] /\ cur'[q] = cur[q]
    BY <1>2, <2>1 DEF Plan, PlanLock, Collect, SkipInvalidate, CancelRun, ResetRun, DrainRun,
       Planned
  <2>3. \A w \in Workers : Owes(w, t)' <=> Owes(w, t)
    BY <2>2 DEF Owes, PreTokenPcs, ActivePcs
  <2>4. \A w \in Workers : pc'[w] \in ActivePcs <=> pc[w] \in ActivePcs
    BY <2>2 DEF ActivePcs
  <2>5. pc[p] # "plan" => \A q \in Procs \ {p} : pc[q] \notin {"reset", "drain"}
    BY <2>2 DEF LockInv, CriticalPcs
  <2>6. CASE PlanLock(p)
    BY <2>2, <2>3, <2>4, <2>6, TurnFrame DEF PlanLock
  <2>7. CASE Collect(p)
    <3>1. /\ UNCHANGED <<state, pending>> /\ pc[p] = "collect"
          /\ pc'[p] \notin {"reset", "drain"}
      BY <2>1, <2>7 DEF Collect, Planned
    <3>2. /\ toInvalidate \subseteq toInvalidate'
          /\ toInvalidate' \subseteq toInvalidate \cup pending
      BY <2>7 DEF Collect, Planned, Collectable
    <3>3. QED BY <2>2, <2>3, <2>4, <2>5, <3>1, <3>2 DEF TurnInv, Invalidating
  <2>8. CASE SkipInvalidate(p)
    <3>1. /\ UNCHANGED <<state, pending>> /\ pc[p] = "invalidating"
          /\ pc'[p] \notin {"reset", "drain"}
          /\ toInvalidate' \subseteq toInvalidate
      BY <2>1, <2>8 DEF SkipInvalidate, Planned
    <3>2. QED BY <2>2, <2>3, <2>4, <2>5, <3>1 DEF TurnInv, Invalidating
  <2>9. CASE CancelRun(p)
    <3>1. /\ UNCHANGED <<state, pending, toInvalidate>> /\ pc[p] = "invalidating"
          /\ pc'[p] = "reset" /\ cur'[p] \in toInvalidate
      BY <2>9 DEF CancelRun
    <3>2. QED BY <2>2, <2>3, <2>4, <2>5, <3>1 DEF TurnInv, Invalidating
  <2>10. CASE ResetRun(p)
    <3>1. /\ UNCHANGED <<pending, toInvalidate>> /\ pc[p] = "reset" /\ pc'[p] = "drain"
          /\ cur'[p] = cur[p]
          /\ state' = [state EXCEPT ![cur[p]] = "invalid"]
      BY <2>10 DEF ResetRun
    <3>2. CASE cur[p] = t
      <4>1. \A w \in Workers : ~ Owes(w, t)
        BY <3>1, <3>2 DEF TurnInv, Invalidating
      <4>2. \A w \in Workers : ~ (pc[w] \in ActivePcs /\ job[w] = t)
        BY <4>1 DEF Owes, PreTokenPcs
      <4>3. QED BY <2>2, <2>3, <2>4, <2>5, <3>1, <3>2, <4>1, <4>2 DEF TurnInv, Invalidating
    <3>3. CASE cur[p] # t
      BY <2>2, <2>3, <2>4, <2>5, <3>1, <3>3 DEF TurnInv, Invalidating
    <3>4. QED BY <3>2, <3>3
  <2>11. CASE DrainRun(p)
    <3>1. /\ UNCHANGED state /\ pc[p] = "drain" /\ pc'[p] \notin {"reset", "drain"}
          /\ pending' = pending \ {cur[p]} /\ toInvalidate' = toInvalidate \ {cur[p]}
      BY <2>1, <2>11 DEF DrainRun, Planned
    <3>2. QED BY <2>2, <2>3, <2>4, <2>5, <3>1 DEF TurnInv, Invalidating
  <2>12. QED BY <1>2, <2>6, <2>7, <2>8, <2>9, <2>10, <2>11 DEF Plan
<1>3. ASSUME NEW p \in Workers \cup Passers \cup {Main}, Pass(p)
      PROVE  TurnInv(t)'
  <2>1. AfterPass(p) \in {"leave", "wait", "idle"}
    BY DEF AfterPass
  <2>2. CASE PassCheck(p) \/ PassLock(p) \/ PassSkip(p)
    <3>1. /\ UNCHANGED <<state, pending, toInvalidate, cur, job>>
          /\ pc[p] \in {"pass", "passLock", "visit"}
          /\ pc'[p] \in {"passLock", "visit", "leave", "wait", "idle"}
          /\ \A q \in Procs \ {p} : pc'[q] = pc[q] /\ todo'[q] = todo[q]
      BY <2>1, <2>2 DEF PassCheck, PassLock, PassSkip, Visited, VisitedPc
    <3>2. \A w \in Workers : Owes(w, t)' => Owes(w, t)
      BY <3>1 DEF Owes, PreTokenPcs, ActivePcs
    <3>3. QED BY <3>1, <3>2, TurnFrame DEF ActivePcs
  <2>3. CASE PassLaunch(p)
    <3>1. PICK u \in todo[p], w \in Workers :
            /\ ShouldExecute(u)
            /\ pc[w] = "idle"
            /\ Visited(p, u)
            /\ state' = [state EXCEPT ![u] = "running"]
            /\ job' = [job EXCEPT ![w] = u]
            /\ pc' = [pc EXCEPT ![w] = "launched", ![p] = VisitedPc(p, u)]
      BY <2>3 DEF PassLaunch
    <3>2. /\ UNCHANGED <<pending, toInvalidate, cur>>
          /\ p # w /\ pc[p] = "visit" /\ u \in Tasks
          /\ pc'[p] \in {"visit", "leave", "wait", "idle"}
          /\ pc'[w] = "launched"
          /\ \A q \in Procs \ {p, w} : pc'[q] = pc[q] /\ todo'[q] = todo[q] /\ job'[q] = job[q]
      BY <2>1, <2>3, <3>1 DEF PassLaunch, Visited, VisitedPc
    <3>3. \A q \in Procs : pc[q] \notin {"reset", "drain"}
      BY <3>2 DEF LockInv, CriticalPcs
    <3>4. \A v \in Workers \ {w} : Owes(v, t)' => Owes(v, t)
      BY <3>2 DEF Owes, PreTokenPcs, ActivePcs
    <3>5. CASE u = t
      <4>1. t \notin pending /\ t \notin toInvalidate /\ \A v \in Workers : ~ Owes(v, t)
        BY <3>1, <3>3, <3>5 DEF TurnInv, ShouldExecute
      <4>2. QED BY <3>1, <3>2, <3>3, <3>4, <3>5, <4>1 DEF TurnInv, Invalidating, Owes
    <3>6. CASE u # t
      <4>1. ~ Owes(w, t)'
        BY <3>1, <3>6 DEF Owes
      <4>2. \A v \in Workers : pc'[v] \in ActivePcs /\ job'[v] = t => pc[v] \in ActivePcs /\ job[v] = t
        BY <3>1, <3>2, <3>6 DEF ActivePcs
      <4>3. QED BY <3>1, <3>2, <3>3, <3>4, <3>6, <4>1, <4>2 DEF TurnInv, Invalidating
    <3>7. QED BY <3>5, <3>6
  <2>4. QED BY <1>3, <2>2, <2>3 DEF Pass
<1>4. ASSUME NEW w \in Workers, Worker(w)
      PROVE  TurnInv(t)'
  <2>1. AfterInvalidate(w) \in {"plan", "pass", "idle"}
    BY DEF AfterInvalidate
  <2>2. /\ UNCHANGED <<pending, toInvalidate, cur>>
        /\ pc[w] \in PreTokenPcs \cup {"keepAlive", "leave"}
        /\ pc'[w] \in PreTokenPcs \cup {"keepAlive", "invalidate", "plan", "pass", "idle"}
        /\ \A q \in Procs \ {w} : pc'[q] = pc[q] /\ todo'[q] = todo[q] /\ job'[q] = job[q]
    BY <1>4, <2>1 DEF Worker, Begin, Return, Flush, SendTerminal, KeepAliveCheck, Leave,
       PreTokenPcs, ActivePcs
  <2>3. pc'[w] \in ActivePcs => pc[w] \in ActivePcs /\ job'[w] = job[w]
    BY <1>4, <2>1 DEF Worker, Begin, Return, Flush, SendTerminal, KeepAliveCheck, Leave, ActivePcs
  <2>4. \A v \in Workers : Owes(v, t)' => Owes(v, t)
    <3>1. \A v \in Workers \ {w} : Owes(v, t)' => Owes(v, t)
      BY <2>2 DEF Owes
    <3>2. ASSUME Owes(w, t)' PROVE Owes(w, t)
      BY <1>4, <2>1, <3>2 DEF Worker, Begin, Return, Flush, SendTerminal, KeepAliveCheck, Leave,
         Owes, PreTokenPcs, ActivePcs
    <3>3. QED BY <3>1, <3>2
  <2>5. CASE ~ Flush(w)
    <3>1. UNCHANGED state
      BY <1>4, <2>5 DEF Worker, Begin, Return, SendTerminal, KeepAliveCheck, Leave
    <3>2. QED BY <2>2, <2>3, <2>4, <3>1, TurnFrame DEF PreTokenPcs, ActivePcs
  <2>6. CASE Flush(w)
    <3>1. /\ pc[w] \in ActivePcs /\ pc'[w] = "flushed" /\ job[w] \in Tasks
          /\ \A u \in Tasks : u # job[w] => state'[u] = state[u]
          /\ state[job[w]] # "invalid" => state'[job[w]] # "invalid"
      BY <2>6 DEF Flush, LocalInv, PreTokenPcs, ActivePcs
    <3>2. CASE job[w] = t
      <4>1. Owes(w, t)
        BY <3>1, <3>2 DEF Owes, PreTokenPcs
      <4>2. \A v \in Workers : pc[v] \in ActivePcs /\ job[v] = t => Owes(v, t)
        BY DEF Owes, PreTokenPcs
      <4>3. \A v \in Workers : ~ (pc'[v] \in ActivePcs /\ job'[v] = t)
        BY <2>2, <3>1, <4>1, <4>2 DEF TurnInv, ActivePcs
      <4>4. QED BY <2>2, <2>4, <3>1, <3>2, <4>1, <4>3 DEF TurnInv, Invalidating, PreTokenPcs,
                   ActivePcs
    <3>3. CASE job[w] # t
      BY <2>2, <2>3, <2>4, <3>1, <3>3, TurnFrame DEF PreTokenPcs, ActivePcs
    <3>4. QED BY <3>2, <3>3
  <2>7. QED BY <2>5, <2>6
<1>5. CASE LoopStep \/ RunStep \/ Environment
  <2>1. /\ UNCHANGED <<state, pending, toInvalidate, cur>>
        /\ \A q \in Procs : pc[q] \in {"reset", "drain"} \/ pc'[q] \in {"reset", "drain"} => pc'[q] = pc[q]
        /\ \A w \in Workers : pc'[w] = pc[w] /\ job'[w] = job[w] /\ todo'[w] = todo[w]
    BY <1>5, ProcsAssumption DEF LoopStep, LoopReceive, LoopStop, LoopTimer, LoopSpawn,
       RunStep, RunBuild, RunStart, RunEarlyReturn, RunWait, Environment, CallInvalidate,
       TimerFires, WatcherExit, Interrupt
  <2>2. \A w \in Workers : Owes(w, t)' <=> Owes(w, t)
    BY <2>1 DEF Owes
  <2>3. QED BY <2>1, <2>2, TurnFrame
<1>6. CASE UNCHANGED vars
  BY <1>6, TurnFrame DEF vars, Owes
<1>7. QED BY <1>1, <1>2, <1>3, <1>4, <1>5, <1>6 DEF Next

\* What follows the exit: the worker passes t on to the mark, and the mark to the plan.
LEMMA RestartStep ==
  ASSUME OneRunInv, SignalInv, CallersInv, [Next]_vars,
         NEW t \in Tasks, RestartsAlone(t), TurnInv(t), RestartInv(t)
  PROVE  RestartInv(t)'
<1> SUFFICES ASSUME state'[t] # "invalid", ~ rootDone',
                    \A w \in Workers : ~ Owes(w, t)'
             PROVE  t \in pending' /\ PlanComing(t)'
  BY DEF RestartInv
<1> USE DEF OneRunInv, TypeInv, TypeOK, Goto, Procs
<1>1. ~ rootDone /\ state'[t] # "canceled"
  <2>1. CallersInv'
    BY CallersStep
  <2>2. rootDone => rootDone'
    BY DEF Next, InvalidateCall, SkipMark, CheckMark, RecordMark, Send, Plan, PlanLock, Collect,
       SkipInvalidate, CancelRun, ResetRun, DrainRun, Pass, PassCheck, PassLock, PassSkip,
       PassLaunch, Worker, Begin, Return, Flush, SendTerminal, KeepAliveCheck, Leave, LoopStep,
       LoopReceive, LoopStop, LoopTimer, LoopSpawn, RunStep, RunBuild, RunStart, RunEarlyReturn,
       RunWait, Environment, CallInvalidate, TimerFires, WatcherExit, Interrupt, vars
  <2>3. QED BY <2>1, <2>2 DEF CallersInv
<1>2. ASSUME NEW w \in Workers, Owes(w, t)
      PROVE  pc[w] = "record" /\ RecordMark(w)
  <2>0. /\ job[w] = t /\ state[t] # "invalid"
        /\ pc[w] \in PreTokenPcs \cup {"keepAlive", "invalidate", "record"}
        /\ pc[w] \notin {"idle", "leave", "send", "plan", "collect", "invalidating", "reset",
                        "drain", "pass", "passLock", "visit"}
    BY <1>2 DEF Owes, TurnInv, PreTokenPcs, ActivePcs
  <2>1. ~ (pc'[w] = pc[w] /\ todo'[w] = todo[w] /\ cur'[w] = cur[w] /\ job'[w] = job[w])
    BY <1>2 DEF Owes
  <2>2. ASSUME NEW p \in Workers \cup Callers \cup Handlers, InvalidateCall(p)
        PROVE  p = w
    BY <2>1, <2>2 DEF InvalidateCall, SkipMark, CheckMark, RecordMark, Send, Marked
  <2>3. ASSUME NEW p \in Workers \cup {Loop}, Plan(p)
        PROVE  FALSE
    <3>1. p # w
      BY <2>0, <2>3 DEF Plan, PlanLock, Collect, SkipInvalidate, CancelRun, ResetRun, DrainRun
    <3>2. QED BY <2>1, <2>3, <3>1 DEF Plan, PlanLock, Collect, SkipInvalidate, CancelRun,
                 ResetRun, DrainRun, Planned
  <2>4. ASSUME NEW p \in Workers \cup Passers \cup {Main}, Pass(p)
        PROVE  FALSE
    <3>1. p # w
      BY <2>0, <2>4 DEF Pass, PassCheck, PassLock, PassSkip, PassLaunch
    <3>2. pc[w] # "idle"
      BY <2>0
    <3>3. QED BY <2>1, <2>4, <3>1, <3>2 DEF Pass, PassCheck, PassLock, PassSkip, PassLaunch,
                 Visited
  <2>5. ASSUME NEW v \in Workers, Worker(v)
        PROVE  v = w
    BY <2>1, <2>5 DEF Worker, Begin, Return, Flush, SendTerminal, KeepAliveCheck, Leave
  <2>6. ~ Worker(w)
    <3>1. state[t] # "canceled"
      BY <1>1 DEF CallersInv
    <3>2. \A u \in Tasks : job[w] = u => u = t
      BY <2>0
    <3>3. SUFFICES ASSUME Worker(w) PROVE Owes(w, t)'
      OBVIOUS
    <3>4. CASE Begin(w) \/ Return(w) \/ Flush(w)
      BY <2>0, <3>4 DEF Begin, Return, Flush, Owes, PreTokenPcs, ActivePcs
    <3>5. CASE SendTerminal(w)
      BY <2>0, <3>5 DEF SendTerminal, Owes, RestartsAlone
    <3>6. CASE KeepAliveCheck(w)
      BY <2>0, <3>1, <3>6 DEF KeepAliveCheck, Restarts, Owes
    <3>7. CASE Leave(w)
      BY <2>0, <3>7 DEF Leave
    <3>8. QED BY <3>3, <3>4, <3>5, <3>6, <3>7 DEF Worker
  <2>7. ~ (LoopStep \/ RunStep \/ Environment \/ UNCHANGED vars)
    BY <2>1, ProcsAssumption DEF LoopStep, LoopReceive, LoopStop, LoopTimer, LoopSpawn,
       RunStep, RunBuild, RunStart, RunEarlyReturn, RunWait, Environment, CallInvalidate,
       TimerFires, WatcherExit, Interrupt, vars
  <2>8. InvalidateCall(w)
    BY <2>2, <2>3, <2>4, <2>5, <2>6, <2>7 DEF Next
  <2>9. CASE SkipMark(w)
    <3>1. PICK u \in todo[w] :
            /\ Refused(w, u)
            /\ todo' = [todo EXCEPT ![w] = todo[w] \ {u}]
            /\ pc[w] = "invalidate"
            /\ todo[w] \ {u} # {} => pc'[w] = "invalidate" /\ job' = job
      BY <2>9 DEF SkipMark, Marked
    <3>2. u # t
      BY <2>0, <3>1 DEF Refused, Reason, RestartsAlone
    <3>3. Owes(w, t)'
      BY <1>2, <2>0, <3>1, <3>2 DEF Owes, PreTokenPcs, ActivePcs
    <3>4. QED BY <3>3
  <2>10. CASE CheckMark(w)
    <3>1. todo[w] = {t} /\ pc[w] = "invalidate"
      BY <1>2, <2>0, <2>10 DEF CheckMark, Owes, SignalInv, MarksInv, PreTokenPcs, ActivePcs
    <3>2. Owes(w, t)'
      BY <2>0, <2>10, <3>1 DEF CheckMark, Owes
    <3>3. QED BY <3>2
  <2>11. CASE RecordMark(w)
    BY <2>11 DEF RecordMark
  <2>12. CASE Send(w)
    BY <2>0, <2>12 DEF Send
  <2>13. QED BY <2>8, <2>9, <2>10, <2>11, <2>12 DEF InvalidateCall
<1>3. state[t] # "invalid"
  <2>1. SUFFICES ASSUME state[t] = "invalid" PROVE state'[t] = "invalid"
    OBVIOUS
  <2>2. \A w \in Workers : ~ (pc[w] \in ActivePcs /\ job[w] = t)
    BY <2>1 DEF TurnInv, Owes, PreTokenPcs
  <2>3. ASSUME NEW p \in Workers \cup Callers \cup Handlers, InvalidateCall(p)
        PROVE  UNCHANGED state
    BY <2>3 DEF InvalidateCall, SkipMark, CheckMark, RecordMark, Send
  <2>4. ASSUME NEW p \in Workers \cup {Loop}, Plan(p)
        PROVE  state'[t] = "invalid"
    BY <2>1, <2>4 DEF Plan, PlanLock, Collect, SkipInvalidate, CancelRun, ResetRun, DrainRun
  <2>5. ASSUME NEW p \in Workers \cup Passers \cup {Main}, Pass(p)
        PROVE  state'[t] = "invalid"
    <3>1. CASE PassCheck(p) \/ PassLock(p) \/ PassSkip(p)
      BY <2>1, <3>1 DEF PassCheck, PassLock, PassSkip
    <3>2. CASE PassLaunch(p)
      <4>1. PICK u \in todo[p], w \in Workers :
              /\ state' = [state EXCEPT ![u] = "running"]
              /\ job' = [job EXCEPT ![w] = u]
              /\ pc[w] = "idle" /\ pc[p] = "visit"
              /\ pc' = [pc EXCEPT ![w] = "launched", ![p] = VisitedPc(p, u)]
        BY <3>2 DEF PassLaunch
      <4>2. job'[w] = u /\ pc'[w] = "launched"
        BY <4>1
      <4>3. u # t
        BY <4>2 DEF Owes, PreTokenPcs, ActivePcs
      <4>4. QED BY <2>1, <4>1, <4>3
    <3>3. QED BY <2>5, <3>1, <3>2 DEF Pass
  <2>6. ASSUME NEW w \in Workers, Worker(w)
        PROVE  state'[t] = "invalid"
    BY <2>1, <2>2, <2>6 DEF Worker, Begin, Return, Flush, SendTerminal, KeepAliveCheck, Leave,
       ActivePcs
  <2>7. CASE LoopStep \/ RunStep \/ Environment \/ UNCHANGED vars
    BY <2>1, <2>7 DEF LoopStep, LoopReceive, LoopStop, LoopTimer, LoopSpawn, RunStep, RunBuild,
       RunStart, RunEarlyReturn, RunWait, Environment, CallInvalidate, TimerFires, WatcherExit,
       Interrupt, vars
  <2>8. QED BY <2>1, <2>3, <2>4, <2>5, <2>6, <2>7 DEF Next
<1>4. CASE \E w \in Workers : Owes(w, t)
  <2>1. PICK w \in Workers : Owes(w, t) /\ pc[w] = "record" /\ RecordMark(w)
    BY <1>2, <1>4
  <2>2. t \in pending' /\ Recording(t)
    BY <2>1, ProcsAssumption DEF Owes, RecordMark, Marked, Recording, AfterMarks, PreTokenPcs,
       ActivePcs
  <2>3. QED BY <1>1, <2>2, SignalStep DEF SignalInv
<1>5. CASE t \in pending /\ PlanComing(t)
  <2>1. t \in pending'
    <3>1. ASSUME NEW p \in Workers \cup {Loop}, Plan(p) PROVE t \in pending'
      <4>1. CASE DrainRun(p)
        BY <1>3, <1>5, <4>1 DEF DrainRun, TurnInv
      <4>2. CASE ~ DrainRun(p)
        BY <1>5, <3>1, <4>2 DEF Plan, PlanLock, Collect, SkipInvalidate, CancelRun, ResetRun
      <4>3. QED BY <4>1, <4>2
    <3>2. CASE ~ \E p \in Workers \cup {Loop} : Plan(p)
      BY <1>5, <3>2 DEF Next, InvalidateCall, SkipMark, CheckMark, RecordMark, Send, Pass,
         PassCheck, PassLock, PassSkip, PassLaunch, Worker, Begin, Return, Flush, SendTerminal,
         KeepAliveCheck, Leave, LoopStep, LoopReceive, LoopStop, LoopTimer, LoopSpawn, RunStep,
         RunBuild, RunStart, RunEarlyReturn, RunWait, Environment, CallInvalidate, TimerFires,
         WatcherExit, Interrupt, vars
    <3>3. QED BY <3>1, <3>2
  <2>2. QED BY <1>1, <1>5, <2>1, SignalStep DEF SignalInv
<1>6. QED BY <1>1, <1>3, <1>4, <1>5 DEF RestartInv

\* task.go:43: a KeepAlive task that exited, with an error or without, is about to be
\* invalidated and then planned, until the context of Run is done: a task that only its
\* own exits invalidate.  The code owes this to every KeepAlive task, but a plan that
\* another invalidation brings can swallow the mark of an exit.
THEOREM KeepAliveIsKept ==
  ASSUME \A t \in KeepAlive : RestartsAlone(t)
  PROVE  Spec => []KeepAliveRestarts
<1> DEFINE Inv == /\ OneRunInv /\ SignalInv /\ CallersInv
                  /\ \A t \in KeepAlive : TurnInv(t) /\ RestartInv(t)
<1>1. Init => Inv
  <2> SUFFICES ASSUME Init PROVE Inv
    OBVIOUS
  <2>1. CallersInv
    BY DEF Init, CallersInv, Procs
  <2>2. ASSUME NEW t \in KeepAlive PROVE TurnInv(t) /\ RestartInv(t)
    <3>1. t \in Tasks /\ state[t] = "invalid" /\ pending = {} /\ toInvalidate = {}
      BY OptionsAssumption DEF Init
    <3>2. \A p \in Procs : pc[p] \in {"build", "select", "idle"}
      BY DEF Init
    <3>3. \A w \in Workers : ~ Owes(w, t)
      BY <3>2 DEF Owes, PreTokenPcs, ActivePcs, Procs
    <3>4. QED BY <3>1, <3>2, <3>3 DEF TurnInv, RestartInv, ActivePcs, Procs
  <2>3. QED BY <2>1, <2>2, InitOneRun, InitSignal
<1>2. Inv /\ [Next]_vars => Inv'
  BY OneRunStep, SignalInvStep, CallersStep, TurnStep, RestartStep, OptionsAssumption
     DEF OneRunInv, SignalInv
<1>3. Inv => KeepAliveRestarts
  <2> SUFFICES ASSUME Inv, NEW t \in KeepAlive, state[t] \in {"done", "error"}, ~ rootDone,
                      ~ (t \in pending /\ PlanComing(t))
               PROVE  \E w \in Workers :
                        job[w] = t /\ pc[w] \in {"flushed", "keepAlive", "invalidate", "record"}
    BY DEF KeepAliveRestarts
  <2>1. PICK w \in Workers : Owes(w, t)
    BY DEF RestartInv
  <2>2. pc[w] \notin ActivePcs
    BY <2>1 DEF TurnInv, Owes
  <2>3. QED BY <2>1, <2>2 DEF Owes, PreTokenPcs
<1>4. QED BY <1>1, <1>2, <1>3, PTL DEF Spec
===============================================================================
