---------------------------- MODULE GoTasksProofs ----------------------------
(***************************************************************************)
(* Theorems about GoBuilder, for any number of callers, packages and       *)
(* requests in the channel, and about GoTasks: the executor and the        *)
(* builder keep to each other's specification, for every DAG and any       *)
(* number of goroutines and invalidations.  Theorems on builds take the    *)
(* callers to be Prompt: the half second of the timer is what the code     *)
(* relies on, and without it a build can end between a request and its     *)
(* registration.                                                           *)
(***************************************************************************)
EXTENDS GoTasks, TLAPS

USE DEF callVars, batchVars

-----------------------------------------------------------------------------
(* Types *)

LEMMA InitType == Init => TypeOK
  BY BuilderAssumption DEF Init, TypeOK

LEMMA NextType == TypeOK /\ [Next]_vars => TypeOK'
<1> SUFFICES ASSUME TypeOK, [Next]_vars PROVE TypeOK'
  OBVIOUS
<1> USE BuilderAssumption DEF TypeOK
<1>1. ASSUME NEW b \in Builders, Build(b) PROVE TypeOK'
  <2>1. CASE SendRequest(b)
    BY <2>1 DEF SendRequest, Request
  <2>2. CASE Lock(b)
    BY <2>2 DEF Lock
  <2>3. CASE Register(b)
    BY <2>3 DEF Register
  <2>4. CASE Wait(b)
    BY <2>4 DEF Wait
  <2>5. CASE Return(b)
    BY <2>5 DEF Return
  <2>6. QED BY <1>1, <2>1, <2>2, <2>3, <2>4, <2>5 DEF Build
<1>2. ASSUME NEW b \in Builders, Again(b) PROVE TypeOK'
  BY <1>2 DEF Again
<1>3. CASE Cancel
  BY <1>3 DEF Cancel, InBuild
<1>4. CASE Batch
  <2>1. CASE BatchReceive
    BY <2>1 DEF BatchReceive, Rearmed
  <2>2. CASE BatchTimer \/ BuildLock
    BY <2>2 DEF BatchTimer, BuildLock
  <2>3. CASE BuildEnds
    <3>1. err' \in BOOLEAN
      BY <2>3 DEF BuildEnds
    <3>2. /\ pc' \in [Builders -> {"idle", "sent", "locked", "registered", "waiting",
                                    "stuck", "released", "returned"}]
          /\ \A b \in Builders : pc'[b] \in {"idle", "returned"} => pc'[b] = pc[b]
      BY <2>3 DEF BuildEnds, Released
    <3>3. QED BY <2>3, <3>1, <3>2 DEF BuildEnds, PkgList
  <2>4. QED BY <1>4, <2>1, <2>2, <2>3 DEF Batch
<1>5. CASE TimerFires \/ UNCHANGED vars
  BY <1>5 DEF TimerFires, vars
<1>6. QED BY <1>1, <1>2, <1>3, <1>4, <1>5 DEF Next

\* Every variable keeps its type; contexts that are cancelled are those of calls that
\* have not returned.
THEOREM TypeCorrect == Spec => []TypeOK
<1>1. QED BY InitType, NextType, PTL DEF Spec

-----------------------------------------------------------------------------
(* No build is lost *)

\* The batcher holds the package of b and waits for half a second of silence, or
\* builds.
Gathering(b) == /\ Package[b] \in packages
                /\ timer = "armed" /\ batcher = "select"
Taken(b) == /\ Package[b] \in packages
            /\ timer # "stopped" \/ batcher \in {"lock", "install"}

\* The request of b is in the channel, or its package waits for the timer as long as
\* b is on its way to the channel that it will wait on, which is then open.
BatchInv ==
  /\ \A b \in Builders :
       /\ pc[b] \in {"sent", "locked", "registered"} => b \in requests \/ Gathering(b)
       /\ pc[b] = "waiting" => b \in requests \/ Taken(b)
       /\ pc[b] \in {"registered", "waiting"} => doneCh
       /\ pc[b] # "stuck"
  /\ batcher \in {"lock", "install"} => timer = "stopped"

LEMMA InitBatch == Init => BatchInv
  BY DEF Init, BatchInv

LEMMA BatchStep ==
  ASSUME Prompt, TypeOK, BatchInv, [Next]_vars
  PROVE  BatchInv'
<1> USE DEF TypeOK
<1>1. ASSUME NEW b \in Builders, Build(b) \/ Again(b) PROVE BatchInv'
  <2>1. CASE SendRequest(b)
    BY <2>1 DEF SendRequest, Request, BatchInv, Gathering, Taken
  <2>2. CASE Lock(b)
    BY <2>2 DEF Lock, BatchInv, Gathering, Taken
  <2>3. CASE Register(b)
    BY <2>3 DEF Register, BatchInv, Gathering, Taken
  <2>4. CASE Wait(b)
    BY <2>4 DEF Wait, BatchInv, Gathering, Taken
  <2>5. CASE Return(b) \/ Again(b)
    BY <2>5 DEF Return, Again, BatchInv, Gathering, Taken
  <2>6. QED BY <1>1, <2>1, <2>2, <2>3, <2>4, <2>5 DEF Build
<1>2. CASE BatchReceive
  BY <1>2 DEF BatchReceive, Rearmed, BatchInv, Gathering, Taken
<1>3. CASE TimerFires
  BY <1>3 DEF TimerFires, Between, BatchInv, Gathering, Taken
<1>4. CASE BatchTimer \/ BuildLock
  BY <1>4 DEF BatchTimer, BuildLock, BatchInv, Gathering, Taken
<1>5. CASE BuildEnds
  BY <1>5 DEF BuildEnds, Released, BatchInv, Gathering, Taken
<1>6. CASE Cancel \/ UNCHANGED vars
  BY <1>6 DEF Cancel, vars, BatchInv, Gathering, Taken
<1>7. QED BY <1>1, <1>2, <1>3, <1>4, <1>5, <1>6 DEF Next, Batch

BuildInv == TypeOK /\ BatchInv

LEMMA InitBuild == Init => BuildInv
  BY InitType, InitBatch DEF BuildInv

LEMMA BuildInvStep == ASSUME Prompt PROVE BuildInv /\ [Next]_vars => BuildInv'
  BY NextType, BatchStep DEF BuildInv

\* No lost build: while a caller of Build waits, its request is in the channel or its
\* package among those of the next build, and that build is coming.
THEOREM NoBuildIsLost == ASSUME Prompt PROVE Spec => []NoLostBuild
<1>1. BuildInv => NoLostBuild
  BY DEF BuildInv, BatchInv, Taken, NoLostBuild
<1>2. QED BY InitBuild, BuildInvStep, <1>1, PTL DEF Spec

\* The batch that lets a caller go holds its package, unless the request is still in
\* the channel (GoBuilder.build closes doneCh for everybody).
THEOREM BatchesAnswer == ASSUME Prompt PROVE Spec => AnswersItsBatch
<1>1. BuildInv /\ [Next]_vars =>
        [\A b \in Builders \ requests :
           pc[b] = "waiting" /\ pc'[b] = "released" => Package[b] \in built']_vars
  <2> SUFFICES ASSUME BuildInv, Next, NEW b \in Builders \ requests,
                      pc[b] = "waiting", pc'[b] = "released"
               PROVE  Package[b] \in built'
    OBVIOUS
  <2>1. BuildEnds
    BY DEF BuildInv, TypeOK, Next, Build, SendRequest, Lock, Register, Wait, Return, Again,
       Cancel, Batch, BatchReceive, BatchTimer, BuildLock, TimerFires
  <2>2. QED BY <2>1 DEF BuildEnds, PkgList, BuildInv, BatchInv, Taken
<1>2. QED BY InitBuild, BuildInvStep, <1>1, PTL DEF Spec, AnswersItsBatch

\* Nobody has read a nil channel.
NeverStuck == \A b \in Builders : pc[b] # "stuck"

\* No caller of Build waits on the nil channel that the end of a build leaves in doneCh,
\* though it reads it without the lock: a safety fact that BuildReturns rests on.
THEOREM NobodyIsStuck == ASSUME Prompt PROVE Spec => []NeverStuck
<1>1. BuildInv => NeverStuck
  BY DEF BuildInv, BatchInv, NeverStuck
<1>2. QED BY InitBuild, BuildInvStep, <1>1, PTL DEF Spec

-----------------------------------------------------------------------------
(* The executor in GoTasks *)

\* What is proved of the executor.
EP == INSTANCE ExecutorProofs WITH
  Tasks <- Builders, mu <- execMu, timer <- loopTimer, err <- taskErr, pc <- where

\* EP and E are instances of the same definitions.
LEMMA SameNext == E!Next <=> EP!Next
  BY DEF E!Procs, EP!Procs, E!Dependencies, EP!Dependencies, E!Dependents, EP!Dependents,
         E!CtxBelow, EP!CtxBelow, E!taskVars, EP!taskVars, E!planVars, EP!planVars,
         E!loopVars, EP!loopVars, E!runVars, EP!runVars, E!execVars, EP!execVars,
         E!locals, EP!locals, E!vars, EP!vars, E!Goto, EP!Goto, E!CtxErr, EP!CtxErr,
         E!AfterInvalidate, EP!AfterInvalidate, E!AfterMarks, EP!AfterMarks,
         E!AfterPlan, EP!AfterPlan, E!AfterPass, EP!AfterPass, E!Reason, EP!Reason,
         E!Refused, EP!Refused, E!CallInvalidate, EP!CallInvalidate, E!Marked, EP!Marked,
         E!SkipMark, EP!SkipMark, E!CheckMark, EP!CheckMark, E!RecordMark, EP!RecordMark,
         E!Send, EP!Send, E!PlanLock, EP!PlanLock, E!Collectable, EP!Collectable,
         E!Planned, EP!Planned, E!Collect, EP!Collect, E!SkipInvalidate, EP!SkipInvalidate,
         E!CancelRun, EP!CancelRun, E!WithNewContext, EP!WithNewContext,
         E!ResetRun, EP!ResetRun, E!Terminated, EP!Terminated, E!DrainRun, EP!DrainRun,
         E!PassCheck, EP!PassCheck, E!PassLock, EP!PassLock,
         E!ShouldExecute, EP!ShouldExecute, E!VisitedPc, EP!VisitedPc,
         E!Visited, EP!Visited, E!PassSkip, EP!PassSkip, E!PassLaunch, EP!PassLaunch,
         E!Begin, EP!Begin, E!Return, EP!Return, E!Flush, EP!Flush,
         E!SendTerminal, EP!SendTerminal, E!Restarts, EP!Restarts,
         E!KeepAliveCheck, EP!KeepAliveCheck, E!Reports, EP!Reports, E!Leave, EP!Leave,
         E!LoopReceive, EP!LoopReceive, E!LoopStop, EP!LoopStop, E!LoopTimer, EP!LoopTimer,
         E!LoopSpawn, EP!LoopSpawn, E!TimerFires, EP!TimerFires, E!RunBuild, EP!RunBuild,
         E!RunStart, EP!RunStart, E!RunEarlyReturn, EP!RunEarlyReturn, E!Exited, EP!Exited,
         E!RunWait, EP!RunWait, E!WatcherExit, EP!WatcherExit, E!Interrupt, EP!Interrupt,
         E!InvalidateCall, EP!InvalidateCall, E!Plan, EP!Plan, E!Pass, EP!Pass,
         E!Worker, EP!Worker, E!LoopStep, EP!LoopStep, E!RunStep, EP!RunStep,
         E!Environment, EP!Environment, E!Next, EP!Next

LEMMA SameVars == UNCHANGED execVars => UNCHANGED EP!vars
  BY DEF execVars, EP!vars, EP!taskVars, EP!execVars, EP!planVars, EP!loopVars, EP!runVars,
         EP!locals

\* The builder and its callers do nothing to the executor but return from a task.
LEMMA IsExecutorStep == [GNext]_allVars => [EP!Next]_(EP!vars)
<1>1. ASSUME NEW w \in Workers, TaskReturns(w) PROVE E!Next
  BY <1>1 DEF TaskReturns, E!Next, E!Worker
<1>2. ASSUME NEW w \in Workers, BuildStep(w) PROVE UNCHANGED execVars
  BY <1>2 DEF BuildStep
<1>3. BatcherStep => UNCHANGED execVars
  BY DEF BatcherStep
<1>4. ExecutorStep => E!Next
  BY DEF ExecutorStep
<1>5. UNCHANGED allVars => UNCHANGED execVars
  BY DEF allVars
<1>6. QED BY <1>1, <1>2, <1>3, <1>4, <1>5, SameNext, SameVars DEF GNext

LEMMA InitExecutor == GInit => EP!OneRunInv
<1>1. E!Init <=> EP!Init
  BY DEF E!Init, EP!Init, E!Procs, EP!Procs
<1>2. QED BY <1>1, EP!InitOneRun, ExecutorAssumption
          DEF GInit, E!Procs, EP!Procs, E!Reasons, EP!Reasons

LEMMA ExecutorHolds == EP!OneRunInv /\ [GNext]_allVars => EP!OneRunInv'
  BY EP!OneRunStep, IsExecutorStep, ExecutorAssumption
  DEF E!Procs, EP!Procs, E!Reasons, EP!Reasons

\* Two goroutines never run the same task at once, whatever is being built for whom.
THEOREM GOneRunAtATime == GSpec => []E!AtMostOneRun
<1>1. EP!OneRunInv => E!AtMostOneRun
  BY DEF EP!OneRunInv, EP!AtMostOneRun, E!AtMostOneRun, EP!PreTokenPcs, E!PreTokenPcs,
         EP!ActivePcs, E!ActivePcs
<1>2. QED BY InitExecutor, ExecutorHolds, <1>1, PTL DEF GSpec

-----------------------------------------------------------------------------
(* The tasks are the callers of Build that GoBuilder was modelled for *)

\* A running worker has a task, one that it keeps, and a cancelled run stays so.
LEMMA RunsKeepOn ==
  ASSUME EP!OneRunInv, [GNext]_allVars, NEW w \in Workers, where[w] = "running"
  PROVE  /\ job[w] \in Builders
         /\ where'[w] = "running" =>
              job'[w] = job[w] /\ (E!CtxErr(w) => E!CtxErr(w)')
<1>1. EP!TypeInv /\ [EP!Next]_(EP!vars)
  BY IsExecutorStep DEF EP!OneRunInv
<1>2. job[w] \in Builders
  BY <1>1 DEF EP!TypeInv, EP!LocalInv, EP!PreTokenPcs, EP!ActivePcs
<1>3. QED BY <1>1, <1>2, EP!RunStaysCancelled, ExecutorAssumption
          DEF E!Procs, EP!Procs, E!Reasons, EP!Reasons, E!CtxErr, EP!CtxErr

\* The callers inside Build whose context is cancelled are those whose worker's is.
CancelInv == canceled = Canceled

LEMMA CancelStep ==
  ASSUME EP!OneRunInv, CancelInv, [GNext]_allVars
  PROVE  CancelInv'
<1>1. CASE ExecutorStep \/ \E w \in Workers : BuildStep(w)
  BY <1>1 DEF ExecutorStep, BuildStep, CancelInv
<1>2. ASSUME NEW w \in Workers, TaskReturns(w) PROVE CancelInv'
  <2>1. /\ job[w] \notin InBuild /\ InBuild' = InBuild /\ UNCHANGED <<canceled, job>>
        /\ UNCHANGED <<rootDone, stale, ctxDone>>
    BY <1>2 DEF TaskReturns, Again, InBuild, E!Return, E!taskVars, E!execVars, E!runVars
  <2>2. \A v \in Workers \ {w} : where'[v] = where[v]
    BY <1>2 DEF TaskReturns, E!Return, E!Goto
  <2>3. \A v \in Workers : E!CtxErr(v)' <=> E!CtxErr(v)
    BY <2>1 DEF E!CtxErr
  <2>4. Canceled' = Canceled
    BY <2>1, <2>2, <2>3 DEF Canceled
  <2>5. QED BY <2>1, <2>4 DEF CancelInv
<1>3. CASE BatcherStep
  <2>1. InBuild' = InBuild /\ canceled' = canceled
    BY <1>3 DEF BatcherStep, Batch, BatchReceive, BatchTimer, BuildLock, BuildEnds, TimerFires,
       Released, InBuild
  <2>2. QED BY <1>3, <2>1 DEF BatcherStep, CancelInv, Canceled, E!CtxErr, execVars
<1>4. CASE UNCHANGED allVars
  BY <1>4 DEF allVars, vars, execVars, CancelInv, Canceled, InBuild, E!CtxErr
<1>5. QED BY <1>1, <1>2, <1>3, <1>4 DEF GNext

GInv == EP!OneRunInv /\ CancelInv

LEMMA InitG == GInit => GInv
<1>1. GInit => CancelInv
  BY DEF GInit, Init, CancelInv, Canceled, InBuild
<1>2. QED BY <1>1, InitExecutor DEF GInv

LEMMA GStep == GInv /\ [GNext]_allVars => GInv'
  BY ExecutorHolds, CancelStep DEF GInv

\* What the executor does is a step of Cancel, or nothing to the builder.
LEMMA ExecutorCancels ==
  ASSUME GInv, ExecutorStep
  PROVE  [Next]_vars
<1>1. /\ InBuild' = InBuild
      /\ UNCHANGED <<requests, packages, timer, mu, doneCh, ctx, built, err, batcher, pc, result>>
  BY DEF ExecutorStep, InBuild
<1>2. Canceled \subseteq Canceled'
  <2> SUFFICES ASSUME NEW b \in InBuild, NEW w \in Workers, where[w] = "running",
                      job[w] = b, E!CtxErr(w)
               PROVE  where'[w] = "running" /\ job'[w] = b /\ E!CtxErr(w)'
    BY <1>1 DEF Canceled
  <2>1. where'[w] = "running"
    BY DEF ExecutorStep
  <2>2. QED BY <2>1, RunsKeepOn DEF GInv, GNext
<1>3. canceled \subseteq canceled' /\ canceled' \subseteq InBuild
  BY <1>1, <1>2 DEF GInv, CancelInv, ExecutorStep, Canceled
<1>4. CASE canceled' = canceled
  BY <1>1, <1>4 DEF vars
<1>5. CASE canceled' # canceled
  <2>1. canceled' \ canceled # {} /\ canceled' = canceled \cup canceled'
    BY <1>3, <1>5
  <2>2. Cancel
    BY <1>1, <1>3, <2>1 DEF Cancel, batchVars
  <2>3. QED BY <2>2 DEF Next
<1>6. QED BY <1>4, <1>5

LEMMA RefineStep == GInv /\ [GNext]_allVars => [Next]_vars
<1> SUFFICES ASSUME GInv, [GNext]_allVars PROVE [Next]_vars
  OBVIOUS
<1>1. ASSUME NEW w \in Workers, BuildStep(w) \/ TaskReturns(w) PROVE Next
  <2>1. where[w] = "running"
    BY <1>1 DEF BuildStep, TaskReturns, E!Return
  <2>2. job[w] \in Builders
    BY <2>1, RunsKeepOn DEF GInv
  <2>3. QED BY <1>1, <2>2 DEF BuildStep, TaskReturns, Next
<1>2. CASE BatcherStep
  BY <1>2 DEF BatcherStep, Next
<1>3. CASE UNCHANGED allVars
  BY <1>3 DEF allVars
<1>4. QED BY <1>1, <1>2, <1>3, ExecutorCancels DEF GNext

\* What the executor does to the contexts of its tasks, and when it runs them again, is
\* what GoBuilder was modelled for: a task calls Build again only after its last call has
\* returned, and a call that is cancelled stays cancelled until then.
THEOREM BuilderRefinement == GSpec => ImplementsGoBuilder
<1>1. GInit => Init
  BY DEF GInit
<1>2. QED BY InitG, GStep, RefineStep, <1>1, PTL DEF GSpec, Spec, ImplementsGoBuilder

\* So no build of a task is lost, though plans and interrupts cancel the tasks that wait.
THEOREM NoTaskLosesItsBuild == ASSUME Prompt PROVE GSpec => []NoLostBuild
<1>1. QED BY BuilderRefinement, NoBuildIsLost, PTL DEF ImplementsGoBuilder

\* And the batch that lets a task go holds its package, with the same exception.
THEOREM TasksGetTheirBatch == ASSUME Prompt PROVE GSpec => AnswersItsBatch
<1>1. QED BY BuilderRefinement, BatchesAnswer, PTL DEF ImplementsGoBuilder
=============================================================================
