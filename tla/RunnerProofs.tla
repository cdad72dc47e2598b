----------------------------- MODULE RunnerProofs -----------------------------
(***************************************************************************)
(* Theorems about Runner, for every DAG and any number of goroutines,      *)
(* subscriptions, events and room in their channels.                       *)
(***************************************************************************)
EXTENDS Runner, PassProofs

\* The groups of variables an action leaves alone.
USE DEF taskVars, planVars, loopVars, runVars, execVars, locals, shown, busVars, endVars

-----------------------------------------------------------------------------
(* Runner and the executor in it *)

\* An error of Executor.Run cancels its context, whether or not a signal can.
RootCancelled ==
  /\ rootDone' \in BOOLEAN /\ (rootDone => rootDone')
  /\ UNCHANGED <<taskVars, planVars, loopVars, watcher, failed, calls, locals, pc>>

\* What Runner adds to the steps of the executor does not change them.
LEMMA ExecutorStep ==
  ASSUME TypeOK, [RNext]_rvars
  PROVE  [Next]_vars \/ RootCancelled
<1>1. ASSUME NEW p \in Procs, Deliver(p) PROVE UNCHANGED vars
  BY <1>1 DEF Deliver
<1>2. ASSUME NEW p \in Procs, Quiet(p) PROVE Next
  BY <1>2, ProcsAssumption DEF Quiet, Next, Plan, Worker, RunStep, Procs
<1>3. ASSUME NEW p \in Workers \cup {Loop}, CollectTask(p) PROVE Next
  BY <1>3 DEF CollectTask, Next, Plan
<1>4. ASSUME NEW w \in Workers, WorkerStep(w) PROVE [Next]_vars
  BY <1>4 DEF WorkerStep, BeginRun, Log, ReturnRun, EndRun, Next, Worker
<1>5. CASE Surroundings
  BY <1>5 DEF Surroundings, Next
<1>6. CASE RunnerStep
  BY <1>6 DEF RunnerStep, ReturnEarly, TasksExited, StopHooks, CloseChannels, Exit, Next, RunStep,
     RootCancelled, TypeOK
<1>7. ASSUME NEW s \in Subs, Read(s) \/ Drained(s) PROVE UNCHANGED vars
  BY <1>7 DEF Read, Drained
<1>8. CASE UNCHANGED rvars
  BY <1>8 DEF rvars
<1>9. QED BY <1>1, <1>2, <1>3, <1>4, <1>5, <1>6, <1>7, <1>8 DEF RNext

\* Who holds what does not depend on the context of Run.
LEMMA OneRunHolds ==
  ASSUME OneRunInv, [RNext]_rvars
  PROVE  OneRunInv'
<1>1. CASE [Next]_vars
  BY <1>1, OneRunStep
<1>2. CASE RootCancelled
  BY <1>2 DEF RootCancelled, OneRunInv, TypeInv, TypeOK, LocalInv, LockInv, TokenInv, AtMostOneRun
<1>3. QED BY <1>1, <1>2, ExecutorStep DEF OneRunInv, TypeInv

-----------------------------------------------------------------------------
(* Types *)

BusTypeOK ==
  /\ out \in [Procs -> [event : Events, to : Subs] \cup {Nothing}]
  /\ ch \in [Subs -> Seq(Events)] /\ \A s \in Subs : Len(ch[s]) <= Capacity
  /\ logs \in [Workers -> 0..MaxLogs]
  /\ reading \subseteq Subs
  /\ view \in [Subs -> [Tasks -> Kinds \cup {"none"}]]
  /\ begun \in [Subs -> SUBSET Tasks]

EndTypeOK ==
  /\ stage \in {"run", "hooks", "close", "closed", "exited", "panicked"}
  /\ runErr \in {"nil", "undefined", "error"}
  /\ annotated \subseteq Tasks
  /\ hookFailed \in BOOLEAN
  /\ interrupted \in BOOLEAN

LEMMA RTypeParts == RTypeOK <=> TypeOK /\ BusTypeOK /\ EndTypeOK
  BY DEF RTypeOK, BusTypeOK, EndTypeOK

LEMMA PublishType ==
  ASSUME BusTypeOK, NEW p \in Procs, NEW k \in Kinds, NEW t \in Tasks, Publish(p, k, t)
  PROVE  /\ out' \in [Procs -> [event : Events, to : Subs] \cup {Nothing}]
         /\ out'[p] = [event |-> [kind |-> k, task |-> t], to |-> 1]
         /\ \A q \in Procs \ {p} : out'[q] = out[q]
<1>1. [event |-> [kind |-> k, task |-> t], to |-> 1] \in [event : Events, to : Subs]
  BY RunnerAssumption DEF Events, Subs
<1>2. QED BY <1>1 DEF Publish, BusTypeOK

LEMMA DeliverType ==
  ASSUME BusTypeOK, NEW p \in Procs, Deliver(p)
  PROVE  BusTypeOK'
<1> USE DEF BusTypeOK
<1>1. out[p] \in [event : Events, to : Subs]
  BY DEF Deliver
<1>2. CASE stage = "closed"
  BY <1>2 DEF Deliver
<1>3. CASE stage # "closed"
  <2> DEFINE s == out[p].to
  <2>1. s \in Subs /\ out[p].event \in Events /\ Len(ch[s]) \in Nat /\ Len(ch[s]) < Capacity
    BY <1>1, <1>3 DEF Deliver, Room
  <2>2. /\ ch' = [ch EXCEPT ![s] = Append(ch[s], out[p].event)]
        /\ out' = [out EXCEPT ![p] = IF s = Subscribers THEN Nothing
                                     ELSE [out[p] EXCEPT !.to = s + 1]]
    BY <1>3 DEF Deliver
  <2>3. s # Subscribers => [out[p] EXCEPT !.to = s + 1] \in [event : Events, to : Subs]
    <3>1. s # Subscribers => s + 1 \in Subs
      BY <2>1, RunnerAssumption DEF Subs
    <3>2. QED BY <1>1, <3>1
  <2>4. /\ Append(ch[s], out[p].event) \in Seq(Events)
        /\ Len(Append(ch[s], out[p].event)) <= Capacity
    BY <2>1, RunnerAssumption
  <2>5. UNCHANGED <<logs, reading, shown>>
    BY DEF Deliver
  <2>6. QED BY <2>1, <2>2, <2>3, <2>4, <2>5
<1>4. QED BY <1>2, <1>3

\* The tasks of which a run is open after event e, with those of S open before it.
After(S, e) ==
  CASE e.kind = "started" -> S \cup {e.task}
    [] e.kind \in Outcomes -> S \ {e.task}
    [] OTHER -> S

LEMMA ReadType ==
  ASSUME BusTypeOK, NEW s \in Subs, Read(s)
  PROVE  BusTypeOK'
<1> USE DEF BusTypeOK
<1>1. /\ Head(ch[s]) \in Events /\ Tail(ch[s]) \in Seq(Events)
      /\ Len(Tail(ch[s])) <= Capacity
  BY RunnerAssumption DEF Read
<1>2. Head(ch[s]).kind \in Kinds /\ Head(ch[s]).task \in Tasks
  BY <1>1 DEF Events
<1>3. /\ ch' = [ch EXCEPT ![s] = Tail(ch[s])]
      /\ reading' \subseteq Subs
      /\ UNCHANGED <<out, logs>>
  BY DEF Read
<1>4. view' \in [Subs -> [Tasks -> Kinds \cup {"none"}]]
  <2>1. CASE UNCHANGED view
    BY <2>1
  <2>2. CASE view' = [view EXCEPT ![s][Head(ch[s]).task] = Head(ch[s]).kind]
    BY <1>2, <2>2
  <2>3. QED BY <2>1, <2>2 DEF Read
<1>5. begun' \in [Subs -> SUBSET Tasks]
  <2>1. CASE UNCHANGED begun
    BY <2>1
  <2>2. CASE begun' = [begun EXCEPT ![s] = After(begun[s], Head(ch[s]))]
    <3>1. After(begun[s], Head(ch[s])) \subseteq Tasks
      BY <1>2 DEF After
    <3>2. QED BY <2>2, <3>1
  <2>3. QED BY <2>1, <2>2 DEF Read, After
<1>6. QED BY <1>1, <1>3, <1>4, <1>5

\* The task that a plan looks at, and the event when it is one to invalidate.
LEMMA CollectPublishes ==
  ASSUME TypeOK, BusTypeOK, NEW p \in Workers \cup {Loop}, CollectTask(p)
  PROVE  \E t \in Tasks : Publish(p, "invalidated", t) \/ UNCHANGED busVars
<1>1. PICK t \in todo[p] : todo' = [todo EXCEPT ![p] = todo[p] \ {t}]
  BY DEF CollectTask, Collect
<1>2. t \in todo[p] \ todo'[p] /\ t \in Tasks
  BY <1>1 DEF TypeOK, Procs
<1>3. QED BY <1>2 DEF CollectTask

LEMMA BusTypeStep ==
  ASSUME TypeInv, BusTypeOK, [RNext]_rvars
  PROVE  BusTypeOK'
<1>1. ASSUME NEW p \in Procs, Quiet(p) PROVE BusTypeOK'
  BY <1>1 DEF Quiet, BusTypeOK
<1>2. ASSUME NEW p \in Workers \cup {Loop}, CollectTask(p) PROVE BusTypeOK'
  <2>1. PICK t \in Tasks : Publish(p, "invalidated", t) \/ UNCHANGED busVars
    BY <1>2, CollectPublishes DEF TypeInv
  <2>2. UNCHANGED <<ch, reading, shown, logs>>
    BY <1>2, <2>1 DEF CollectTask, Publish
  <2>3. p \in Procs /\ "invalidated" \in Kinds
    BY DEF Procs, Kinds
  <2>4. QED BY <2>1, <2>2, <2>3, PublishType DEF BusTypeOK
<1>3. ASSUME NEW w \in Workers, WorkerStep(w) PROVE BusTypeOK'
  <2>0. w \in Procs
    BY DEF Procs
  <2>1. CASE ReturnRun(w)
    BY <2>1 DEF ReturnRun, BusTypeOK
  <2>2. CASE BeginRun(w) \/ Log(w) \/ EndRun(w)
    <3>1. job[w] \in Tasks
      BY <2>2 DEF BeginRun, Begin, Log, EndRun, Flush, TypeInv, LocalInv, PreTokenPcs, ActivePcs
    <3>2. PICK k \in Kinds : Publish(w, k, job[w])
      BY <2>2 DEF BeginRun, Log, EndRun, Flush, Outcome, Kinds, Outcomes
    <3>3. logs' \in [Workers -> 0..MaxLogs]
      <4>1. logs[w] \in 0..MaxLogs
        BY DEF BusTypeOK
      <4>2. CASE BeginRun(w)
        BY <4>2, RunnerAssumption DEF BeginRun, BusTypeOK
      <4>3. CASE Log(w)
        BY <4>1, <4>3, RunnerAssumption DEF Log, BusTypeOK
      <4>4. CASE EndRun(w)
        BY <4>4 DEF EndRun, BusTypeOK
      <4>5. QED BY <2>2, <4>2, <4>3, <4>4
    <3>4. UNCHANGED <<ch, reading, shown>>
      BY <3>2 DEF Publish
    <3>5. QED BY <2>0, <3>1, <3>2, <3>3, <3>4, PublishType DEF BusTypeOK
  <2>3. QED BY <1>3, <2>1, <2>2 DEF WorkerStep
<1>4. CASE Surroundings \/ RunnerStep \/ UNCHANGED rvars
  BY <1>4 DEF Surroundings, RunnerStep, ReturnEarly, TasksExited, StopHooks, CloseChannels, Exit,
     rvars, BusTypeOK
<1>5. ASSUME NEW s \in Subs, Drained(s) PROVE BusTypeOK'
  BY <1>5 DEF Drained, BusTypeOK
<1>6. QED BY <1>1, <1>2, <1>3, <1>4, <1>5, DeliverType, ReadType DEF RNext

LEMMA EndTypeStep ==
  ASSUME TypeOK, EndTypeOK, [RNext]_rvars
  PROVE  EndTypeOK'
<1> USE DEF EndTypeOK
<1>1. ASSUME NEW p \in Procs, Deliver(p) \/ Quiet(p) PROVE EndTypeOK'
  BY <1>1 DEF Deliver, Quiet
<1>2. ASSUME NEW p \in Workers \cup {Loop}, CollectTask(p) PROVE EndTypeOK'
  BY <1>2 DEF CollectTask
<1>3. ASSUME NEW w \in Workers, WorkerStep(w) PROVE EndTypeOK'
  BY <1>3 DEF WorkerStep, BeginRun, Log, ReturnRun, EndRun
<1>4. CASE Surroundings
  BY <1>4 DEF Surroundings
<1>5. CASE RunnerStep
  BY <1>5 DEF RunnerStep, ReturnEarly, AfterEarlyReturn, TasksExited, StopHooks, FailedTasks,
     CloseChannels, Exit
<1>6. ASSUME NEW s \in Subs, Read(s) \/ Drained(s) PROVE EndTypeOK'
  BY <1>6 DEF Read, Drained
<1>7. CASE UNCHANGED rvars
  BY <1>7 DEF rvars
<1>8. QED BY <1>1, <1>2, <1>3, <1>4, <1>5, <1>6, <1>7 DEF RNext

RTypeInv == OneRunInv /\ BusTypeOK /\ EndTypeOK

LEMMA InitRType == RInit => RTypeInv
<1> SUFFICES ASSUME RInit PROVE BusTypeOK /\ EndTypeOK
  BY InitOneRun DEF RInit, RTypeInv
<1>1. BusTypeOK
  BY RunnerAssumption DEF RInit, BusTypeOK
<1>2. EndTypeOK
  BY DEF RInit, EndTypeOK
<1>3. QED BY <1>1, <1>2

LEMMA RTypeStep == RTypeInv /\ [RNext]_rvars => RTypeInv'
  BY OneRunHolds, BusTypeStep, EndTypeStep DEF RTypeInv, OneRunInv, TypeInv

\* Every variable keeps its type: no channel holds more than its capacity, and nothing
\* but the events of tasks is in one.
THEOREM RTypeCorrect == RSpec => []RTypeOK
<1>1. RTypeInv => RTypeOK
  BY RTypeParts DEF RTypeInv, OneRunInv, TypeInv
<1>2. QED BY InitRType, RTypeStep, <1>1, PTL DEF RSpec

\* The runs of a task do not overlap in the whole program either, whatever its
\* subscriptions do and however it ends.
THEOREM ROneRunAtATime == RSpec => []AtMostOneRun
<1>1. RTypeInv => AtMostOneRun
  BY DEF RTypeInv, OneRunInv
<1>2. QED BY InitRType, RTypeStep, <1>1, PTL DEF RSpec
-----------------------------------------------------------------------------
(* The runs that a subscription sees *)

\* Worker w has begun a run, and subscription s has its beginning and not its end in
\* its channel, or before.
Between(w, s) ==
  \/ pc[w] = "running" /\ (out[w] # Nothing /\ out[w].event.kind = "started" => s < out[w].to)
  \/ pc[w] \in {"stopped", "failed", "completed"}
  \/ pc[w] = "flushed" /\ out[w] # Nothing /\ out[w].to <= s

Open(s) == {t \in Tasks : \E w \in Workers : job[w] = t /\ Between(w, s)}

\* A goroutine publishes the beginning, a line and the end of a run where it is in the
\* run, about its task; all else is an invalidation.
OutInv ==
  \A p \in Procs : out[p] # Nothing =>
    \/ out[p].event.kind = "invalidated"
    \/ p \in Workers /\ pc[p] = "running" /\ out[p].event.kind \in {"started", "log"}
    \/ p \in Workers /\ pc[p] = "flushed" /\ out[p].event.kind \in Outcomes

OwnInv ==
  \A w \in Workers : out[w] # Nothing =>
    /\ pc[w] \notin {"idle", "launched", "stopped", "failed", "completed"}
    /\ pc[w] \in {"running", "flushed"} =>
         out[w].event.task = job[w] /\ out[w].event.kind # "invalidated"

Fits(S, e) ==
  /\ e.kind = "started" => e.task \notin S
  /\ e.kind \in Outcomes \cup {"log"} => e.task \in S

\* f says which runs are open before each event of s and after the last one.
IsTrace(f, s) ==
  /\ f[1] = begun[s]
  /\ f[Len(ch[s]) + 1] = Open(s)
  /\ \A i \in 1..Len(ch[s]) : Fits(f[i], ch[s][i]) /\ f[i + 1] = After(f[i], ch[s][i])

Traced(s) == \E f \in [1..Len(ch[s]) + 1 -> SUBSET Tasks] : IsTrace(f, s)

\* A subscription that has left does not look at what it read last.
TraceInv == \A s \in reading \cup (Subs \ Quitters) : Traced(s)

RunPcs == {"running", "stopped", "failed", "completed", "flushed"}

LEMMA BetweenRuns ==
  ASSUME NEW w \in Workers, NEW s \in Subs, Between(w, s)
  PROVE  pc[w] \in PreTokenPcs
  BY DEF Between, PreTokenPcs, ActivePcs

\* Steps between which no subscription gets an event, and no run is where it was not.
LEMMA OpenFrame ==
  ASSUME NEW s \in Subs,
         \A w \in Workers : Between(w, s)' <=> Between(w, s),
         \A w \in Workers : Between(w, s) => job'[w] = job[w]
  PROVE  Open(s)' = Open(s)
  BY DEF Open

LEMMA TraceFrame ==
  ASSUME TraceInv,
         UNCHANGED <<ch, begun>>,
         reading' \subseteq reading,
         \A s \in Subs : Open(s)' = Open(s),
         reading \subseteq Subs
  PROVE  TraceInv'
<1> SUFFICES ASSUME NEW s \in reading \cup (Subs \ Quitters) PROVE Traced(s)'
  BY DEF TraceInv
<1>1. Traced(s) /\ Open(s)' = Open(s)
  BY DEF TraceInv
<1>2. QED BY <1>1 DEF Traced, IsTrace

\* A goroutine that publishes nothing in a step is not in a run, before or after it, and
\* the others stay where they are in theirs.
LEMMA QuietFrame ==
  ASSUME TypeInv, NEW p \in Procs, Quiet(p)
  PROVE  /\ pc[p] \notin ActivePcs /\ pc'[p] \notin PreTokenPcs
         /\ \A q \in Procs \ {p} :
              \/ pc'[q] = pc[q] /\ job'[q] = job[q]
              \/ pc[q] = "idle" /\ pc'[q] \in {"launched", "pass"}
<1> USE DEF TypeInv, TypeOK, Goto, PreTokenPcs, ActivePcs
<1>1. CASE InvalidateCall(p)
  BY <1>1 DEF InvalidateCall, SkipMark, CheckMark, RecordMark, Send, Marked, AfterInvalidate,
     AfterMarks
<1>2. CASE PlanLock(p) \/ SkipInvalidate(p) \/ CancelRun(p) \/ ResetRun(p) \/ DrainRun(p)
  BY <1>2 DEF PlanLock, SkipInvalidate, CancelRun, ResetRun, DrainRun, Planned, AfterPlan
<1>3. CASE Pass(p)
  <2>1. AfterPass(p) \notin PreTokenPcs
    BY DEF AfterPass
  <2>2. CASE PassLaunch(p)
    <3>1. PICK t \in todo[p], w \in Workers :
            /\ pc[w] = "idle" /\ pc[p] = "visit"
            /\ job' = [job EXCEPT ![w] = t]
            /\ pc' = [pc EXCEPT ![w] = "launched", ![p] = VisitedPc(p, t)]
      BY <2>2 DEF PassLaunch
    <3>2. VisitedPc(p, t) \notin PreTokenPcs
      BY <2>1 DEF VisitedPc
    <3>3. w # p
      BY <3>1
    <3>4. QED BY <3>1, <3>2, <3>3 DEF Procs
  <2>3. CASE PassCheck(p) \/ PassLock(p) \/ PassSkip(p)
    BY <2>1, <2>3 DEF PassCheck, PassLock, PassSkip, VisitedPc
  <2>4. QED BY <1>3, <2>2, <2>3 DEF Pass
<1>4. CASE p \in Workers /\ (SendTerminal(p) \/ KeepAliveCheck(p) \/ Leave(p))
  BY <1>4 DEF SendTerminal, KeepAliveCheck, Leave, AfterInvalidate
<1>5. CASE p = Loop /\ LoopStep
  BY <1>5 DEF LoopStep, LoopReceive, LoopStop, LoopTimer, LoopSpawn, Procs
<1>6. CASE p = Main /\ (RunBuild \/ RunStart)
  BY <1>6 DEF RunBuild, RunStart
<1>7. QED BY <1>1, <1>2, <1>3, <1>4, <1>5, <1>6 DEF Quiet

LEMMA QuietTraces ==
  ASSUME RTypeInv, OutInv, OwnInv, TraceInv, NEW p \in Procs, Quiet(p)
  PROVE  OutInv' /\ OwnInv' /\ TraceInv'
<1>1. /\ out[p] = Nothing /\ UNCHANGED <<out, ch, reading, begun>>
  BY DEF Quiet, Ready
<1>2. /\ pc[p] \notin ActivePcs /\ pc'[p] \notin PreTokenPcs
      /\ \A q \in Procs \ {p} :
           \/ pc'[q] = pc[q] /\ job'[q] = job[q]
           \/ pc[q] = "idle" /\ pc'[q] \in {"launched", "pass"}
  BY QuietFrame DEF RTypeInv, OneRunInv
<1>3. OutInv'
  BY <1>1, <1>2 DEF OutInv, PreTokenPcs, ActivePcs
<1>4. OwnInv'
  BY <1>1, <1>2 DEF OwnInv, Procs, PreTokenPcs, ActivePcs
<1>5. ASSUME NEW s \in Subs PROVE Open(s)' = Open(s)
  <2>1. ASSUME NEW w \in Workers
        PROVE  /\ Between(w, s)' <=> Between(w, s)
               /\ Between(w, s) => job'[w] = job[w]
    BY <1>1, <1>2 DEF Between, Procs, PreTokenPcs, ActivePcs
  <2>2. QED BY <2>1, OpenFrame
<1>6. QED BY <1>1, <1>3, <1>4, <1>5, TraceFrame DEF RTypeInv, BusTypeOK

LEMMA CollectTraces ==
  ASSUME RTypeInv, OutInv, OwnInv, TraceInv, NEW p \in Workers \cup {Loop}, CollectTask(p)
  PROVE  OutInv' /\ OwnInv' /\ TraceInv'
<1>0. p \in Procs
  BY DEF Procs
<1>1. PICK t \in Tasks : Publish(p, "invalidated", t) \/ UNCHANGED busVars
  BY CollectPublishes DEF RTypeInv, OneRunInv, TypeInv
<1>2. /\ UNCHANGED <<ch, reading, begun, job>>
      /\ \A q \in Procs \ {p} : out'[q] = out[q] /\ pc'[q] = pc[q]
      /\ out'[p] # Nothing => out'[p].event.kind = "invalidated"
  <2>1. \A q \in Procs \ {p} : pc'[q] = pc[q]
    BY <1>0 DEF CollectTask, Collect, Planned, Goto, RTypeInv, OneRunInv, TypeInv, TypeOK
  <2>2. out[p] = Nothing
    BY DEF CollectTask, Ready
  <2>3. "invalidated" \in Kinds
    BY DEF Kinds
  <2>4. /\ \A q \in Procs \ {p} : out'[q] = out[q]
        /\ out'[p] # Nothing => out'[p].event.kind = "invalidated"
    <3>1. CASE UNCHANGED busVars
      BY <2>2, <3>1
    <3>2. CASE Publish(p, "invalidated", t)
      BY <1>0, <3>2 DEF Publish, RTypeInv, BusTypeOK
    <3>3. QED BY <1>1, <3>1, <3>2
  <2>5. QED BY <1>1, <2>1, <2>4 DEF Publish, CollectTask, Collect
<1>3. pc[p] = "collect" /\ pc'[p] \in {"collect", "invalidating", "spawn", "pass"}
  BY <1>0 DEF CollectTask, Collect, Planned, AfterPlan, Goto, RTypeInv, OneRunInv, TypeInv, TypeOK
<1>4. OutInv'
  BY <1>2 DEF OutInv
<1>5. OwnInv'
  BY <1>2, <1>3 DEF OwnInv, Procs
<1>6. ASSUME NEW s \in Subs PROVE Open(s)' = Open(s)
  <2>1. ASSUME NEW w \in Workers PROVE Between(w, s)' <=> Between(w, s)
    BY <1>2, <1>3 DEF Between, Procs
  <2>2. QED BY <1>2, <2>1, OpenFrame
<1>7. QED BY <1>2, <1>4, <1>5, <1>6, TraceFrame DEF RTypeInv, BusTypeOK

\* What a goroutine publishes where it is in the run, about its task.
LEMMA WorkerPublishes ==
  ASSUME RTypeInv, NEW w \in Workers, WorkerStep(w)
  PROVE  /\ out[w] = Nothing /\ UNCHANGED <<ch, reading, shown, job>>
         /\ \A q \in Procs \ {w} : pc'[q] = pc[q] /\ out'[q] = out[q]
         /\ out'[w] = Nothing <=> pc'[w] \in {"stopped", "failed", "completed"}
         /\ \/ /\ pc[w] = "launched" /\ pc'[w] = "running"
               /\ out'[w] = [event |-> [kind |-> "started", task |-> job[w]], to |-> 1]
            \/ /\ pc[w] = "running" /\ pc'[w] = "running"
               /\ out'[w] = [event |-> [kind |-> "log", task |-> job[w]], to |-> 1]
            \/ /\ pc[w] = "running" /\ pc'[w] \in {"stopped", "failed", "completed"}
               /\ out'[w] = Nothing
            \/ /\ pc[w] \in {"stopped", "failed", "completed"} /\ pc'[w] = "flushed"
               /\ out'[w] = [event |-> [kind |-> pc[w], task |-> job[w]], to |-> 1]
<1> USE DEF Goto, RTypeInv, OneRunInv, TypeInv, TypeOK
<1>0. w \in Procs
  BY DEF Procs
<1>1. /\ out[w] = Nothing /\ UNCHANGED <<ch, reading, shown, job>>
      /\ \A q \in Procs \ {w} : pc'[q] = pc[q]
  BY <1>0 DEF WorkerStep, BeginRun, Begin, Log, ReturnRun, Return, EndRun, Flush, Ready, Publish,
     vars
<1>2. \A q \in Procs \ {w} : out'[q] = out[q]
  BY <1>0 DEF WorkerStep, BeginRun, Log, ReturnRun, EndRun, Publish, BusTypeOK
<1>3. job[w] \in Tasks
  BY DEF WorkerStep, BeginRun, Begin, Log, ReturnRun, Return, EndRun, Flush, LocalInv, PreTokenPcs,
     ActivePcs
<1>4. \A k \in Kinds : [event |-> [kind |-> k, task |-> job[w]], to |-> 1] # Nothing
  BY <1>3, RunnerAssumption DEF Events, Subs
<1>5. CASE BeginRun(w)
  BY <1>0, <1>1, <1>2, <1>4, <1>5 DEF BeginRun, Begin, Publish, BusTypeOK, Kinds
<1>6. CASE Log(w)
  BY <1>0, <1>1, <1>2, <1>4, <1>6 DEF Log, Publish, BusTypeOK, Kinds, vars
<1>7. CASE ReturnRun(w)
  BY <1>0, <1>1, <1>2, <1>7 DEF ReturnRun, Return
<1>8. CASE EndRun(w)
  <2>1. /\ pc[w] \in {"stopped", "failed", "completed"} /\ pc'[w] = "flushed"
        /\ out'[w] = [event |-> [kind |-> pc[w], task |-> job[w]], to |-> 1]
    BY <1>0, <1>8 DEF EndRun, Flush, Outcome, Publish, BusTypeOK
  <2>2. pc[w] \in Kinds
    BY <2>1 DEF Kinds, Outcomes
  <2>3. QED BY <1>1, <1>2, <1>4, <2>1, <2>2
<1>9. QED BY <1>5, <1>6, <1>7, <1>8 DEF WorkerStep

LEMMA WorkerTraces ==
  ASSUME RTypeInv, OutInv, OwnInv, TraceInv, NEW w \in Workers, WorkerStep(w)
  PROVE  OutInv' /\ OwnInv' /\ TraceInv'
<1> USE DEF RTypeInv, OneRunInv, TypeInv, TypeOK
<1>0. w \in Procs
  BY DEF Procs
<1>1. /\ out[w] = Nothing /\ UNCHANGED <<ch, reading, begun, job>>
      /\ \A q \in Procs \ {w} : pc'[q] = pc[q]
  BY WorkerPublishes
<1>2. pc[w] \in PreTokenPcs => job[w] \in Tasks
  BY DEF LocalInv
<1>3. \/ /\ pc[w] = "launched" /\ pc'[w] = "running"
         /\ out'[w] = [event |-> [kind |-> "started", task |-> job[w]], to |-> 1]
      \/ /\ pc[w] = "running" /\ pc'[w] = "running"
         /\ out'[w] = [event |-> [kind |-> "log", task |-> job[w]], to |-> 1]
      \/ /\ pc[w] = "running" /\ pc'[w] \in {"stopped", "failed", "completed"}
         /\ out'[w] = Nothing
      \/ /\ pc[w] \in {"stopped", "failed", "completed"} /\ pc'[w] = "flushed"
         /\ out'[w] = [event |-> [kind |-> pc[w], task |-> job[w]], to |-> 1]
  BY WorkerPublishes
<1>4. \A q \in Procs \ {w} : out'[q] = out[q]
  BY WorkerPublishes
<1>5. OutInv'
  BY <1>0, <1>1, <1>3, <1>4 DEF OutInv, Outcomes
<1>6. OwnInv'
  BY <1>0, <1>1, <1>3, <1>4 DEF OwnInv, Procs, Outcomes
<1>7. ASSUME NEW s \in Subs PROVE Open(s)' = Open(s)
  <2>1. Between(w, s)' <=> Between(w, s)
    <3>1. ~ (s < 1) /\ 1 <= s
      BY RunnerAssumption DEF Subs
    <3>2. \A e, k : [event |-> e, to |-> 1] = k => k.event = e /\ k.to = 1
      OBVIOUS
    <3>3. out'[w] # Nothing => out'[w].to = 1
      BY <1>3
    <3>4. CASE pc[w] = "launched" /\ pc'[w] = "running"
      <4>1. out'[w] # Nothing
        BY <3>4, WorkerPublishes
      <4>2. QED BY <1>3, <3>1, <3>4, <4>1 DEF Between
    <3>5. CASE pc[w] = "running"
      BY <1>1, <1>3, <3>5 DEF Between
    <3>6. CASE pc[w] \in {"stopped", "failed", "completed"}
      <4>1. out'[w] # Nothing
        BY <1>3, <3>6, WorkerPublishes
      <4>2. QED BY <1>3, <3>1, <3>3, <3>6, <4>1 DEF Between
    <3>7. QED BY <1>3, <3>4, <3>5, <3>6
  <2>2. \A v \in Workers \ {w} : Between(v, s)' <=> Between(v, s)
    BY <1>1, <1>4 DEF Between, Procs
  <2>3. QED BY <1>1, <2>1, <2>2, OpenFrame
<1>8. QED BY <1>1, <1>5, <1>6, <1>7, TraceFrame DEF BusTypeOK

\* The program around the goroutines: neither the runs nor the bus nor a plan.
LEMMA OtherFrame ==
  ASSUME TypeInv,
         \/ Surroundings \/ RunnerStep \/ UNCHANGED rvars
         \/ \E s \in Subs : Drained(s)
  PROVE  /\ UNCHANGED <<out, ch, shown, state, toInvalidate, cur>>
         /\ reading' \subseteq reading
         /\ \A w \in Workers : pc'[w] = pc[w] /\ job'[w] = job[w]
         /\ \A p \in Procs : pc'[p] = "drain" <=> pc[p] = "drain"
<1> USE DEF TypeInv, TypeOK, Goto
<1>1. /\ UNCHANGED <<out, ch, shown>>
      /\ reading' \subseteq reading
  BY DEF Surroundings, RunnerStep, ReturnEarly, TasksExited, StopHooks, CloseChannels, Exit, rvars,
     Drained
<1>2. CASE Surroundings
  BY <1>1, <1>2, ProcsAssumption DEF Surroundings, Environment, CallInvalidate, TimerFires,
     WatcherExit, Interrupt, Procs
<1>3. CASE RunnerStep
  BY <1>1, <1>3, ProcsAssumption DEF RunnerStep, ReturnEarly, RunEarlyReturn, TasksExited, RunWait,
     StopHooks, CloseChannels, Exit, Procs, vars
<1>4. QED BY <1>1, <1>2, <1>3 DEF rvars, vars, Drained

LEMMA OtherTraces ==
  ASSUME RTypeInv, OutInv, OwnInv, TraceInv,
         \/ Surroundings \/ RunnerStep \/ UNCHANGED rvars
         \/ \E s \in Subs : Drained(s)
  PROVE  OutInv' /\ OwnInv' /\ TraceInv'
<1>1. /\ UNCHANGED <<out, ch, begun>>
      /\ reading' \subseteq reading
  BY OtherFrame DEF RTypeInv, OneRunInv
<1>2. \A w \in Workers : pc'[w] = pc[w] /\ job'[w] = job[w]
  BY OtherFrame DEF RTypeInv, OneRunInv
<1>3. \A p \in Procs \ Workers : out'[p] = out[p]
  BY <1>1
<1>4. OutInv'
  BY <1>1, <1>2 DEF OutInv
<1>5. OwnInv'
  BY <1>1, <1>2 DEF OwnInv
<1>6. ASSUME NEW s \in Subs PROVE Open(s)' = Open(s)
  <2>1. \A w \in Workers : Between(w, s)' <=> Between(w, s)
    BY <1>1, <1>2 DEF Between
  <2>2. QED BY <1>2, <2>1, OpenFrame
<1>7. QED BY <1>1, <1>4, <1>5, <1>6, TraceFrame DEF RTypeInv, BusTypeOK
\* An event that fits is added at the end.
LEMMA TraceAppend ==
  ASSUME NEW s \in Subs, NEW e, Traced(s),
         ch[s] \in Seq(Events), e \in Events,
         ch'[s] = Append(ch[s], e),
         UNCHANGED begun,
         Fits(Open(s), e),
         Open(s)' = After(Open(s), e)
  PROVE  Traced(s)'
<1>1. PICK n \in Nat : n = Len(ch[s])
  OBVIOUS
<1>2. /\ Len(ch'[s]) = n + 1
      /\ \A i \in 1..n : ch'[s][i] = ch[s][i]
      /\ ch'[s][n + 1] = e
  BY <1>1
<1>3. PICK o \in SUBSET Tasks : o = After(Open(s), e)
  BY DEF After, Open, Events
<1>4. PICK f \in [1..n + 1 -> SUBSET Tasks] : IsTrace(f, s)
  BY <1>1 DEF Traced
<1> DEFINE g == [i \in 1..n + 2 |-> IF i = n + 2 THEN o ELSE f[i]]
<1>5. g \in [1..n + 2 -> SUBSET Tasks]
  OBVIOUS
<1>6. /\ g[1] = f[1] /\ g[n + 1 + 1] = o /\ g[n + 1] = Open(s)
      /\ \A i \in 1..n : g[i] = f[i] /\ g[i + 1] = f[i + 1]
  BY <1>1, <1>4 DEF IsTrace
<1> HIDE DEF g
<1>7. IsTrace(g, s)'
  <2>1. g[1] = begun'[s] /\ g[Len(ch'[s]) + 1] = Open(s)'
    BY <1>2, <1>3, <1>4, <1>6 DEF IsTrace
  <2>2. \A i \in 1..n : Fits(g[i], ch'[s][i]) /\ g[i + 1] = After(g[i], ch'[s][i])
    BY <1>1, <1>2, <1>4, <1>6 DEF IsTrace
  <2>3. Fits(g[n + 1], ch'[s][n + 1]) /\ g[n + 1 + 1] = After(g[n + 1], ch'[s][n + 1])
    BY <1>2, <1>3, <1>6
  <2>4. \A i \in 1..Len(ch'[s]) : i \in 1..n \/ i = n + 1
    BY <1>2
  <2>5. QED BY <2>1, <2>2, <2>3, <2>4 DEF IsTrace
<1>8. Len(ch'[s]) + 1 = n + 2
  BY <1>2
<1>9. QED BY <1>5, <1>7, <1>8 DEF Traced

\* The first event is taken.
LEMMA TraceTail ==
  ASSUME NEW s \in Subs, Traced(s),
         ch[s] \in Seq(Events), ch[s] # <<>>,
         ch'[s] = Tail(ch[s]),
         begun'[s] = After(begun[s], Head(ch[s])),
         Open(s)' = Open(s)
  PROVE  Traced(s)'
<1>1. PICK n \in Nat \ {0} : n = Len(ch[s])
  OBVIOUS
<1>2. /\ Len(ch'[s]) = n - 1
      /\ \A i \in 1..n - 1 : ch'[s][i] = ch[s][i + 1]
      /\ Head(ch[s]) = ch[s][1]
  BY <1>1
<1>3. PICK f \in [1..n + 1 -> SUBSET Tasks] : IsTrace(f, s)
  BY <1>1 DEF Traced
<1> DEFINE g == [i \in 1..n |-> f[i + 1]]
<1>4. /\ g \in [1..n -> SUBSET Tasks]
      /\ \A i \in 1..n : g[i] = f[i + 1]
  OBVIOUS
<1> HIDE DEF g
<1>5. IsTrace(g, s)'
  <2>1. g[1] = begun'[s]
    BY <1>1, <1>2, <1>3, <1>4 DEF IsTrace
  <2>2. g[Len(ch'[s]) + 1] = Open(s)'
    <3>1. Len(ch'[s]) + 1 = n /\ n \in 1..n
      BY <1>2
    <3>2. QED BY <1>1, <1>3, <1>4, <3>1 DEF IsTrace
  <2>3. ASSUME NEW i \in 1..n - 1
        PROVE  Fits(g[i], ch'[s][i]) /\ g[i + 1] = After(g[i], ch'[s][i])
    <3>1. i + 1 \in 1..n /\ g[i] = f[i + 1] /\ g[i + 1] = f[i + 1 + 1]
      BY <1>4
    <3>2. QED BY <1>1, <1>2, <1>3, <3>1 DEF IsTrace
  <2>4. QED BY <1>2, <2>1, <2>2, <2>3 DEF IsTrace
<1>6. Len(ch'[s]) + 1 = n
  BY <1>2
<1>7. QED BY <1>4, <1>5, <1>6 DEF Traced

\* The event of a goroutine goes into one channel, and next to the one after it.
LEMMA Delivers ==
  ASSUME BusTypeOK, NEW p \in Procs, Deliver(p), stage # "closed"
  PROVE  \E s \in Subs, e \in Events :
           /\ out[p] # Nothing /\ out[p].to = s /\ out[p].event = e
           /\ ch' = [ch EXCEPT ![s] = Append(ch[s], e)]
           /\ UNCHANGED <<vars, reading, shown, endVars, interrupted>>
           /\ \A q \in Procs \ {p} : out'[q] = out[q]
           /\ IF s = Subscribers THEN out'[p] = Nothing
              ELSE out'[p] # Nothing /\ out'[p].event = e /\ out'[p].to = s + 1
<1>1. PICK s \in Subs, e \in Events : out[p] # Nothing /\ out[p].to = s /\ out[p].event = e
  BY DEF Deliver, BusTypeOK
<1>2. /\ ch' = [ch EXCEPT ![s] = Append(ch[s], e)]
      /\ UNCHANGED <<vars, reading, shown, endVars, interrupted>>
      /\ \A q \in Procs \ {p} : out'[q] = out[q]
      /\ IF s = Subscribers THEN out'[p] = Nothing
         ELSE out'[p].event = e /\ out'[p].to = s + 1
  BY <1>1 DEF Deliver, BusTypeOK
<1>3. s # Subscribers => out'[p] # Nothing
  <2>1. SUFFICES ASSUME s # Subscribers PROVE out'[p] # Nothing
    OBVIOUS
  <2>2. s + 1 \in Subs /\ out[p] \in [event : Events, to : Subs]
    BY <1>1, <2>1, RunnerAssumption DEF Subs, BusTypeOK
  <2>3. out'[p] = [out[p] EXCEPT !.to = s + 1]
    BY <1>1, <2>1 DEF Deliver, BusTypeOK
  <2>4. QED BY <2>2, <2>3, RunnerAssumption
<1>4. QED BY <1>1, <1>2, <1>3

\* A subscription gets the event that the runs, as it knows them, are ready for.
LEMMA DeliverTraces ==
  ASSUME RTypeInv, OutInv, OwnInv, TraceInv, NEW p \in Procs, Deliver(p)
  PROVE  OutInv' /\ OwnInv' /\ TraceInv'
<1>1. CASE stage = "closed"
  <2>1. UNCHANGED <<vars, out, ch, reading, begun>>
    BY <1>1 DEF Deliver
  <2>2. OutInv' /\ OwnInv'
    BY <2>1 DEF OutInv, OwnInv, vars
  <2>3. \A s \in Subs : Open(s)' = Open(s)
    BY <2>1 DEF Open, Between, vars
  <2>4. QED BY <2>1, <2>2, <2>3, TraceFrame DEF RTypeInv, BusTypeOK
<1>2. CASE stage # "closed"
  <2>1. PICK s \in Subs, e \in Events :
          /\ out[p] # Nothing /\ out[p].to = s /\ out[p].event = e
          /\ ch' = [ch EXCEPT ![s] = Append(ch[s], e)]
          /\ UNCHANGED <<pc, job, reading, begun>>
          /\ \A q \in Procs \ {p} : out'[q] = out[q]
          /\ IF s = Subscribers THEN out'[p] = Nothing
             ELSE out'[p] # Nothing /\ out'[p].event = e /\ out'[p].to = s + 1
    BY <1>2, Delivers DEF RTypeInv, vars
  <2>5. OutInv'
    BY <2>1 DEF OutInv
  <2>6. OwnInv'
    BY <2>1 DEF OwnInv, Procs
  <2>7. \A v \in Workers \ {p}, x \in Subs : Between(v, x)' <=> Between(v, x)
    BY <2>1 DEF Between, Procs
  <2>8. ASSUME p \in Workers, NEW x \in Subs \ {s} PROVE Between(p, x)' <=> Between(p, x)
    <3>1. /\ x < s + 1 <=> x < s
          /\ s + 1 <= x <=> s <= x
          /\ s = Subscribers => x < s /\ ~ (s <= x)
      BY RunnerAssumption DEF Subs
    <3>2. CASE s = Subscribers
      BY <2>1, <3>1, <3>2 DEF Between
    <3>3. CASE s # Subscribers
      BY <2>1, <3>1, <3>3 DEF Between
    <3>4. QED BY <3>2, <3>3
  <2>9. ASSUME NEW x \in Subs \ {s} PROVE Open(x)' = Open(x)
    BY <2>1, <2>7, <2>8, OpenFrame
  <2>10. ~ (s < s) /\ s <= s /\ s < s + 1 /\ ~ (s + 1 <= s)
    BY RunnerAssumption DEF Subs
  <2>11. Fits(Open(s), e) /\ Open(s)' = After(Open(s), e)
    <3>1. CASE e.kind = "invalidated"
      <4>1. p \in Workers => pc[p] \notin RunPcs
        BY <2>1, <3>1 DEF OwnInv, RunPcs
      <4>2. p \in Workers => ~ Between(p, s) /\ ~ Between(p, s)'
        BY <2>1, <4>1 DEF Between, RunPcs
      <4>3. Open(s)' = Open(s)
        BY <2>1, <2>7, <4>2, OpenFrame
      <4>4. QED BY <3>1, <4>3 DEF Fits, After, Outcomes
    <3>2. CASE p \in Workers /\ pc[p] \in {"running", "flushed"} /\ e.kind # "invalidated"
      <4>1. e.task = job[p] /\ job[p] \in Tasks
        BY <2>1, <3>2 DEF OwnInv, Events
      <4>2. \A v \in Workers : job[v] = job[p] /\ Between(v, s) => v = p
        BY <3>2, BetweenRuns DEF RTypeInv, OneRunInv, AtMostOneRun, PreTokenPcs, ActivePcs
      <4>3. CASE e.kind = "started"
        <5>1. pc[p] = "running"
          BY <2>1, <3>2, <4>3 DEF OutInv, Outcomes
        <5>2. ~ Between(p, s) /\ Between(p, s)'
          BY <2>1, <2>10, <4>3, <5>1 DEF Between
        <5>3. Open(s)' = Open(s) \cup {job[p]}
          BY <2>1, <2>7, <3>2, <4>1, <5>2 DEF Open
        <5>4. job[p] \notin Open(s)
          BY <4>2, <5>2 DEF Open
        <5>5. QED BY <4>1, <4>3, <5>3, <5>4 DEF Fits, After, Outcomes
      <4>4. CASE e.kind = "log"
        <5>1. pc[p] = "running"
          BY <2>1, <3>2, <4>4 DEF OutInv, Outcomes
        <5>2. Between(p, s) /\ Between(p, s)'
          BY <2>1, <4>4, <5>1 DEF Between
        <5>3. Open(s)' = Open(s)
          BY <2>1, <2>7, <5>2, OpenFrame
        <5>4. job[p] \in Open(s)
          BY <3>2, <4>1, <5>2 DEF Open
        <5>5. QED BY <4>1, <4>4, <5>3, <5>4 DEF Fits, After, Outcomes
      <4>5. CASE e.kind \in Outcomes
        <5>1. pc[p] = "flushed"
          BY <2>1, <3>2, <4>5 DEF OutInv, Outcomes
        <5>2. Between(p, s) /\ ~ Between(p, s)'
          BY <2>1, <2>10, <5>1 DEF Between
        <5>3. Open(s)' = Open(s) \ {job[p]}
          BY <2>1, <2>7, <4>2, <5>2 DEF Open
        <5>4. job[p] \in Open(s)
          BY <3>2, <4>1, <5>2 DEF Open
        <5>5. QED BY <4>1, <4>5, <5>3, <5>4 DEF Fits, After, Outcomes
      <4>6. QED BY <3>2, <4>3, <4>4, <4>5 DEF Events, Kinds
    <3>3. QED BY <2>1, <3>1, <3>2 DEF OutInv, Outcomes
  <2>12. ASSUME NEW x \in reading' \cup (Subs \ Quitters) PROVE Traced(x)'
    <3>1. x \in Subs /\ Traced(x)
      BY <2>1 DEF TraceInv, RTypeInv, BusTypeOK
    <3>2. CASE x = s
      <4>1. ch[s] \in Seq(Events) /\ ch'[s] = Append(ch[s], e)
        BY <2>1 DEF RTypeInv, BusTypeOK
      <4>2. QED BY <2>1, <2>11, <3>1, <3>2, <4>1, TraceAppend
    <3>3. CASE x # s
      <4>1. ch'[x] = ch[x] /\ Open(x)' = Open(x)
        BY <2>1, <2>9, <3>1, <3>3 DEF RTypeInv, BusTypeOK
      <4>2. PICK f \in [1..Len(ch[x]) + 1 -> SUBSET Tasks] : IsTrace(f, x)
        BY <3>1 DEF Traced
      <4>3. IsTrace(f, x)'
        BY <2>1, <4>1, <4>2 DEF IsTrace
      <4>4. QED BY <4>1, <4>3 DEF Traced
    <3>4. QED BY <3>2, <3>3
  <2>13. QED BY <2>5, <2>6, <2>12 DEF TraceInv
<1>3. QED BY <1>1, <1>2

LEMMA ReadTraces ==
  ASSUME RTypeInv, OutInv, OwnInv, TraceInv, NEW s \in Subs, Read(s)
  PROVE  OutInv' /\ OwnInv' /\ TraceInv'
<1>1. /\ UNCHANGED <<pc, job, out>>
      /\ reading' \subseteq reading
      /\ ch' = [ch EXCEPT ![s] = Tail(ch[s])] /\ ch[s] # <<>>
  BY DEF Read, vars
<1>2. OutInv' /\ OwnInv'
  BY <1>1 DEF OutInv, OwnInv
<1>3. ASSUME NEW x \in Subs PROVE Open(x)' = Open(x)
  BY <1>1 DEF Open, Between
<1>4. ASSUME NEW x \in reading' \cup (Subs \ Quitters) PROVE Traced(x)'
  <2>1. x \in Subs /\ Traced(x)
    BY <1>1 DEF TraceInv, RTypeInv, BusTypeOK
  <2>2. CASE x = s
    <3>1. s \in reading'
      BY <1>4, <2>2 DEF Read
    <3>2. begun'[s] = After(begun[s], Head(ch[s]))
      BY <3>1 DEF Read, After, RTypeInv, BusTypeOK
    <3>3. ch[s] \in Seq(Events) /\ ch'[s] = Tail(ch[s])
      BY <1>1 DEF RTypeInv, BusTypeOK
    <3>4. QED BY <1>1, <1>3, <2>1, <2>2, <3>2, <3>3, TraceTail
  <2>3. CASE x # s
    <3>1. ch'[x] = ch[x] /\ begun'[x] = begun[x]
      BY <1>1, <2>1, <2>3 DEF Read, RTypeInv, BusTypeOK
    <3>2. QED BY <1>3, <2>1, <3>1 DEF Traced, IsTrace
  <2>4. QED BY <2>2, <2>3
<1>5. QED BY <1>2, <1>4 DEF TraceInv

BusInv == RTypeInv /\ OutInv /\ OwnInv /\ TraceInv

LEMMA InitBus == RInit => BusInv
<1> SUFFICES ASSUME RInit PROVE OutInv /\ OwnInv /\ TraceInv
  BY InitRType DEF BusInv
<1>1. \A p \in Procs : out[p] = Nothing
  BY DEF RInit
<1>2. OutInv /\ OwnInv
  BY <1>1 DEF OutInv, OwnInv, Procs
<1>3. ASSUME NEW s \in Subs PROVE Traced(s)
  <2>1. \A p \in Procs : pc[p] \in {"build", "select", "idle"}
    BY DEF RInit, Init
  <2>2. Open(s) = {}
    BY <2>1 DEF Open, Between, Procs
  <2>3. ch[s] = <<>> /\ begun[s] = {}
    BY DEF RInit
  <2>4. IsTrace([i \in 1..1 |-> {}], s)
    BY <2>2, <2>3 DEF IsTrace
  <2>5. QED BY <2>3, <2>4 DEF Traced
<1>4. reading \subseteq Subs
  BY DEF RInit
<1>5. QED BY <1>2, <1>3, <1>4 DEF TraceInv

LEMMA BusStep == BusInv /\ [RNext]_rvars => BusInv'
<1> SUFFICES ASSUME BusInv, [RNext]_rvars PROVE OutInv' /\ OwnInv' /\ TraceInv'
  BY RTypeStep DEF BusInv
<1>1. QED
  BY QuietTraces, CollectTraces, WorkerTraces, OtherTraces, DeliverTraces, ReadTraces
     DEF BusInv, RNext

\* A subscription gets the end of a run before the beginning of the next one of the task,
\* and every line in between, whatever goroutines the runs were (publishEvent, and
\* terminalCh, which lets a plan restart the task only after it).
THEOREM RunsDoNotMix == RSpec => []RunsAreBracketed
<1>1. BusInv => RunsAreBracketed
  <2> SUFFICES ASSUME BusInv, NEW s \in reading, ch[s] # <<>>
               PROVE  Fits(begun[s], Head(ch[s]))
    BY DEF RunsAreBracketed, Fits
  <2>1. s \in Subs /\ Traced(s) /\ ch[s] \in Seq(Events)
    BY DEF BusInv, TraceInv, RTypeInv, BusTypeOK
  <2>2. PICK f \in [1..Len(ch[s]) + 1 -> SUBSET Tasks] : IsTrace(f, s)
    BY <2>1 DEF Traced
  <2>3. 1 \in 1..Len(ch[s]) /\ Head(ch[s]) = ch[s][1]
    BY <2>1
  <2>4. QED BY <2>2, <2>3 DEF IsTrace
<1>2. QED BY InitBus, BusStep, <1>1, PTL DEF RSpec
-----------------------------------------------------------------------------
(* The end of the program *)

\* No task is KeepAlive, and no key and no file calls Executor.Invalidate: outside watch
\* mode, without the restart key of the tui.
NothingRestarts == Callers = {} /\ KeepAlive = {}

\* So nothing wakes the loop: only Main and the workers plan and go through passes, and
\* no worker is there before Main's first pass or after wg.Wait.
StillInv ==
  /\ ~ invalidationCh /\ timer = "stopped"
  /\ pc[Loop] \in {"select", "exited"}
  /\ pc[Main] \in {"build", "hooks", "pass", "passLock", "visit", "wait", "returned"}
  /\ \A p \in Passers : pc[p] = "idle"
  /\ \A p \in Handlers : pc[p] \in {"idle", "invalidate", "record"}
  /\ \A w \in Workers : pc[w] \notin {"keepAlive", "invalidate", "record", "send"}
  /\ pc[Main] \in {"build", "hooks", "returned"} => Exited

LEMMA InitStill == NothingRestarts /\ Init => StillInv
<1> SUFFICES ASSUME NothingRestarts, Init PROVE StillInv
  OBVIOUS
<1>1. /\ pc[Main] = "build" /\ pc[Loop] = "select"
      /\ \A p \in Procs \ {Main, Loop} : pc[p] = "idle"
  BY ProcsAssumption DEF Init, Procs
<1>2. \A p \in Workers \cup Passers \cup Handlers : pc[p] = "idle"
  BY <1>1, ProcsAssumption DEF Procs
<1>3. QED BY <1>1, <1>2 DEF StillInv, Init, Exited

LEMMA StillStep ==
  ASSUME NothingRestarts, TypeInv, StillInv, [Next]_vars \/ RootCancelled
  PROVE  StillInv'
<1> USE DEF TypeInv, TypeOK, Goto, Procs
<1>1. ASSUME NEW p \in Workers \cup Callers \cup Handlers, InvalidateCall(p) PROVE StillInv'
  <2>1. p \in Handlers /\ p \notin Workers
    BY <1>1, ProcsAssumption DEF NothingRestarts, StillInv, InvalidateCall, SkipMark, CheckMark,
       RecordMark, Send
  <2>2. AfterInvalidate(p) = "idle" /\ AfterMarks(p) = "idle"
    BY <2>1 DEF AfterInvalidate, AfterMarks
  <2>3. /\ pc'[p] \in {"idle", "invalidate", "record"}
        /\ \A q \in Procs \ {p} : pc'[q] = pc[q]
        /\ UNCHANGED <<invalidationCh, timer>>
    BY <1>1, <2>1, <2>2 DEF InvalidateCall, SkipMark, CheckMark, RecordMark, Send, Marked, StillInv
  <2>4. QED BY <2>1, <2>3, ProcsAssumption DEF StillInv, Exited
<1>2. ASSUME NEW p \in Workers \cup {Loop}, Plan(p) PROVE StillInv'
  <2>1. p \in Workers /\ pc[p] \in {"plan", "collect", "invalidating", "reset", "drain"}
    BY <1>2 DEF StillInv, Plan, PlanLock, Collect, SkipInvalidate, CancelRun, ResetRun, DrainRun
  <2>2. AfterPlan(p) = "pass"
    BY <2>1, ProcsAssumption DEF AfterPlan
  <2>3. /\ pc'[p] \in {"collect", "invalidating", "reset", "drain", "pass"}
        /\ \A q \in Procs \ {p} : pc'[q] = pc[q]
        /\ UNCHANGED <<invalidationCh, timer>>
    BY <1>2, <2>1, <2>2 DEF Plan, PlanLock, Collect, SkipInvalidate, CancelRun, ResetRun, DrainRun,
       Planned
  <2>4. QED BY <2>1, <2>3, ProcsAssumption DEF StillInv, Exited
<1>3. ASSUME NEW p \in Workers \cup Passers \cup {Main}, Pass(p) PROVE StillInv'
  <2>1. p \in Workers \cup {Main} /\ pc[p] \in {"pass", "passLock", "visit"}
    BY <1>3 DEF StillInv, Pass, PassCheck, PassLock, PassSkip, PassLaunch
  <2>2. AfterPass(p) = IF p = Main THEN "wait" ELSE "leave"
    BY <2>1, ProcsAssumption DEF AfterPass
  <2>3. pc[Main] \notin {"build", "hooks", "returned"}
    BY <2>1 DEF StillInv, Exited
  <2>4. UNCHANGED <<invalidationCh, timer>>
    BY <1>3 DEF Pass, PassCheck, PassLock, PassSkip, PassLaunch
  <2>5. CASE PassCheck(p) \/ PassLock(p) \/ PassSkip(p)
    <3>1. pc'[p] \in {"passLock", "visit", AfterPass(p)} /\ \A q \in Procs \ {p} : pc'[q] = pc[q]
      BY <2>5 DEF PassCheck, PassLock, PassSkip, VisitedPc
    <3>2. QED BY <2>1, <2>2, <2>3, <2>4, <3>1, ProcsAssumption DEF StillInv
  <2>6. CASE PassLaunch(p)
    <3>1. PICK t \in todo[p], w \in Workers :
             pc[w] = "idle" /\ pc' = [pc EXCEPT ![w] = "launched", ![p] = VisitedPc(p, t)]
      BY <2>6 DEF PassLaunch
    <3>2. VisitedPc(p, t) \in {"visit", AfterPass(p)} /\ w # p
      BY <2>1, <3>1 DEF VisitedPc
    <3>3. QED BY <2>1, <2>2, <2>3, <2>4, <3>1, <3>2, ProcsAssumption DEF StillInv
  <2>7. QED BY <1>3, <2>5, <2>6 DEF Pass
<1>4. ASSUME NEW w \in Workers, Worker(w) PROVE StillInv'
  <2>1. /\ pc[w] # "idle" /\ pc'[w] \notin {"keepAlive", "invalidate", "record", "send"}
        /\ \A q \in Procs \ {w} : pc'[q] = pc[q]
        /\ UNCHANGED <<invalidationCh, timer>>
    BY <1>4 DEF Worker, Begin, Return, Flush, SendTerminal, KeepAliveCheck, Leave, AfterInvalidate,
       NothingRestarts, StillInv
  <2>2. QED BY <2>1, ProcsAssumption DEF StillInv, Exited
<1>5. CASE LoopStep
  BY <1>5, ProcsAssumption DEF LoopStep, LoopReceive, LoopStop, LoopTimer, LoopSpawn, StillInv,
     Exited
<1>6. CASE RunStep
  <2>1. /\ pc'[Main] \in {"hooks", "pass", "returned"}
        /\ \A q \in Procs \ {Main} : pc'[q] = pc[q]
        /\ UNCHANGED <<invalidationCh, timer>>
        /\ pc'[Main] # "pass" => Exited
    BY <1>6 DEF RunStep, RunBuild, RunStart, RunEarlyReturn, RunWait, StillInv
  <2>2. QED BY <2>1, ProcsAssumption DEF StillInv, Exited
<1>7. CASE Environment
  <2>1. ASSUME NEW p \in Callers \cup Handlers, NEW t \in External, CallInvalidate(p, t)
        PROVE  StillInv'
    <3>1. /\ p \in Handlers /\ pc'[p] = "invalidate"
          /\ \A q \in Procs \ {p} : pc'[q] = pc[q]
          /\ UNCHANGED <<invalidationCh, timer>>
      BY <2>1 DEF CallInvalidate, NothingRestarts
    <3>2. QED BY <3>1, ProcsAssumption DEF StillInv, Exited
  <2>2. CASE TimerFires \/ WatcherExit \/ Interrupt
    BY <2>2 DEF TimerFires, WatcherExit, Interrupt, StillInv, Exited
  <2>3. QED BY <1>7, <2>1, <2>2 DEF Environment
<1>8. CASE UNCHANGED vars \/ RootCancelled
  BY <1>8 DEF vars, RootCancelled, StillInv, Exited
<1>9. QED BY <1>1, <1>2, <1>3, <1>4, <1>5, <1>6, <1>7, <1>8 DEF Next

\* The channels are closed when nobody has an event to publish, and the program ends
\* when every subscription that reads on has read its channel empty.
ClosedInv ==
  /\ stage = "run" <=> pc[Main] # "returned"
  /\ stage # "panicked"
  /\ \A p \in Procs \ Workers : out[p] = Nothing
  /\ \A s \in Subs \ Quitters :
       s \in reading \/ (stage \in {"closed", "exited"} /\ ch[s] = <<>>)
  /\ stage = "exited" => reading = {}

LEMMA ClosedStep ==
  ASSUME NothingRestarts, BusInv, StillInv, ClosedInv, [RNext]_rvars
  PROVE  ClosedInv'
<1> USE DEF ClosedInv
<1>0. /\ pc \in [Procs -> WorkerPcs \cup RoutinePcs \cup OtherPcs]
      /\ Main \in Procs /\ Loop \in Procs /\ Main \notin Workers
      /\ out \in [Procs -> [event : Events, to : Subs] \cup {Nothing}]
      /\ ch \in [Subs -> Seq(Events)] /\ reading \subseteq Subs
  BY ProcsAssumption DEF BusInv, RTypeInv, OneRunInv, TypeInv, TypeOK, BusTypeOK, Procs
<1>1. ASSUME NEW p \in Procs, Deliver(p) PROVE ClosedInv'
  <2>1. p \in Workers /\ pc[p] # "idle"
    BY <1>1 DEF Deliver, BusInv, OwnInv
  <2>2. stage = "run"
    BY <2>1 DEF StillInv, Exited
  <2>3. UNCHANGED <<pc, reading, stage>> /\ \A q \in Procs \ {p} : out'[q] = out[q]
    BY <1>0, <1>1, <2>2 DEF Deliver, vars
  <2>4. QED BY <2>1, <2>2, <2>3
<1>2. ASSUME NEW p \in Procs, Quiet(p) PROVE ClosedInv'
  <2>1. UNCHANGED <<out, ch, reading, stage>>
    BY <1>2 DEF Quiet
  <2>2. pc'[Main] = "returned" <=> pc[Main] = "returned"
    <3>1. CASE p = Main
      <4>1. pc[Main] \in {"build", "hooks", "pass", "passLock", "visit", "wait", "returned"}
        BY DEF StillInv
      <4>2. Pass(p) \/ RunBuild \/ RunStart
        BY <1>2, <3>1, <4>1, ProcsAssumption DEF Quiet, PlanLock, SkipInvalidate, CancelRun, ResetRun,
           DrainRun
      <4>3. AfterPass(Main) = "wait"
        BY ProcsAssumption DEF AfterPass
      <4>4. QED BY <1>0, <3>1, <4>2, <4>3 DEF Pass, PassCheck, PassLock, PassSkip, PassLaunch, VisitedPc,
               RunBuild, RunStart, Goto
    <3>2. CASE p # Main
      BY <1>2, <3>2, QuietFrame DEF BusInv, RTypeInv, OneRunInv, Procs, StillInv
    <3>3. QED BY <3>1, <3>2
  <2>3. QED BY <2>1, <2>2
<1>3. ASSUME NEW p \in Workers \cup {Loop}, CollectTask(p) PROVE ClosedInv'
  <2>1. p \in Workers
    BY <1>3 DEF CollectTask, Collect, StillInv
  <2>2. PICK t \in Tasks : Publish(p, "invalidated", t) \/ UNCHANGED busVars
    BY <1>3, CollectPublishes DEF BusInv, RTypeInv, OneRunInv, TypeInv
  <2>3. UNCHANGED <<ch, reading>> /\ \A q \in Procs \ Workers : out'[q] = out[q]
    BY <1>0, <2>1, <2>2 DEF Publish
  <2>4. UNCHANGED stage /\ pc'[Main] = pc[Main]
    BY <1>0, <1>3, <2>1 DEF CollectTask, Collect, Planned, Goto
  <2>5. QED BY <2>3, <2>4
<1>4. ASSUME NEW w \in Workers, WorkerStep(w) PROVE ClosedInv'
  <2>1. UNCHANGED <<ch, reading, stage>> /\ \A q \in Procs \ Workers : out'[q] = out[q]
    BY <1>0, <1>4 DEF WorkerStep, BeginRun, Log, ReturnRun, EndRun, Publish
  <2>2. pc'[Main] = pc[Main]
    BY <1>0, <1>4 DEF WorkerStep, BeginRun, Begin, Log, ReturnRun, Return, EndRun, Flush, Goto, vars
  <2>3. QED BY <2>1, <2>2
<1>5. CASE Surroundings
  <2>1. pc'[Main] = pc[Main]
    BY <1>0, <1>5, ProcsAssumption DEF Surroundings, Environment, CallInvalidate, TimerFires,
       WatcherExit, Interrupt, Goto
  <2>2. QED BY <1>5, <2>1 DEF Surroundings
<1>6. CASE RunnerStep
  <2>1. UNCHANGED <<out, ch, reading>>
    BY <1>6 DEF RunnerStep, ReturnEarly, TasksExited, StopHooks, CloseChannels, Exit
  <2>2. CASE ReturnEarly \/ TasksExited
    <3>1. pc[Main] # "returned" /\ pc'[Main] = "returned" /\ stage' \in {"hooks", "close"}
      BY <1>0, <2>2 DEF ReturnEarly, RunEarlyReturn, AfterEarlyReturn, TasksExited, RunWait, Goto
    <3>2. QED BY <2>1, <3>1
  <2>3. CASE StopHooks \/ CloseChannels \/ Exit
    <3>1. /\ UNCHANGED pc /\ stage # "run" /\ stage' \in {"close", "closed", "exited"}
          /\ stage = "closed" => stage' = "exited"
          /\ stage # "exited"
          /\ stage' = "exited" => stage = "closed" /\ reading = {}
      BY <2>3 DEF StopHooks, CloseChannels, Exit, vars
    <3>2. QED BY <2>1, <3>1
  <2>4. QED BY <1>6, <2>2, <2>3 DEF RunnerStep
<1>7. ASSUME NEW s \in Subs, Read(s) \/ Drained(s) PROVE ClosedInv'
  <2>1. UNCHANGED <<pc, out, stage>> /\ s \in reading
    BY <1>7 DEF Read, Drained, vars
  <2>2. CASE Read(s)
    <3>1. reading' \in {reading, reading \ ({s} \cap Quitters)} /\ ch' = [ch EXCEPT ![s] = Tail(@)]
      BY <2>2 DEF Read
    <3>2. QED BY <1>0, <2>1, <3>1
  <2>3. CASE Drained(s)
    BY <2>1, <2>3 DEF Drained, Closed
  <2>4. QED BY <1>7, <2>2, <2>3
<1>8. CASE UNCHANGED rvars
  BY <1>8 DEF rvars, vars
<1>9. QED BY <1>1, <1>2, <1>3, <1>4, <1>5, <1>6, <1>7, <1>8 DEF RNext

EndedInv == BusInv /\ StillInv /\ ClosedInv

LEMMA InitEnded == NothingRestarts /\ RInit => EndedInv
<1> SUFFICES ASSUME NothingRestarts, RInit PROVE StillInv /\ ClosedInv
  BY InitBus DEF EndedInv
<1>1. StillInv
  BY InitStill DEF RInit
<1>2. ClosedInv
  BY <1>1, ProcsAssumption DEF RInit, Init, ClosedInv, Procs
<1>3. QED BY <1>1, <1>2

LEMMA EndedStep == NothingRestarts /\ EndedInv /\ [RNext]_rvars => EndedInv'
  BY BusStep, ExecutorStep, StillStep, ClosedStep DEF EndedInv, BusInv, RTypeInv, OneRunInv, TypeInv

\* Nobody publishes on a channel that Run has closed, when nothing restarts a task:
\* wg.Wait has waited for all who publish (Executor.Run, publishEvent).
THEOREM NoPanic == ASSUME NothingRestarts PROVE RSpec => []NoSendOnClosed
<1>1. EndedInv => NoSendOnClosed
  BY DEF EndedInv, ClosedInv, NoSendOnClosed
<1>2. QED BY InitEnded, EndedStep, <1>1, PTL DEF RSpec

\* Then the program does not end before every subscription that reads on has handled all
\* that was published, up to the end of every run it saw begin (runner.Run, errgroup.Wait).
THEOREM AllIsHandled == ASSUME NothingRestarts PROVE RSpec => []EverythingIsHandled
<1>1. EndedInv => EverythingIsHandled
  <2> SUFFICES ASSUME EndedInv, stage = "exited"
               PROVE  /\ \A p \in Procs : out[p] = Nothing
                      /\ \A s \in Subs \ Quitters : ch[s] = <<>> /\ begun[s] = {}
    BY DEF EverythingIsHandled
  <2>1. reading = {} /\ \A w \in Workers : pc[w] = "idle"
    BY DEF EndedInv, ClosedInv, StillInv, Exited
  <2>2. \A p \in Procs : out[p] = Nothing
    BY <2>1 DEF EndedInv, ClosedInv, BusInv, OwnInv
  <2>3. ASSUME NEW s \in Subs \ Quitters PROVE ch[s] = <<>> /\ begun[s] = {}
    <3>1. ch[s] = <<>>
      BY <2>1 DEF EndedInv, ClosedInv
    <3>2. Traced(s)
      BY DEF EndedInv, BusInv, TraceInv
    <3>3. Open(s) = {}
      BY <2>1 DEF Open, Between
    <3>4. Len(ch[s]) + 1 = 1
      BY <3>1
    <3>5. QED BY <3>1, <3>2, <3>3, <3>4 DEF Traced, IsTrace
  <2>4. QED BY <2>2, <2>3
<1>2. QED BY InitEnded, EndedStep, <1>1, PTL DEF RSpec
-----------------------------------------------------------------------------
(* The executor's invariants in the program *)

\* A signal, or an error of Executor.Run, changes nothing but the context.
LEMMA RunsHold ==
  ASSUME OneRunInv, ContextInv, RunsInv, NoForgottenTask, [RNext]_rvars
  PROVE  ContextInv' /\ RunsInv' /\ NoForgottenTask'
<1>1. CASE [Next]_vars
  BY <1>1, ContextStep, RunsStep, PassStep DEF OneRunInv
<1>2. CASE RootCancelled
  <2>1. ContextInv'
    BY <1>2, ContextFrame DEF RootCancelled
  <2>2. RunsInv'
    BY <1>2, RunsInvFrame DEF RootCancelled, OneRunInv
  <2>3. NoForgottenTask'
    BY <1>2, PassFrame DEF RootCancelled, PassComing, ShouldExecute
  <2>4. QED BY <2>1, <2>2, <2>3
<1>3. QED BY <1>1, <1>2, ExecutorStep DEF OneRunInv, TypeInv

\* A state is reset by a plan, set when a run of the task starts, when none was under
\* way, and when that run ends.
LEMMA StateStep ==
  ASSUME OneRunInv, [RNext]_rvars, NEW t \in Tasks
  PROVE  \/ state'[t] \in {state[t], "invalid"}
         \/ /\ state[t] = "invalid" /\ state'[t] = "running"
            /\ \A v \in Workers : pc[v] \in PreTokenPcs => job[v] # t
         \/ \E w \in Workers : Flush(w) /\ job[w] = t
<1> USE DEF OneRunInv, TypeInv, TypeOK, Goto, Procs
<1>1. ASSUME NEW p \in Workers \cup Callers \cup Handlers, InvalidateCall(p) PROVE UNCHANGED state
  BY <1>1 DEF InvalidateCall, SkipMark, CheckMark, RecordMark, Send
<1>2. ASSUME NEW p \in Workers \cup {Loop}, Plan(p) PROVE state'[t] \in {state[t], "invalid"}
  BY <1>2 DEF Plan, PlanLock, Collect, SkipInvalidate, CancelRun, ResetRun, DrainRun
<1>3. ASSUME NEW p \in Workers \cup Passers \cup {Main}, Pass(p), state'[t] # state[t]
      PROVE  /\ state[t] = "invalid" /\ state'[t] = "running"
             /\ \A v \in Workers : pc[v] \in PreTokenPcs => job[v] # t
  <2>1. PassLaunch(p)
    BY <1>3 DEF Pass, PassCheck, PassLock, PassSkip
  <2>2. PICK u \in todo[p] : ShouldExecute(u) /\ state' = [state EXCEPT ![u] = "running"]
    BY <2>1 DEF PassLaunch
  <2>3. u = t /\ state[t] = "invalid" /\ state'[t] = "running" /\ pc[p] = "visit"
    BY <1>3, <2>1, <2>2 DEF PassLaunch, ShouldExecute
  <2>4. \A q \in Procs : pc[q] # "drain"
    BY <2>3 DEF LockInv, CriticalPcs
  <2>5. QED BY <2>3, <2>4 DEF TokenInv
<1>4. ASSUME NEW w \in Workers, Worker(w) PROVE state'[t] = state[t] \/ (Flush(w) /\ job[w] = t)
  BY <1>4 DEF Worker, Begin, Return, Flush, SendTerminal, KeepAliveCheck, Leave
<1>5. CASE LoopStep \/ RunStep \/ Environment \/ UNCHANGED vars \/ RootCancelled
  BY <1>5 DEF LoopStep, LoopReceive, LoopStop, LoopTimer, LoopSpawn, RunStep, RunBuild, RunStart,
     RunEarlyReturn, RunWait, Environment, CallInvalidate, TimerFires, WatcherExit, Interrupt, vars,
     RootCancelled
<1>6. QED BY <1>1, <1>2, <1>3, <1>4, <1>5, ExecutorStep DEF Next

\* So a run that has written its outcome finds it there, or reset, until it has left.
LEMMA OutcomeStays ==
  ASSUME OneRunInv, [RNext]_rvars, NEW w \in Workers, pc[w] = "flushed"
  PROVE  state'[job[w]] \in {state[job[w]], "invalid"}
<1>1. job[w] \in Tasks /\ pc[w] \in PreTokenPcs
  BY DEF OneRunInv, TypeInv, LocalInv, PreTokenPcs
<1>2. ASSUME NEW v \in Workers, Flush(v) PROVE job[v] # job[w]
  BY <1>1, <1>2 DEF Flush, OneRunInv, AtMostOneRun, PreTokenPcs, ActivePcs
<1>3. QED BY <1>1, <1>2, StateStep

-----------------------------------------------------------------------------
(* What a plan has announced, and what a run reports *)

PlanPcs == {"collect", "invalidating", "reset", "drain"}

\* Without a plan under way nothing is to be invalidated, and the task of an invalidation
\* that is being published is still to be invalidated.
AnnouncedInv ==
  /\ toInvalidate # {} => \E w \in Workers : pc[w] \in PlanPcs
  /\ \A w \in Workers : out[w] # Nothing /\ out[w].event.kind = "invalidated" =>
       pc[w] \in {"collect", "invalidating"} /\ out[w].event.task \in toInvalidate

\* The task that a plan looks at is announced when it is one to invalidate.
LEMMA CollectAnnounces ==
  ASSUME TypeOK, BusTypeOK, NEW p \in Workers \cup {Loop}, CollectTask(p)
  PROVE  \E t \in Tasks :
           /\ toInvalidate' = toInvalidate \cup {u \in {t} : Collectable(u)}
           /\ IF Collectable(t) THEN Publish(p, "invalidated", t) ELSE UNCHANGED busVars
<1>1. PICK t \in todo[p] :
        /\ todo' = [todo EXCEPT ![p] = todo[p] \ {t}]
        /\ toInvalidate' = toInvalidate \cup {u \in {t} : Collectable(u)}
  BY DEF CollectTask, Collect, Planned
<1>2. t \in todo[p] \ todo'[p] /\ t \in Tasks
  BY <1>1 DEF TypeOK, Procs
<1>3. QED BY <1>1, <1>2 DEF CollectTask

LEMMA AnnouncedStep ==
  ASSUME NothingRestarts, EndedInv, AnnouncedInv, [RNext]_rvars
  PROVE  AnnouncedInv'
<1> USE DEF EndedInv, BusInv, RTypeInv, OneRunInv, TypeInv
<1>0. \A w \in Workers : pc[w] \in PlanPcs => mu = w
  BY DEF LockInv, PlanPcs, CriticalPcs, Procs
<1>1. ASSUME NEW p \in Procs, Deliver(p) PROVE AnnouncedInv'
  <2>1. p \in Workers /\ pc[p] # "idle"
    BY <1>1 DEF Deliver, OwnInv, ClosedInv
  <2>2. stage # "closed"
    BY <2>1 DEF StillInv, ClosedInv, Exited
  <2>3. /\ UNCHANGED <<pc, toInvalidate>>
        /\ \A q \in Procs \ {p} : out'[q] = out[q]
        /\ out[p] # Nothing
        /\ out'[p] # Nothing => out'[p].event = out[p].event
    BY <1>1, <2>2, Delivers DEF vars
  <2>4. QED BY <2>1, <2>3 DEF AnnouncedInv, Procs
<1>2. ASSUME NEW p \in Procs, Quiet(p) PROVE AnnouncedInv'
  <2>1. out[p] = Nothing /\ UNCHANGED out
    BY <1>2 DEF Quiet, Ready
  <2>2. \A q \in Procs \ {p} : pc'[q] = pc[q] \/ pc[q] = "idle"
    BY <1>2, QuietFrame
  <2>3. CASE p \in Workers /\ (PlanLock(p) \/ SkipInvalidate(p) \/ CancelRun(p) \/ ResetRun(p) \/ DrainRun(p))
    <3>1. toInvalidate' # {} => pc'[p] \in PlanPcs
      BY <2>3 DEF PlanLock, SkipInvalidate, CancelRun, ResetRun, DrainRun, Planned, Goto, PlanPcs,
         TypeOK, Procs
    <3>2. toInvalidate' = toInvalidate \/ mu = p
      BY <2>3, <1>0 DEF PlanLock, SkipInvalidate, CancelRun, ResetRun, DrainRun, PlanPcs
    <3>3. ASSUME NEW w \in Workers, out'[w] # Nothing, out'[w].event.kind = "invalidated"
          PROVE  pc'[w] \in {"collect", "invalidating"} /\ out'[w].event.task \in toInvalidate'
      <4>1. w # p /\ pc[w] \in {"collect", "invalidating"} /\ out[w].event.task \in toInvalidate
        BY <2>1, <3>3 DEF AnnouncedInv
      <4>2. mu = w
        BY <1>0, <4>1 DEF PlanPcs
      <4>3. QED BY <2>1, <2>2, <3>2, <4>1, <4>2 DEF Procs
    <3>4. QED BY <2>3, <3>1, <3>3 DEF AnnouncedInv
  <2>4. CASE ~ (p \in Workers /\ (PlanLock(p) \/ SkipInvalidate(p) \/ CancelRun(p) \/ ResetRun(p) \/ DrainRun(p)))
    <3>1. UNCHANGED toInvalidate /\ pc[p] \notin PlanPcs
      <4>1. p = Loop => pc[p] \notin PlanPcs \cup {"plan"}
        BY DEF StillInv, PlanPcs
      <4>2. ~ (p = Loop /\ (PlanLock(p) \/ SkipInvalidate(p) \/ CancelRun(p) \/ ResetRun(p) \/ DrainRun(p)))
        BY <4>1 DEF PlanLock, SkipInvalidate, CancelRun, ResetRun, DrainRun, PlanPcs
      <4>3. CASE InvalidateCall(p)
        BY <4>3 DEF InvalidateCall, SkipMark, CheckMark, RecordMark, Send, PlanPcs
      <4>4. CASE Pass(p)
        BY <4>4 DEF Pass, PassCheck, PassLock, PassSkip, PassLaunch, PlanPcs
      <4>5. CASE SendTerminal(p) \/ KeepAliveCheck(p) \/ Leave(p)
        BY <4>5 DEF SendTerminal, KeepAliveCheck, Leave, PlanPcs
      <4>6. CASE p = Loop /\ LoopStep
        BY <4>1, <4>6 DEF LoopStep, LoopReceive, LoopStop, LoopTimer, LoopSpawn
      <4>7. CASE p = Main /\ (RunBuild \/ RunStart)
        BY <4>7 DEF RunBuild, RunStart, PlanPcs
      <4>8. QED BY <1>2, <2>4, <4>2, <4>3, <4>4, <4>5, <4>6, <4>7 DEF Quiet
    <3>2. \A w \in Workers : pc[w] \in PlanPcs => pc'[w] = pc[w]
      BY <2>2, <3>1 DEF PlanPcs, Procs
    <3>3. QED BY <2>1, <3>1, <3>2 DEF AnnouncedInv, PlanPcs
  <2>5. QED BY <2>3, <2>4
<1>3. ASSUME NEW p \in Workers \cup {Loop}, CollectTask(p) PROVE AnnouncedInv'
  <2>1. p \in Workers /\ p \in Procs /\ pc[p] = "collect" /\ out[p] = Nothing
    BY <1>3 DEF CollectTask, Collect, StillInv, Procs, Ready
  <2>2. PICK t \in Tasks :
          /\ toInvalidate' = toInvalidate \cup {u \in {t} : Collectable(u)}
          /\ IF Collectable(t) THEN Publish(p, "invalidated", t) ELSE UNCHANGED busVars
    BY <1>3, CollectAnnounces
  <2>3. \A q \in Procs \ {p} : pc'[q] = pc[q] /\ out'[q] = out[q]
    BY <1>3, <2>1, <2>2 DEF CollectTask, Collect, Planned, Goto, Publish, TypeOK, BusTypeOK
  <2>4. pc'[p] \in {"collect", "invalidating"} \/ toInvalidate' = {}
    BY <1>3, <2>1 DEF CollectTask, Collect, Planned, Goto, TypeOK
  <2>5. \A w \in Workers \ {p} : ~ (out'[w] # Nothing /\ out'[w].event.kind = "invalidated")
    BY <1>0, <2>1, <2>3 DEF AnnouncedInv, PlanPcs, Procs
  <2>6. out'[p] # Nothing => out'[p].event.task = t /\ t \in toInvalidate'
    BY <2>1, <2>2 DEF Publish, BusTypeOK
  <2>7. QED BY <2>1, <2>4, <2>5, <2>6 DEF AnnouncedInv, PlanPcs
<1>4. ASSUME NEW w \in Workers, WorkerStep(w) PROVE AnnouncedInv'
  <2>1. UNCHANGED toInvalidate
    BY <1>4 DEF WorkerStep, BeginRun, Begin, Log, ReturnRun, Return, EndRun, Flush, vars
  <2>2. pc[w] \notin PlanPcs /\ \A v \in Workers \ {w} : pc'[v] = pc[v] /\ out'[v] = out[v]
    BY <1>4, WorkerPublishes DEF PlanPcs, Procs
  <2>3. out'[w] # Nothing => out'[w].event.kind # "invalidated"
    <3>1. out'[w] # Nothing => pc'[w] \in {"running", "flushed"}
      BY <1>4, WorkerPublishes
    <3>2. OwnInv'
      BY <1>4, WorkerTraces
    <3>3. QED BY <3>1, <3>2 DEF OwnInv
  <2>4. QED BY <2>1, <2>2, <2>3 DEF AnnouncedInv
<1>5. CASE \/ Surroundings \/ RunnerStep \/ UNCHANGED rvars
           \/ \E s \in Subs : Drained(s)
  BY <1>5, OtherFrame DEF AnnouncedInv
<1>6. ASSUME NEW s \in Subs, Read(s) PROVE AnnouncedInv'
  BY <1>6 DEF Read, vars, AnnouncedInv
<1>7. QED BY <1>1, <1>2, <1>3, <1>4, <1>5, <1>6 DEF RNext

\* The outcome that a goroutine publishes is that of the state, until a plan resets it.
ReportInv ==
  \A w \in Workers : pc[w] = "flushed" /\ out[w] # Nothing =>
    IF out[w].event.kind = "failed" THEN state[job[w]] \in {"error", "invalid"}
                                    ELSE state[job[w]] # "error"

LEMMA ReportStep ==
  ASSUME NothingRestarts, EndedInv, RunsInv, ReportInv, [RNext]_rvars
  PROVE  ReportInv'
<1> USE DEF EndedInv, BusInv, RTypeInv, OneRunInv, TypeInv
<1>0. ASSUME NEW v \in Workers,
             pc[v] = "flushed", job'[v] = job[v], out[v] # Nothing, out'[v].event = out[v].event
      PROVE  IF out'[v].event.kind = "failed" THEN state'[job'[v]] \in {"error", "invalid"}
                                              ELSE state'[job'[v]] # "error"
  BY <1>0, OutcomeStays DEF ReportInv
<1> SUFFICES ASSUME NEW v \in Workers, pc'[v] = "flushed", out'[v] # Nothing
             PROVE  IF out'[v].event.kind = "failed" THEN state'[job'[v]] \in {"error", "invalid"}
                                                     ELSE state'[job'[v]] # "error"
  BY DEF ReportInv
<1>1. ASSUME NEW p \in Procs, Deliver(p)
      PROVE  pc[v] = "flushed" /\ job'[v] = job[v] /\ out[v] # Nothing /\ out'[v].event = out[v].event
  <2>1. p \in Workers /\ pc[p] # "idle"
    BY <1>1 DEF Deliver, OwnInv, ClosedInv
  <2>2. stage # "closed"
    BY <2>1 DEF StillInv, ClosedInv, Exited
  <2>3. QED BY <1>1, <2>2, Delivers DEF vars, Procs
<1>2. ASSUME NEW p \in Procs, Quiet(p)
      PROVE  pc[v] = "flushed" /\ job'[v] = job[v] /\ out[v] # Nothing /\ out'[v].event = out[v].event
  <2>1. UNCHANGED out
    BY <1>2 DEF Quiet
  <2>2. QED BY <1>2, <2>1, QuietFrame DEF PreTokenPcs, ActivePcs, Procs
<1>3. ASSUME NEW p \in Workers \cup {Loop}, CollectTask(p)
      PROVE  pc[v] = "flushed" /\ job'[v] = job[v] /\ out[v] # Nothing /\ out'[v].event = out[v].event
  <2>1. p \in Procs
    BY DEF Procs
  <2>2. PICK t \in Tasks : Publish(p, "invalidated", t) \/ UNCHANGED busVars
    BY <1>3, CollectPublishes
  <2>3. /\ UNCHANGED job
        /\ pc'[p] \in {"collect", "invalidating", "spawn", "pass"}
        /\ \A q \in Procs \ {p} : pc'[q] = pc[q] /\ out'[q] = out[q]
    BY <1>3, <2>1, <2>2 DEF CollectTask, Collect, Planned, AfterPlan, Goto, Publish, TypeOK, BusTypeOK
  <2>4. QED BY <2>3 DEF Procs
<1>4. ASSUME NEW w \in Workers, WorkerStep(w)
      PROVE  IF out'[v].event.kind = "failed" THEN state'[job'[v]] \in {"error", "invalid"}
                                              ELSE state'[job'[v]] # "error"
  <2>1. CASE v # w
    BY <1>0, <1>4, <2>1, WorkerPublishes DEF Procs
  <2>2. CASE v = w
    <3>1. /\ pc[w] \in {"stopped", "failed", "completed"} /\ job'[w] = job[w] /\ job[w] \in Tasks
          /\ out'[w] = [event |-> [kind |-> pc[w], task |-> job[w]], to |-> 1]
      BY <1>4, <2>2, WorkerPublishes DEF LocalInv, PreTokenPcs, ActivePcs
    <3>2. Flush(w)
      BY <1>4, <2>2, <3>1 DEF WorkerStep, BeginRun, Begin, Log, ReturnRun, Return, EndRun
    <3>3. state[job[w]] \in {"running", "invalid"}
      BY <3>1 DEF RunsInv, ActivePcs
    <3>4. /\ pc[w] = "failed" => state'[job[w]] = "error"
          /\ pc[w] # "failed" => state'[job[w]] # "error"
      BY <3>1, <3>2, <3>3 DEF Flush, TypeOK
    <3>5. QED BY <2>2, <3>1, <3>4
  <2>3. QED BY <2>1, <2>2
<1>5. CASE \/ Surroundings \/ RunnerStep \/ UNCHANGED rvars
           \/ \E s \in Subs : Drained(s)
  BY <1>0, <1>5, OtherFrame
<1>6. ASSUME NEW s \in Subs, Read(s) PROVE UNCHANGED <<pc, job, out>>
  BY <1>6 DEF Read, vars
<1>7. QED BY <1>0, <1>1, <1>2, <1>3, <1>4, <1>5, <1>6 DEF RNext

-----------------------------------------------------------------------------
(* What a subscription knows of a failure *)

\* Once it has handled its channel, subscription s shows t as failed.
WillShow(s, t) ==
  \/ view[s][t] = "failed" /\ \A i \in 1..Len(ch[s]) : ch[s][i].task # t
  \/ \E i \in 1..Len(ch[s]) :
       /\ ch[s][i].task = t /\ ch[s][i].kind = "failed"
       /\ \A j \in i + 1..Len(ch[s]) : ch[s][j].task # t

LEMMA WillShowFrame ==
  ASSUME NEW s \in Subs, NEW t \in Tasks, ch'[s] = ch[s], view'[s] = view[s]
  PROVE  WillShow(s, t)' <=> WillShow(s, t)
  BY DEF WillShow

LEMMA WillShowAppend ==
  ASSUME NEW s \in Subs, NEW t \in Tasks, NEW e, ch[s] \in Seq(Events), e \in Events,
         ch'[s] = Append(ch[s], e), view'[s] = view[s]
  PROVE  WillShow(s, t)' <=> IF e.task = t THEN e.kind = "failed" ELSE WillShow(s, t)
<1>1. PICK n \in Nat : n = Len(ch[s])
  OBVIOUS
<1>2. /\ Len(ch'[s]) = n + 1
      /\ \A i \in 1..n : ch'[s][i] = ch[s][i]
      /\ ch'[s][n + 1] = e
  BY <1>1
<1>3. CASE e.task = t
  <2>1. \A i \in 1..n : n + 1 \in i + 1..n + 1
    OBVIOUS
  <2>2. n + 1 \in 1..n + 1 /\ n + 1 + 1..n + 1 = {}
    OBVIOUS
  <2>3. WillShow(s, t)' => e.kind = "failed"
    <3>1. ~ (\A i \in 1..Len(ch'[s]) : ch'[s][i].task # t)
      BY <1>2, <1>3, <2>2
    <3>2. ASSUME NEW i \in 1..n + 1, ch'[s][i].kind = "failed",
                 \A j \in i + 1..n + 1 : ch'[s][j].task # t
          PROVE  e.kind = "failed"
      <4>1. i = n + 1
        BY <1>2, <1>3, <2>1, <3>2
      <4>2. QED BY <1>2, <3>2, <4>1
    <3>3. QED BY <1>2, <3>1, <3>2 DEF WillShow
  <2>4. e.kind = "failed" => WillShow(s, t)'
    BY <1>2, <1>3, <2>2 DEF WillShow
  <2>5. QED BY <1>3, <2>3, <2>4
<1>4. CASE e.task # t
  <2>1. \A i \in 1..n + 1 : ch'[s][i].task = t => i \in 1..n
    BY <1>2, <1>4
  <2>2. (\A i \in 1..n + 1 : ch'[s][i].task # t) <=> (\A i \in 1..n : ch[s][i].task # t)
    BY <1>2, <2>1
  <2>3. ASSUME NEW i \in 1..n
        PROVE  (\A j \in i + 1..n + 1 : ch'[s][j].task # t) <=> (\A j \in i + 1..n : ch[s][j].task # t)
    <3>1. \A j \in i + 1..n + 1 : j \in i + 1..n \/ j = n + 1
      OBVIOUS
    <3>2. \A j \in i + 1..n : j \in i + 1..n + 1 /\ ch'[s][j] = ch[s][j]
      BY <1>2
    <3>3. ch'[s][n + 1].task # t
      BY <1>2, <1>4
    <3>4. QED BY <3>1, <3>2, <3>3
  <2>4. (\E i \in 1..n + 1 : /\ ch'[s][i].task = t /\ ch'[s][i].kind = "failed"
                             /\ \A j \in i + 1..n + 1 : ch'[s][j].task # t)
        <=>
        (\E i \in 1..n : /\ ch[s][i].task = t /\ ch[s][i].kind = "failed"
                         /\ \A j \in i + 1..n : ch[s][j].task # t)
    <3>1. \A i \in 1..n : i \in 1..n + 1 /\ ch'[s][i] = ch[s][i]
      BY <1>2
    <3>2. QED BY <2>1, <2>3, <3>1
  <2>5. QED BY <1>1, <1>2, <1>4, <2>2, <2>4 DEF WillShow
<1>5. QED BY <1>3, <1>4

LEMMA WillShowTail ==
  ASSUME NEW s \in Subs, NEW t \in Tasks, ch[s] \in Seq(Events), ch[s] # <<>>,
         ch'[s] = Tail(ch[s]),
         view'[s][t] = IF Head(ch[s]).task = t THEN Head(ch[s]).kind ELSE view[s][t]
  PROVE  WillShow(s, t)' <=> WillShow(s, t)
<1>1. PICK n \in Nat \ {0} : n = Len(ch[s])
  OBVIOUS
<1>2. /\ Len(ch'[s]) = n - 1
      /\ \A i \in 1..n - 1 : ch'[s][i] = ch[s][i + 1]
      /\ Head(ch[s]) = ch[s][1]
  BY <1>1
<1>3. \A i \in 2..n : i - 1 \in 1..n - 1 /\ ch'[s][i - 1] = ch[s][i]
  BY <1>2
<1>4. (\A i \in 1..n - 1 : ch'[s][i].task # t) <=> (\A i \in 2..n : ch[s][i].task # t)
  <2>1. ASSUME NEW i \in 1..n - 1 PROVE i + 1 \in 2..n /\ ch'[s][i] = ch[s][i + 1]
    BY <1>2
  <2>2. QED BY <1>3, <2>1
<1>5. ASSUME NEW i \in 1..n - 1
      PROVE  (\A j \in i + 1..n - 1 : ch'[s][j].task # t)
             <=> (\A j \in i + 1 + 1..n : ch[s][j].task # t)
  <2>1. \A j \in i + 1..n - 1 : j + 1 \in i + 1 + 1..n /\ ch'[s][j] = ch[s][j + 1]
    BY <1>2
  <2>2. ASSUME NEW j \in i + 1 + 1..n PROVE j - 1 \in i + 1..n - 1 /\ ch'[s][j - 1] = ch[s][j]
    <3>1. j \in 2..n /\ j - 1 \in i + 1..n - 1
      OBVIOUS
    <3>2. QED BY <1>3, <3>1
  <2>3. QED BY <2>1, <2>2
<1>6. (\E i \in 1..n - 1 : /\ ch'[s][i].task = t /\ ch'[s][i].kind = "failed"
                           /\ \A j \in i + 1..n - 1 : ch'[s][j].task # t)
      <=>
      (\E i \in 2..n : /\ ch[s][i].task = t /\ ch[s][i].kind = "failed"
                       /\ \A j \in i + 1..n : ch[s][j].task # t)
  <2>1. ASSUME NEW i \in 1..n - 1, ch'[s][i].task = t, ch'[s][i].kind = "failed",
               \A j \in i + 1..n - 1 : ch'[s][j].task # t
        PROVE  \E k \in 2..n : /\ ch[s][k].task = t /\ ch[s][k].kind = "failed"
                               /\ \A j \in k + 1..n : ch[s][j].task # t
    <3>1. i + 1 \in 2..n /\ ch[s][i + 1] = ch'[s][i]
      BY <1>2
    <3>2. \A j \in i + 1 + 1..n : ch[s][j].task # t
      BY <1>5, <2>1
    <3>3. QED BY <2>1, <3>1, <3>2
  <2>2. ASSUME NEW k \in 2..n, ch[s][k].task = t, ch[s][k].kind = "failed",
               \A j \in k + 1..n : ch[s][j].task # t
        PROVE  \E i \in 1..n - 1 : /\ ch'[s][i].task = t /\ ch'[s][i].kind = "failed"
                                   /\ \A j \in i + 1..n - 1 : ch'[s][j].task # t
    <3>1. PICK i \in 1..n - 1 : k = i + 1
      <4>1. k - 1 \in 1..n - 1 /\ k = (k - 1) + 1
        OBVIOUS
      <4>2. QED BY <4>1
    <3>2. \A j \in i + 1..n - 1 : ch'[s][j].task # t
      BY <1>5, <2>2, <3>1
    <3>3. QED BY <1>2, <2>2, <3>1, <3>2
  <2>3. QED BY <2>1, <2>2
<1>7. CASE ch[s][1].task = t
  <2>1. ~ (\A i \in 1..n : ch[s][i].task # t)
    BY <1>7
  <2>2. (\E i \in 1..n : /\ ch[s][i].task = t /\ ch[s][i].kind = "failed"
                         /\ \A j \in i + 1..n : ch[s][j].task # t)
        <=> \/ ch[s][1].kind = "failed" /\ \A j \in 2..n : ch[s][j].task # t
            \/ \E i \in 2..n : /\ ch[s][i].task = t /\ ch[s][i].kind = "failed"
                               /\ \A j \in i + 1..n : ch[s][j].task # t
    <3>1. \A i \in 1..n : i = 1 \/ i \in 2..n
      OBVIOUS
    <3>2. 1 \in 1..n /\ 1 + 1 = 2 /\ \A i \in 2..n : i \in 1..n
      OBVIOUS
    <3>3. QED BY <1>7, <3>1, <3>2
  <2>3. QED BY <1>1, <1>2, <1>4, <1>6, <1>7, <2>1, <2>2 DEF WillShow
<1>8. CASE ch[s][1].task # t
  <2>1. (\A i \in 1..n : ch[s][i].task # t) <=> (\A i \in 2..n : ch[s][i].task # t)
    <3>1. \A i \in 1..n : i = 1 \/ i \in 2..n
      OBVIOUS
    <3>2. \A i \in 2..n : i \in 1..n
      OBVIOUS
    <3>3. QED BY <1>8, <3>1, <3>2
  <2>2. (\E i \in 1..n : /\ ch[s][i].task = t /\ ch[s][i].kind = "failed"
                         /\ \A j \in i + 1..n : ch[s][j].task # t)
        <=> (\E i \in 2..n : /\ ch[s][i].task = t /\ ch[s][i].kind = "failed"
                             /\ \A j \in i + 1..n : ch[s][j].task # t)
    <3>1. \A i \in 1..n : i = 1 \/ i \in 2..n
      OBVIOUS
    <3>2. \A i \in 2..n : i \in 1..n
      OBVIOUS
    <3>3. QED BY <1>8, <3>1, <3>2
  <2>3. QED BY <1>1, <1>2, <1>4, <1>6, <1>8, <2>1, <2>2 DEF WillShow
<1>9. QED BY <1>7, <1>8

\* Worker w publishes an event of kind k and has not sent it to s yet.
Coming(w, s, k) == out[w] # Nothing /\ out[w].event.kind = k /\ out[w].to <= s

\* The run of w has failed, and s will be told so.
Reporting(w, s) == pc[w] = "flushed" /\ Coming(w, s, "failed")

\* The run of w has begun for the executor and not yet for s.
Starting(w, s) == pc[w] = "launched" \/ (pc[w] = "running" /\ Coming(w, s, "started"))

\* A plan will reset t.
Taken(t) == t \in toInvalidate /\ \A p \in Procs : ~ (pc[p] = "drain" /\ cur[p] = t)

\* A task in error is one that s will show as failed, that it is going to be told of, or
\* that a plan is about to reset; and s shows no failure of a task that has since been
\* started, unless it is still to be told of the start.
Told(s, t) ==
  /\ state[t] = "error" =>
       \/ WillShow(s, t)
       \/ \E w \in Workers : job[w] = t /\ Reporting(w, s)
       \/ Taken(t)
  /\ WillShow(s, t) =>
       /\ state[t] \in {"error", "invalid"} \/ \E w \in Workers : job[w] = t /\ Starting(w, s)
       /\ \A w \in Workers : job[w] = t /\ pc[w] \in ActivePcs => Starting(w, s)

ToldInv == \A s \in Subs \ Quitters, t \in Tasks : Told(s, t)

\* Steps that leave t, its run and what s is told of it where they are.
LEMMA ToldFrame ==
  ASSUME NEW s \in Subs, NEW t \in Tasks, Told(s, t),
         WillShow(s, t)' <=> WillShow(s, t),
         state'[t] \in {state[t], "invalid"},
         state'[t] = "error" /\ Taken(t) => Taken(t)',
         \A w \in Workers : job[w] = t /\ Starting(w, s) => job'[w] = t /\ Starting(w, s)',
         \A w \in Workers : job[w] = t /\ Reporting(w, s) => job'[w] = t /\ Reporting(w, s)',
         \A w \in Workers : job'[w] = t /\ pc'[w] \in ActivePcs => job[w] = t /\ pc[w] \in ActivePcs
  PROVE  Told(s, t)'
<1>1. state'[t] = "error" =>
        \/ WillShow(s, t)'
        \/ \E w \in Workers : job'[w] = t /\ Reporting(w, s)'
        \/ Taken(t)'
  BY DEF Told
<1>2. WillShow(s, t)' =>
        state'[t] \in {"error", "invalid"} \/ \E w \in Workers : job'[w] = t /\ Starting(w, s)'
  BY DEF Told
<1>3. WillShow(s, t)' => \A w \in Workers : job'[w] = t /\ pc'[w] \in ActivePcs => Starting(w, s)'
  BY DEF Told
<1>4. QED BY <1>1, <1>2, <1>3 DEF Told

LEMMA QuietTold ==
  ASSUME OneRunInv, StillInv, NEW p \in Procs, Quiet(p),
         NEW s \in Subs, NEW t \in Tasks, Told(s, t)
  PROVE  Told(s, t)'
<1> USE DEF OneRunInv, TypeInv, TypeOK, Goto, Procs
<1>1. out[p] = Nothing /\ UNCHANGED <<out, ch, view>>
  BY DEF Quiet, Ready
<1>2. WillShow(s, t)' <=> WillShow(s, t)
  BY <1>1, WillShowFrame
<1>3. /\ pc[p] \notin ActivePcs /\ pc'[p] \notin PreTokenPcs
      /\ \A q \in Procs \ {p} :
           \/ pc'[q] = pc[q] /\ job'[q] = job[q]
           \/ pc[q] = "idle" /\ pc'[q] \in {"launched", "pass"}
  BY QuietFrame
<1>4. ~ Starting(p, s) /\ ~ Reporting(p, s)
  BY <1>1, <1>3 DEF Starting, Reporting, Coming, ActivePcs
<1>5. \A w \in Workers : job[w] = t /\ Starting(w, s) => job'[w] = t /\ Starting(w, s)'
  BY <1>1, <1>3, <1>4 DEF Starting, Coming
<1>6. \A w \in Workers : job[w] = t /\ Reporting(w, s) => job'[w] = t /\ Reporting(w, s)'
  BY <1>1, <1>3, <1>4 DEF Reporting, Coming
<1>7. CASE PassLaunch(p)
  <2>1. PICK u \in todo[p], w \in Workers :
          /\ ShouldExecute(u) /\ pc[w] = "idle" /\ pc[p] = "visit"
          /\ state' = [state EXCEPT ![u] = "running"]
          /\ job' = [job EXCEPT ![w] = u]
          /\ pc' = [pc EXCEPT ![w] = "launched", ![p] = VisitedPc(p, u)]
    BY <1>7 DEF PassLaunch
  <2>2. /\ p # w /\ u \in Tasks /\ state[u] = "invalid"
        /\ UNCHANGED <<cur, toInvalidate>>
        /\ job'[w] = u /\ pc'[w] = "launched"
        /\ \A v \in Workers \ {w} : job'[v] = job[v]
        /\ \A v \in Workers \ {p, w} : pc'[v] = pc[v]
    BY <1>7, <2>1 DEF PassLaunch, ShouldExecute
  <2>3. CASE t # u
    <3>1. \A q \in Procs : pc'[q] = "drain" => pc[q] = "drain"
      <4>1. VisitedPc(p, u) # "drain"
        BY DEF VisitedPc, AfterPass
      <4>2. QED BY <2>1, <4>1
    <3>2. Taken(t) => Taken(t)'
      BY <2>2, <3>1 DEF Taken
    <3>3. \A v \in Workers : job'[v] = t /\ pc'[v] \in ActivePcs => job[v] = t /\ pc[v] \in ActivePcs
      BY <1>3, <2>2, <2>3 DEF PreTokenPcs
    <3>4. state'[t] = state[t]
      BY <2>1, <2>3
    <3>5. QED BY <1>2, <1>5, <1>6, <3>2, <3>3, <3>4, ToldFrame
  <2>4. CASE t = u
    <3>1. state'[t] = "running"
      BY <2>1, <2>2, <2>4
    <3>2. Starting(w, s)'
      BY <2>2 DEF Starting
    <3>3. \A v \in Workers : pc[v] \in ActivePcs => job[v] # t
      <4>1. \A q \in Procs : pc[q] # "drain"
        BY <2>1 DEF LockInv, CriticalPcs
      <4>2. QED BY <2>2, <2>4, <4>1 DEF TokenInv, PreTokenPcs
    <3>4. \A v \in Workers : job'[v] = t /\ pc'[v] \in ActivePcs => v = w
      BY <1>3, <2>2, <3>3 DEF PreTokenPcs
    <3>5. QED BY <2>2, <2>4, <3>1, <3>2, <3>4 DEF Told
  <2>5. QED BY <2>3, <2>4
<1>8. CASE ~ PassLaunch(p)
  <2>1. CASE \/ InvalidateCall(p) \/ PlanLock(p) \/ CancelRun(p)
             \/ PassCheck(p) \/ PassLock(p) \/ PassSkip(p)
             \/ SendTerminal(p) \/ KeepAliveCheck(p) \/ Leave(p)
             \/ p = Loop /\ LoopStep
             \/ p = Main /\ (RunBuild \/ RunStart)
    <3>1. UNCHANGED <<state, toInvalidate>> /\ pc[p] # "drain" /\ pc'[p] # "drain"
      <4>1. CASE InvalidateCall(p)
        BY <4>1 DEF InvalidateCall, SkipMark, CheckMark, RecordMark, Send, Marked, AfterInvalidate,
           AfterMarks
      <4>2. CASE PlanLock(p) \/ CancelRun(p)
        BY <4>2 DEF PlanLock, CancelRun
      <4>3. CASE PassCheck(p) \/ PassLock(p) \/ PassSkip(p)
        BY <4>3 DEF PassCheck, PassLock, PassSkip, VisitedPc, AfterPass
      <4>4. CASE SendTerminal(p) \/ KeepAliveCheck(p) \/ Leave(p)
        BY <4>4 DEF SendTerminal, KeepAliveCheck, Leave, AfterInvalidate
      <4>5. CASE p = Loop /\ LoopStep
        BY <4>5 DEF LoopStep, LoopReceive, LoopStop, LoopTimer, LoopSpawn
      <4>6. CASE p = Main /\ (RunBuild \/ RunStart)
        BY <4>6 DEF RunBuild, RunStart
      <4>7. QED BY <2>1, <4>1, <4>2, <4>3, <4>4, <4>5, <4>6
    <3>2. \A q \in Procs : pc'[q] = "drain" => pc[q] = "drain" /\ cur'[q] = cur[q]
      BY <1>3, <2>1, <3>1 DEF InvalidateCall, SkipMark, CheckMark, RecordMark, Send, PlanLock,
         CancelRun, PassCheck, PassLock, PassSkip, SendTerminal, KeepAliveCheck, Leave, LoopStep,
         LoopReceive, LoopStop, LoopTimer, LoopSpawn, RunBuild, RunStart
    <3>3. Taken(t) => Taken(t)'
      BY <3>1, <3>2 DEF Taken
    <3>4. \A v \in Workers : job'[v] = t /\ pc'[v] \in ActivePcs => job[v] = t /\ pc[v] \in ActivePcs
      <4>1. \A v \in Workers \ {p} : ~ (pc[v] = "idle" /\ pc'[v] = "launched")
        BY <2>1 DEF InvalidateCall, SkipMark, CheckMark, RecordMark, Send, Marked, PlanLock,
           CancelRun, PassCheck, PassLock, PassSkip, SendTerminal, KeepAliveCheck, Leave, LoopStep,
           LoopReceive, LoopStop, LoopTimer, LoopSpawn, RunBuild, RunStart
      <4>2. QED BY <1>3, <4>1 DEF ActivePcs, PreTokenPcs
    <3>5. QED BY <1>2, <1>5, <1>6, <3>1, <3>3, <3>4, ToldFrame
  <2>2. CASE SkipInvalidate(p) \/ ResetRun(p) \/ DrainRun(p)
    <3>1. /\ UNCHANGED job /\ \A q \in Procs \ {p} : pc'[q] = pc[q] /\ cur'[q] = cur[q]
          /\ pc'[p] \notin ActivePcs
      BY <1>3, <2>2 DEF SkipInvalidate, ResetRun, DrainRun, Planned, PreTokenPcs
    <3>2. \A v \in Workers : job'[v] = t /\ pc'[v] \in ActivePcs => job[v] = t /\ pc[v] \in ActivePcs
      BY <3>1
    <3>3. state'[t] \in {state[t], "invalid"}
      BY <2>2 DEF SkipInvalidate, ResetRun, DrainRun
    <3>4. state'[t] = "error" /\ Taken(t) => Taken(t)'
      <4>1. CASE SkipInvalidate(p)
        <5>1. /\ UNCHANGED <<state, cur>>
              /\ state[t] = "error" /\ t \in toInvalidate => t \in toInvalidate'
              /\ pc'[p] # "drain"
          BY <4>1 DEF SkipInvalidate, Planned, AfterPlan
        <5>2. QED BY <3>1, <5>1 DEF Taken
      <4>2. CASE ResetRun(p)
        <5>1. state' = [state EXCEPT ![cur[p]] = "invalid"] /\ UNCHANGED <<cur, toInvalidate>>
          BY <4>2 DEF ResetRun
        <5>2. state'[t] = "error" => cur[p] # t
          BY <5>1
        <5>3. QED BY <3>1, <5>1, <5>2 DEF Taken
      <4>3. CASE DrainRun(p)
        <5>1. /\ pc[p] = "drain" /\ pc'[p] # "drain"
              /\ toInvalidate' = toInvalidate \ {cur[p]}
          BY <4>3 DEF DrainRun, Planned, AfterPlan
        <5>2. QED BY <3>1, <5>1 DEF Taken
      <4>4. QED BY <2>2, <4>1, <4>2, <4>3
    <3>5. QED BY <1>2, <1>5, <1>6, <3>2, <3>3, <3>4, ToldFrame
  <2>3. QED BY <1>8, <2>1, <2>2 DEF Quiet, Pass
<1>9. QED BY <1>7, <1>8

LEMMA CollectTold ==
  ASSUME OneRunInv, BusTypeOK, NEW p \in Workers \cup {Loop}, CollectTask(p),
         NEW s \in Subs, NEW t \in Tasks, Told(s, t)
  PROVE  Told(s, t)'
<1> USE DEF OneRunInv, TypeInv, TypeOK, Procs
<1>1. p \in Procs /\ out[p] = Nothing /\ pc[p] = "collect"
  BY DEF CollectTask, Collect, Ready
<1>2. PICK u \in Tasks :
        /\ toInvalidate' = toInvalidate \cup {v \in {u} : Collectable(v)}
        /\ IF Collectable(u) THEN Publish(p, "invalidated", u) ELSE UNCHANGED busVars
  BY CollectAnnounces
<1>3. /\ UNCHANGED <<ch, view, state, job, cur>>
      /\ \A q \in Procs \ {p} : pc'[q] = pc[q] /\ out'[q] = out[q]
      /\ pc'[p] \in {"collect", "invalidating", "spawn", "pass"}
  BY <1>1, <1>2 DEF CollectTask, Collect, Planned, AfterPlan, Goto, Publish, BusTypeOK
<1>4. WillShow(s, t)' <=> WillShow(s, t)
  BY <1>3, WillShowFrame
<1>5. Taken(t) => Taken(t)'
  BY <1>1, <1>2, <1>3 DEF Taken
<1>6. \A w \in Workers : job[w] = t /\ Starting(w, s) => job'[w] = t /\ Starting(w, s)'
  BY <1>1, <1>3 DEF Starting, Coming
<1>7. \A w \in Workers : job[w] = t /\ Reporting(w, s) => job'[w] = t /\ Reporting(w, s)'
  BY <1>1, <1>3 DEF Reporting, Coming
<1>8. \A w \in Workers : job'[w] = t /\ pc'[w] \in ActivePcs => job[w] = t /\ pc[w] \in ActivePcs
  BY <1>3 DEF ActivePcs
<1>9. QED BY <1>3, <1>4, <1>5, <1>6, <1>7, <1>8, ToldFrame

LEMMA WorkerTold ==
  ASSUME RTypeInv, RunsInv, NEW w \in Workers, WorkerStep(w),
         NEW s \in Subs, NEW t \in Tasks, Told(s, t)
  PROVE  Told(s, t)'
<1> USE DEF RTypeInv, OneRunInv, TypeInv, TypeOK, Procs
<1>0. s \in Nat /\ 1 <= s
  BY RunnerAssumption DEF Subs
<1>1. /\ out[w] = Nothing /\ UNCHANGED <<ch, view, job>>
      /\ \A q \in Procs \ {w} : pc'[q] = pc[q] /\ out'[q] = out[q]
  BY WorkerPublishes
<1>2. WillShow(s, t)' <=> WillShow(s, t)
  BY <1>1, WillShowFrame
<1>3. UNCHANGED <<toInvalidate, cur>> /\ pc[w] # "drain" /\ pc'[w] # "drain"
  BY WorkerPublishes DEF WorkerStep, BeginRun, Begin, Log, ReturnRun, Return, EndRun, Flush, vars
<1>4. Taken(t) => Taken(t)'
  BY <1>1, <1>3 DEF Taken
<1>5. ~ Reporting(w, s)
  BY <1>1 DEF Reporting, Coming
<1>6. \A v \in Workers : job[v] = t /\ Reporting(v, s) => job'[v] = t /\ Reporting(v, s)'
  BY <1>1, <1>5 DEF Reporting, Coming
<1>7. Starting(w, s) => Starting(w, s)'
  <2>1. SUFFICES ASSUME pc[w] = "launched" PROVE Starting(w, s)'
    BY <1>1 DEF Starting, Coming
  <2>2. /\ pc'[w] = "running" /\ out'[w] # Nothing
        /\ out'[w] = [event |-> [kind |-> "started", task |-> job[w]], to |-> 1]
    BY <2>1, WorkerPublishes
  <2>3. out'[w].event.kind = "started" /\ out'[w].to <= s
    BY <1>0, <2>2
  <2>4. QED BY <2>2, <2>3 DEF Starting, Coming
<1>8. \A v \in Workers : job[v] = t /\ Starting(v, s) => job'[v] = t /\ Starting(v, s)'
  BY <1>1, <1>7 DEF Starting, Coming
<1>9. pc[w] \in ActivePcs
  BY WorkerPublishes DEF ActivePcs
<1>10. \A v \in Workers : job'[v] = t /\ pc'[v] \in ActivePcs => job[v] = t /\ pc[v] \in ActivePcs
  BY <1>1, <1>9
<1>11. CASE state'[t] = state[t]
  BY <1>2, <1>4, <1>6, <1>8, <1>10, <1>11, ToldFrame
<1>12. CASE state'[t] # state[t]
  <2>1. Flush(w) /\ job[w] = t
    BY <1>12 DEF WorkerStep, BeginRun, Begin, Log, ReturnRun, Return, EndRun, Flush, vars
  <2>2. /\ pc[w] \in {"stopped", "failed", "completed"} /\ pc'[w] = "flushed"
        /\ out'[w] # Nothing
        /\ out'[w] = [event |-> [kind |-> pc[w], task |-> t], to |-> 1]
    BY <2>1, WorkerPublishes DEF Flush
  <2>3. ~ WillShow(s, t)
    BY <2>1, <2>2 DEF Told, Starting, ActivePcs
  <2>4. state[t] \in {"running", "invalid"}
    BY <1>9, <2>1 DEF RunsInv
  <2>5. state'[t] = "error" => Reporting(w, s)'
    <3>1. state'[t] = "error" => pc[w] = "failed"
      BY <2>1, <2>2, <2>4 DEF Flush
    <3>2. pc[w] = "failed" => out'[w].event.kind = "failed" /\ out'[w].to <= s
      BY <1>0, <2>2
    <3>3. QED BY <2>2, <3>1, <3>2 DEF Reporting, Coming
  <2>6. QED BY <1>1, <1>2, <2>1, <2>3, <2>5 DEF Told
<1>13. QED BY <1>11, <1>12

\* s gets the event that brings it up to where the run is.
LEMMA DeliverTold ==
  ASSUME BusInv, RunsInv, ReportInv, AnnouncedInv, NEW p \in Workers, Deliver(p), stage # "closed",
         NEW s \in Subs, NEW t \in Tasks, Told(s, t)
  PROVE  Told(s, t)'
<1> USE DEF BusInv, RTypeInv, OneRunInv, TypeInv, Procs
<1>1. PICK x \in Subs, e \in Events :
        /\ out[p] # Nothing /\ out[p].to = x /\ out[p].event = e
        /\ ch' = [ch EXCEPT ![x] = Append(ch[x], e)]
        /\ UNCHANGED <<state, toInvalidate, pc, cur, job, view>>
        /\ \A q \in Procs \ {p} : out'[q] = out[q]
        /\ IF x = Subscribers THEN out'[p] = Nothing
           ELSE out'[p] # Nothing /\ out'[p].event = e /\ out'[p].to = x + 1
  BY Delivers DEF vars
<1>2. Taken(t)' <=> Taken(t)
  BY <1>1 DEF Taken
<1>3. \A v \in Workers \ {p} : /\ Starting(v, s)' <=> Starting(v, s)
                               /\ Reporting(v, s)' <=> Reporting(v, s)
  BY <1>1 DEF Starting, Reporting, Coming
<1>4. s \in Nat /\ x \in Nat /\ s <= Subscribers /\ Subscribers \in Nat
  BY RunnerAssumption DEF Subs
<1>5. CASE x # s
  <2>1. WillShow(s, t)' <=> WillShow(s, t)
    <3>1. ch'[s] = ch[s] /\ view'[s] = view[s]
      BY <1>1, <1>5 DEF BusTypeOK
    <3>2. QED BY <3>1, WillShowFrame
  <2>2. x <= s => x # Subscribers /\ x + 1 <= s
    BY <1>4, <1>5
  <2>3. \A k : Coming(p, s, k) => Coming(p, s, k)'
    BY <1>1, <2>2 DEF Coming
  <2>4. (Starting(p, s) => Starting(p, s)') /\ (Reporting(p, s) => Reporting(p, s)')
    BY <1>1, <2>3 DEF Starting, Reporting
  <2>5. QED BY <1>1, <1>2, <1>3, <2>1, <2>4, ToldFrame
<1>6. CASE x = s
  <2>1. WillShow(s, t)' <=> IF e.task = t THEN e.kind = "failed" ELSE WillShow(s, t)
    <3>1. ch[s] \in Seq(Events) /\ ch'[s] = Append(ch[s], e) /\ view'[s] = view[s]
      BY <1>1, <1>6 DEF BusTypeOK
    <3>2. QED BY <3>1, WillShowAppend
  <2>2. CASE e.task # t
    <3>1. Starting(p, s) /\ job[p] = t => pc[p] = "launched"
      BY <1>1, <2>2 DEF Starting, Coming, OwnInv
    <3>2. ~ (Reporting(p, s) /\ job[p] = t)
      BY <1>1, <2>2 DEF Reporting, Coming, OwnInv
    <3>3. \A w \in Workers : job[w] = t /\ Starting(w, s) => job'[w] = t /\ Starting(w, s)'
      BY <1>1, <1>3, <3>1 DEF Starting
    <3>4. \A w \in Workers : job[w] = t /\ Reporting(w, s) => job'[w] = t /\ Reporting(w, s)'
      BY <1>1, <1>3, <3>2
    <3>5. QED BY <1>1, <1>2, <2>1, <2>2, <3>3, <3>4, ToldFrame
  <2>3. CASE e.task = t /\ e.kind = "invalidated"
    <3>1. t \in toInvalidate /\ pc[p] \in {"collect", "invalidating"}
      BY <1>1, <2>3 DEF AnnouncedInv
    <3>2. \A q \in Procs : pc[q] # "drain"
      BY <3>1 DEF LockInv, CriticalPcs
    <3>3. Taken(t)'
      BY <1>2, <3>1, <3>2 DEF Taken
    <3>4. QED BY <2>1, <2>3, <3>3 DEF Told
  <2>4. CASE e.task = t /\ e.kind \in {"started", "log"}
    <3>1. pc[p] = "running" /\ job[p] = t
      BY <1>1, <2>4 DEF OutInv, OwnInv, Outcomes
    <3>2. state[t] # "error"
      BY <3>1 DEF RunsInv, ActivePcs
    <3>3. QED BY <1>1, <2>1, <2>4, <3>2 DEF Told
  <2>5. CASE e.task = t /\ e.kind \in Outcomes
    <3>1. pc[p] = "flushed" /\ job[p] = t
      BY <1>1, <2>5 DEF OutInv, OwnInv, Outcomes
    <3>2. IF e.kind = "failed" THEN state[t] \in {"error", "invalid"} ELSE state[t] # "error"
      BY <1>1, <3>1 DEF ReportInv
    <3>3. \A w \in Workers : job[w] = t => pc[w] \notin ActivePcs
      BY <3>1 DEF AtMostOneRun, PreTokenPcs, ActivePcs
    <3>4. QED BY <1>1, <2>1, <2>5, <3>2, <3>3 DEF Told
  <2>6. QED BY <2>2, <2>3, <2>4, <2>5 DEF Events, Kinds
<1>7. QED BY <1>5, <1>6

LEMMA ReadTold ==
  ASSUME BusTypeOK, NEW x \in Subs, Read(x),
         NEW s \in Subs, x # s \/ s \in reading', NEW t \in Tasks, Told(s, t)
  PROVE  Told(s, t)'
<1>1. UNCHANGED <<state, toInvalidate, pc, cur, job, out>>
  BY DEF Read, vars
<1>2. WillShow(s, t)' <=> WillShow(s, t)
  <2>1. CASE x # s
    <3>1. ch'[s] = ch[s] /\ view'[s] = view[s]
      BY <2>1 DEF Read, BusTypeOK
    <3>2. QED BY <3>1, WillShowFrame
  <2>2. CASE x = s
    <3>1. /\ ch[s] \in Seq(Events) /\ ch[s] # <<>> /\ ch'[s] = Tail(ch[s])
          /\ view' = [view EXCEPT ![s][Head(ch[s]).task] = Head(ch[s]).kind]
      BY <2>2 DEF Read, BusTypeOK
    <3>2. PICK e \in Events : e = Head(ch[s])
      BY <3>1
    <3>3. view'[s] = [view[s] EXCEPT ![e.task] = e.kind] /\ view[s] \in [Tasks -> Kinds \cup {"none"}]
      BY <3>1, <3>2 DEF BusTypeOK, Events
    <3>4. view'[s][t] = IF Head(ch[s]).task = t THEN Head(ch[s]).kind ELSE view[s][t]
      BY <3>2, <3>3
    <3>5. QED BY <3>1, <3>4, WillShowTail
  <2>3. QED BY <2>1, <2>2
<1>3. Taken(t) => Taken(t)'
  BY <1>1 DEF Taken
<1>4. \A w \in Workers : (Starting(w, s) => Starting(w, s)') /\ (Reporting(w, s) => Reporting(w, s)')
  BY <1>1 DEF Starting, Reporting, Coming
<1>5. QED BY <1>1, <1>2, <1>3, <1>4, ToldFrame

LEMMA ToldStep ==
  ASSUME NothingRestarts, EndedInv, RunsInv, AnnouncedInv, ReportInv, ToldInv, [RNext]_rvars
  PROVE  ToldInv'
<1> USE DEF EndedInv, BusInv, RTypeInv
<1> SUFFICES ASSUME NEW s \in Subs \ Quitters, NEW t \in Tasks PROVE Told(s, t)'
  BY DEF ToldInv
<1>0. Told(s, t)
  BY DEF ToldInv
<1>1. ASSUME NEW p \in Procs, Deliver(p) PROVE Told(s, t)'
  <2>1. p \in Workers /\ pc[p] # "idle"
    BY <1>1 DEF Deliver, OwnInv, ClosedInv
  <2>2. stage # "closed"
    BY <2>1 DEF StillInv, ClosedInv, Exited
  <2>3. QED BY <1>0, <1>1, <2>1, <2>2, DeliverTold
<1>2. ASSUME NEW p \in Procs, Quiet(p) PROVE Told(s, t)'
  BY <1>0, <1>2, QuietTold
<1>3. ASSUME NEW p \in Workers \cup {Loop}, CollectTask(p) PROVE Told(s, t)'
  BY <1>0, <1>3, CollectTold
<1>4. ASSUME NEW w \in Workers, WorkerStep(w) PROVE Told(s, t)'
  BY <1>0, <1>4, WorkerTold
<1>5. CASE \/ Surroundings \/ RunnerStep \/ UNCHANGED rvars
           \/ \E x \in Subs : Drained(x)
  <2>1. /\ UNCHANGED <<out, ch, view, state, toInvalidate, cur>>
        /\ \A w \in Workers : pc'[w] = pc[w] /\ job'[w] = job[w]
        /\ \A p \in Procs : pc'[p] = "drain" <=> pc[p] = "drain"
    BY <1>5, OtherFrame DEF OneRunInv
  <2>2. WillShow(s, t)' <=> WillShow(s, t)
    BY <2>1, WillShowFrame
  <2>3. Taken(t) => Taken(t)'
    BY <2>1 DEF Taken
  <2>4. \A w \in Workers : (Starting(w, s) => Starting(w, s)') /\ (Reporting(w, s) => Reporting(w, s)')
    BY <2>1 DEF Starting, Reporting, Coming
  <2>5. QED BY <1>0, <2>1, <2>2, <2>3, <2>4, ToldFrame
<1>6. ASSUME NEW x \in Subs, Read(x) PROVE Told(s, t)'
  <2>1. x # s \/ s \in reading'
    BY <1>6 DEF Read
  <2>2. QED BY <1>0, <1>6, <2>1, ReadTold
<1>7. QED BY <1>1, <1>2, <1>3, <1>4, <1>5, <1>6 DEF RNext


-----------------------------------------------------------------------------
(* What is left when Executor.Run has returned *)

\* No subscription has been told of anything.
Untold == \A s \in Subs : ch[s] = <<>> /\ \A t \in Tasks : view[s][t] = "none"

\* What a pass would not start is below a failure.
BlockedInv ==
  \A t \in Tasks : state[t] = "invalid" => \E d \in Dependencies[t] : state[d] = "error"

\* The annotation lists every task that has failed, or is missing because a hook failed.
Written == annotated = FailedTasks \/ (hookFailed /\ annotated = {})

\* The hooks run once wg.Wait has returned, and the annotation is of what is in error
\* then; a context that is done before that has been interrupted.
LastInv ==
  /\ pc[Main] \in {"build", "hooks"} => Untold /\ \A t \in Tasks : state[t] = "invalid"
  /\ rootDone /\ stage \in {"run", "hooks"} => interrupted
  /\ stage \in {"run", "hooks"} => annotated = {} /\ ~ hookFailed
  /\ stage \in {"close", "closed", "exited"} => Written
  /\ pc[Main] = "returned" => interrupted \/ Untold \/ BlockedInv

\* Before Main's first pass, and after wg.Wait, no state changes and nothing is told.
LEMMA NobodyRuns ==
  ASSUME EndedInv, NothingRestarts, [RNext]_rvars, pc[Main] \in {"build", "hooks", "returned"}
  PROVE  UNCHANGED state /\ (Untold => Untold')
<1> USE DEF EndedInv, BusInv, RTypeInv, OneRunInv, TypeInv
<1>1. /\ \A w \in Workers : pc[w] = "idle"
      /\ \A p \in Passers : pc[p] = "idle"
      /\ pc[Loop] \in {"select", "exited"}
      /\ \A p \in Procs : out[p] = Nothing
  BY DEF StillInv, Exited, OwnInv, ClosedInv
<1>2. ASSUME NEW p \in Procs, Quiet(p) PROVE UNCHANGED <<state, ch, view>>
  <2>1. UNCHANGED <<ch, view>>
    BY <1>2 DEF Quiet
  <2>2. CASE InvalidateCall(p)
    BY <2>1, <2>2 DEF InvalidateCall, SkipMark, CheckMark, RecordMark, Send
  <2>3. ~ (\/ /\ p \in Workers \cup {Loop}
              /\ PlanLock(p) \/ SkipInvalidate(p) \/ CancelRun(p) \/ ResetRun(p) \/ DrainRun(p)
           \/ p \in Workers \cup Passers \cup {Main} /\ Pass(p)
           \/ p \in Workers /\ (SendTerminal(p) \/ KeepAliveCheck(p) \/ Leave(p)))
    BY <1>1 DEF PlanLock, SkipInvalidate, CancelRun, ResetRun, DrainRun, Pass, PassCheck, PassLock,
       PassSkip, PassLaunch, SendTerminal, KeepAliveCheck, Leave
  <2>4. CASE LoopStep \/ RunBuild \/ RunStart
    BY <2>1, <2>4 DEF LoopStep, LoopReceive, LoopStop, LoopTimer, LoopSpawn, RunBuild, RunStart
  <2>5. QED BY <1>2, <2>2, <2>3, <2>4 DEF Quiet
<1>3. ASSUME NEW p \in Procs PROVE ~ Deliver(p)
  BY <1>1 DEF Deliver
<1>4. ASSUME NEW p \in Workers \cup {Loop} PROVE ~ CollectTask(p)
  BY <1>1 DEF CollectTask, Collect
<1>5. ASSUME NEW w \in Workers PROVE ~ WorkerStep(w)
  BY <1>1 DEF WorkerStep, BeginRun, Begin, Log, ReturnRun, Return, EndRun, Flush
<1>6. CASE \/ Surroundings \/ RunnerStep \/ UNCHANGED rvars
           \/ \E s \in Subs : Drained(s)
  BY <1>6, OtherFrame DEF Untold
<1>7. ASSUME NEW s \in Subs, Read(s) PROVE UNCHANGED state /\ ~ Untold
  BY <1>7 DEF Read, Untold, vars
<1>8. QED BY <1>2, <1>3, <1>4, <1>5, <1>6, <1>7 DEF RNext, Untold

\* wg.Wait has waited for every pass, and so for every task that one would start.
LEMMA WaitBlocks ==
  ASSUME EndedInv, NothingRestarts, RunsInv, NoForgottenTask, RunWait
  PROVE  rootDone \/ BlockedInv
<1> SUFFICES ASSUME ~ rootDone PROVE BlockedInv
  OBVIOUS
<1> USE DEF EndedInv, BusInv, RTypeInv, OneRunInv
<1>1. pc[Main] = "wait" /\ \A w \in Workers : pc[w] = "idle"
  BY DEF RunWait, Exited
<1>2. \A p \in Procs : pc[p] \in {"wait", "idle", "select", "exited", "invalidate", "record"}
  BY <1>1 DEF StillInv, NothingRestarts, Procs
<1>3. \A p \in Workers \cup {Loop} : pc[p] \in {"idle", "select", "exited"}
  BY <1>1 DEF StillInv
<1>4. \A p \in Procs, t \in Tasks : ~ PassComing(p, t)
  BY <1>2, <1>3 DEF PassComing, PreTokenPcs, ActivePcs, RoutinePcs
<1>5. \A t \in Tasks : ~ ShouldExecute(t)
  BY <1>1, <1>4 DEF NoForgottenTask
<1>6. \A t \in Tasks : state[t] \notin {"running", "canceled"}
  BY <1>1, <1>2 DEF RunsInv, Cancelling, ActivePcs
<1>7. QED BY <1>5, <1>6, Blocked DEF BlockedInv

\* Only Executor.Run goes on to its end, and only from its end.
LEMMA EndFrame ==
  ASSUME NothingRestarts, EndedInv, [RNext]_rvars
  PROVE  /\ pc'[Main] \in {"build", "hooks"} => pc[Main] \in {"build", "hooks"}
         /\ \/ UNCHANGED <<stage, runErr, annotated, hookFailed, interrupted, rootDone>>
            \/ Surroundings
            \/ RunnerStep
<1> USE DEF EndedInv, BusInv, RTypeInv, OneRunInv, TypeInv
<1>1. ASSUME NEW p \in Procs, Deliver(p) PROVE UNCHANGED <<vars, stage, runErr, annotated, hookFailed, interrupted>>
  <2>1. p \in Workers /\ pc[p] # "idle"
    BY <1>1 DEF OwnInv, ClosedInv, Deliver
  <2>2. stage # "closed"
    BY <2>1 DEF StillInv, ClosedInv, Exited
  <2>3. QED BY <1>1, <2>2 DEF Deliver
<1>2. ASSUME NEW p \in Procs, Quiet(p) PROVE UNCHANGED <<stage, runErr, annotated, hookFailed, interrupted, rootDone>>
  BY <1>2 DEF Quiet, InvalidateCall, SkipMark, CheckMark, RecordMark, Send, PlanLock, SkipInvalidate,
     CancelRun, ResetRun, DrainRun, Pass, PassCheck, PassLock, PassSkip, PassLaunch, SendTerminal,
     KeepAliveCheck, Leave, LoopStep, LoopReceive, LoopStop, LoopTimer, LoopSpawn, RunBuild, RunStart
<1>3. ASSUME NEW p \in Workers \cup {Loop}, CollectTask(p)
      PROVE  UNCHANGED <<stage, runErr, annotated, hookFailed, interrupted, rootDone>>
  BY <1>3 DEF CollectTask, Collect
<1>4. ASSUME NEW w \in Workers, WorkerStep(w)
      PROVE  UNCHANGED <<stage, runErr, annotated, hookFailed, interrupted, rootDone>>
  BY <1>4 DEF WorkerStep, BeginRun, Begin, Log, ReturnRun, Return, EndRun, Flush, vars
<1>5. ASSUME NEW s \in Subs, Read(s) \/ Drained(s)
      PROVE  UNCHANGED <<vars, stage, runErr, annotated, hookFailed, interrupted>>
  BY <1>5 DEF Read, Drained
<1>6. UNCHANGED rvars => UNCHANGED <<vars, stage, runErr, annotated, hookFailed, interrupted>>
  BY DEF rvars
<1>7. pc'[Main] \in {"build", "hooks"} => pc[Main] \in {"build", "hooks"}
  <2> USE DEF TypeOK, Goto, Procs
  <2>1. ASSUME NEW p \in Procs, Quiet(p), pc'[Main] # pc[Main] PROVE pc'[Main] # "build" /\ (pc'[Main] = "hooks" => pc[Main] = "build")
    <3>1. CASE p # Main
      BY <2>1, <3>1, QuietFrame
    <3>2. CASE p = Main
      <4>1. Pass(p) \/ RunBuild \/ RunStart
        BY <2>1, <3>2, ProcsAssumption DEF Quiet, StillInv, PlanLock, SkipInvalidate, CancelRun, ResetRun, DrainRun
      <4>2. AfterPass(p) = "wait"
        BY <3>2, ProcsAssumption DEF AfterPass
      <4>3. CASE Pass(p)
        BY <2>1, <3>2, <4>2, <4>3 DEF Pass, PassCheck, PassLock, PassSkip, PassLaunch, VisitedPc
      <4>4. CASE RunBuild \/ RunStart
        BY <3>2, <4>4 DEF RunBuild, RunStart
      <4>5. QED BY <4>1, <4>3, <4>4
    <3>3. QED BY <3>1, <3>2
  <2>2. ASSUME NEW p \in Workers \cup {Loop}, CollectTask(p) PROVE pc'[Main] = pc[Main]
    <3>1. p # Main
      BY ProcsAssumption
    <3>2. QED BY <2>2, <3>1 DEF CollectTask, Collect, Planned
  <2>3. ASSUME NEW w \in Workers, WorkerStep(w) PROVE pc'[Main] = pc[Main]
    BY <2>3, WorkerPublishes, ProcsAssumption
  <2>4. CASE Surroundings
    BY <2>4, ProcsAssumption DEF Surroundings, Environment, CallInvalidate, TimerFires, WatcherExit,
       Interrupt
  <2>5. CASE RunnerStep
    BY <2>5 DEF RunnerStep, ReturnEarly, RunEarlyReturn, TasksExited, RunWait, StopHooks,
       CloseChannels, Exit, vars
  <2>6. UNCHANGED vars => UNCHANGED pc
    BY DEF vars
  <2>7. QED BY <1>1, <1>5, <1>6, <2>1, <2>2, <2>3, <2>4, <2>5, <2>6 DEF RNext
<1>8. UNCHANGED vars => UNCHANGED rootDone
  BY DEF vars
<1>9. QED BY <1>1, <1>2, <1>3, <1>4, <1>5, <1>6, <1>7, <1>8 DEF RNext

LEMMA LastStep ==
  ASSUME NothingRestarts, EndedInv, RunsInv, NoForgottenTask, LastInv, [RNext]_rvars
  PROVE  LastInv'
<1>0. EndedInv'
  BY EndedStep
<1>1. pc[Main] \in {"build", "hooks", "returned"} => UNCHANGED state /\ (Untold => Untold')
  BY NobodyRuns
<1>2. /\ pc'[Main] \in {"build", "hooks"} => pc[Main] \in {"build", "hooks"}
      /\ \/ UNCHANGED <<stage, annotated, hookFailed, interrupted, rootDone>>
         \/ Surroundings
         \/ RunnerStep
  BY EndFrame
<1>3. /\ (stage = "run" <=> pc[Main] # "returned") /\ (stage' = "run" <=> pc'[Main] # "returned")
      /\ stage' # "panicked" /\ stage # "panicked"
  BY <1>0 DEF EndedInv, ClosedInv
<1>4. pc'[Main] \in {"build", "hooks"} => Untold' /\ \A t \in Tasks : state'[t] = "invalid"
  BY <1>1, <1>2 DEF LastInv
<1>5. BlockedInv /\ UNCHANGED state => BlockedInv'
  BY DEF BlockedInv
<1>6. /\ UNCHANGED state => FailedTasks' = FailedTasks
      /\ Written /\ UNCHANGED <<state, annotated, hookFailed>> => Written'
  BY DEF FailedTasks, Written
<1>7. CASE UNCHANGED stage /\ UNCHANGED <<annotated, hookFailed>> /\ (interrupted => interrupted')
           /\ (rootDone' /\ stage \in {"run", "hooks"} => interrupted')
  <2>1. pc'[Main] = "returned" => pc[Main] = "returned"
    BY <1>3, <1>7
  <2>2. stage \in {"close", "closed", "exited"} => pc[Main] = "returned"
    BY <1>3
  <2>3. QED BY <1>1, <1>4, <1>5, <1>6, <1>7, <2>1, <2>2 DEF LastInv
<1>8. CASE Surroundings
  BY <1>7, <1>8 DEF Surroundings, LastInv
<1>9. CASE ReturnEarly
  <2>1. /\ pc[Main] \in {"build", "hooks"} /\ stage' = "close" /\ pc'[Main] = "returned"
        /\ UNCHANGED <<annotated, hookFailed>>
    BY <1>3, <1>9, <1>0 DEF ReturnEarly, RunEarlyReturn, AfterEarlyReturn
  <2>2. stage = "run" /\ annotated = {}
    BY <1>3, <2>1 DEF LastInv
  <2>3. FailedTasks' = {} /\ Untold'
    BY <1>1, <2>1 DEF LastInv, FailedTasks
  <2>4. QED BY <2>1, <2>2, <2>3 DEF LastInv, Written
<1>10. CASE TasksExited
  <2>1. /\ RunWait /\ stage' = "hooks" /\ UNCHANGED <<annotated, hookFailed, interrupted, rootDone, state>>
        /\ pc[Main] = "wait"
    BY <1>10 DEF TasksExited, RunWait
  <2>2. stage = "run"
    BY <1>3, <2>1
  <2>3. interrupted' \/ BlockedInv'
    BY <1>5, <2>1, <2>2, WaitBlocks DEF LastInv
  <2>4. QED BY <1>4, <2>1, <2>2, <2>3 DEF LastInv
<1>11. CASE StopHooks
  <2>1. /\ stage = "hooks" /\ stage' = "close"
        /\ annotated' = FailedTasks \/ (hookFailed' /\ annotated' = {})
        /\ UNCHANGED <<pc, state, interrupted>>
    BY <1>11 DEF StopHooks, vars
  <2>2. Written'
    BY <1>6, <2>1 DEF Written
  <2>3. QED BY <1>1, <1>3, <1>4, <1>5, <2>1, <2>2 DEF LastInv
<1>12. CASE CloseChannels \/ Exit
  <2>1. /\ stage \in {"close", "closed"} /\ stage' \in {"closed", "exited"}
        /\ UNCHANGED <<pc, state, annotated, hookFailed, interrupted>>
    BY <1>12 DEF CloseChannels, Exit, vars
  <2>2. QED BY <1>1, <1>3, <1>4, <1>5, <1>6, <2>1 DEF LastInv
<1>13. CASE UNCHANGED <<stage, annotated, hookFailed, interrupted, rootDone>>
  BY <1>7, <1>13 DEF LastInv
<1>14. QED BY <1>2, <1>8, <1>9, <1>10, <1>11, <1>12, <1>13 DEF RunnerStep

-----------------------------------------------------------------------------
(* The console and the annotation *)

AgreeInv ==
  /\ EndedInv
  /\ ContextInv /\ RunsInv /\ NoForgottenTask
  /\ AnnouncedInv /\ ReportInv /\ ToldInv
  /\ LastInv

LEMMA InitAgree == NothingRestarts /\ RInit => AgreeInv
<1> SUFFICES ASSUME NothingRestarts, RInit PROVE AgreeInv
  OBVIOUS
<1>1. EndedInv
  BY InitEnded
<1>2. ContextInv /\ RunsInv /\ NoForgottenTask
  BY InitRuns, InitForgetsNone DEF RInit, ForgetsNone
<1>3. /\ \A p \in Procs : out[p] = Nothing
      /\ \A w \in Workers : pc[w] = "idle"
      /\ toInvalidate = {} /\ annotated = {} /\ ~ hookFailed /\ stage = "run" /\ ~ rootDone /\ pc[Main] = "build"
      /\ \A t \in Tasks : state[t] = "invalid"
      /\ \A s \in Subs : ch[s] = <<>> /\ \A t \in Tasks : view[s][t] = "none"
  BY ProcsAssumption DEF RInit, Init, Procs
<1>4. AnnouncedInv /\ ReportInv
  BY <1>3 DEF AnnouncedInv, ReportInv, Procs
<1>5. ASSUME NEW s \in Subs, NEW t \in Tasks PROVE Told(s, t)
  <2>1. Len(ch[s]) = 0
    BY <1>3
  <2>2. ~ WillShow(s, t)
    BY <1>3, <2>1 DEF WillShow
  <2>3. QED BY <1>3, <2>2 DEF Told
<1>6. LastInv
  BY <1>3 DEF LastInv, Untold
<1>7. QED BY <1>1, <1>2, <1>4, <1>5, <1>6 DEF AgreeInv, ToldInv

LEMMA AgreeStep == NothingRestarts /\ AgreeInv /\ [RNext]_rvars => AgreeInv'
<1> SUFFICES ASSUME NothingRestarts, AgreeInv, [RNext]_rvars PROVE AgreeInv'
  OBVIOUS
<1>1. OneRunInv
  BY DEF AgreeInv, EndedInv, BusInv, RTypeInv
<1>2. ContextInv' /\ RunsInv' /\ NoForgottenTask'
  BY <1>1, RunsHold DEF AgreeInv
<1>3. QED BY <1>2, EndedStep, AnnouncedStep, ReportStep, ToldStep, LastStep DEF AgreeInv

\* When the program ends, the annotation lists no task but those that the console shows as
\* failed.  Of those, unless an onStop hook fails, it lacks only tasks that have been reset
\* and not started again, after an interrupt or below another failure (reporter.Finish,
\* Executor.Run, runner.Run).
THEOREM ConsoleAndAnnotationAgree == ASSUME NothingRestarts PROVE RSpec => []EndsAgree
<1>1. AgreeInv => EndsAgree
  <2> SUFFICES ASSUME AgreeInv, stage = "exited", NEW s \in Subs \ Quitters
               PROVE  /\ annotated \subseteq Shown(s)
                      /\ hookFailed \/ \A t \in Shown(s) \ annotated :
                           /\ state[t] = "invalid"
                           /\ interrupted \/ Dependencies[t] \cap annotated # {}
    BY DEF EndsAgree
  <2>1. /\ \A w \in Workers : pc[w] = "idle"
        /\ ch[s] = <<>> /\ pc[Main] = "returned"
    BY DEF AgreeInv, EndedInv, ClosedInv, StillInv, Exited
  <2>2. toInvalidate = {}
    BY <2>1 DEF AgreeInv, AnnouncedInv, PlanPcs
  <2>3. annotated = FailedTasks \/ (hookFailed /\ annotated = {})
    BY DEF AgreeInv, LastInv, Written
  <2>4. ASSUME NEW t \in Tasks PROVE WillShow(s, t) <=> view[s][t] = "failed"
    <3>1. Len(ch[s]) = 0
      BY <2>1
    <3>2. QED BY <3>1 DEF WillShow
  <2>5. ASSUME NEW t \in Tasks
        PROVE  /\ state[t] = "error" => WillShow(s, t)
               /\ WillShow(s, t) => state[t] \in {"error", "invalid"}
    <3>1. Told(s, t)
      BY DEF AgreeInv, ToldInv
    <3>2. QED BY <2>1, <2>2, <3>1 DEF Told, Reporting, Starting, Taken
  <2>6. annotated \subseteq Shown(s)
    BY <2>3, <2>4, <2>5 DEF FailedTasks, Shown
  <2>7. ASSUME ~ hookFailed, NEW t \in Shown(s) \ annotated
        PROVE  state[t] = "invalid" /\ (interrupted \/ Dependencies[t] \cap annotated # {})
    <3>1. t \in Tasks /\ view[s][t] = "failed" /\ state[t] = "invalid"
      BY <2>7, <2>3, <2>4, <2>5 DEF FailedTasks, Shown
    <3>2. interrupted \/ BlockedInv
      BY <2>1, <3>1 DEF AgreeInv, LastInv, Untold
    <3>3. \A d \in Dependencies[t] : d \in Tasks
      BY <3>1 DEF Dependencies
    <3>4. QED BY <2>3, <2>7, <3>1, <3>2, <3>3 DEF BlockedInv, FailedTasks
  <2>8. QED BY <2>6, <2>7
<1>2. QED BY InitAgree, AgreeStep, <1>1, PTL DEF RSpec

-----------------------------------------------------------------------------
(* The exit status *)

\* Executor.Run returns no error exactly when every task is done and no onStop hook has
\* failed, or none was to be run.
TellsOutcome ==
  \/ \A t \in Tasks : state[t] = "invalid"
  \/ runErr = "nil" <=> ~ hookFailed /\ \A t \in Tasks : state[t] = "done"

\* When nobody interrupts, this is the exit status of the program, and is so from
\* wg.Wait on.
StatusIsOutcome == stage = "exited" /\ ~ interrupted => TellsOutcome

StatusInv ==
  stage \in {"hooks", "close", "closed", "exited"} /\ ~ interrupted => TellsOutcome

OutcomeKnown == QuietInv /\ (rootDone \/ OutcomeInv)

LEMMA OutcomeHolds ==
  ASSUME OneShot, OneRunInv, OutcomeKnown, [RNext]_rvars
  PROVE  OutcomeKnown'
<1>1. CASE [Next]_vars
  BY <1>1, QuietStep, OutcomeStep DEF OutcomeKnown, OneRunInv
<1>2. CASE RootCancelled
  <2>1. QuietInv'
    BY <1>2 DEF RootCancelled, OutcomeKnown, QuietInv
  <2>2. OutcomeInv => OutcomeInv'
    BY <1>2, OutcomeFrame DEF RootCancelled
  <2>3. QED BY <1>2, <2>1, <2>2 DEF RootCancelled, OutcomeKnown
<1>3. QED BY <1>1, <1>2, ExecutorStep DEF OneRunInv, TypeInv

\* wg.Wait returns an error when a task has failed, and nothing stays undone otherwise.
LEMMA WaitKnows ==
  ASSUME NothingRestarts, AgreeInv, OutcomeKnown, RunWait
  PROVE  rootDone \/ (~ failed <=> \A t \in Tasks : state[t] = "done")
<1> SUFFICES ASSUME ~ rootDone PROVE ~ failed <=> \A t \in Tasks : state[t] = "done"
  OBVIOUS
<1>1. OutcomeInv /\ BlockedInv /\ Exited
  BY WaitBlocks DEF AgreeInv, OutcomeKnown, RunWait
<1>2. \A t \in Tasks : state[t] \in {"invalid", "error", "done"}
  <2>1. TypeOK
    BY DEF AgreeInv, EndedInv, BusInv, RTypeInv, OneRunInv, TypeInv
  <2>2. QED BY <1>1, <2>1 DEF TypeOK, States, OutcomeInv, Exited, ActivePcs
<1>3. failed <=> \E t \in Tasks : state[t] = "error"
  BY <1>1 DEF OutcomeInv, Failing, Exited
<1>4. ASSUME NEW t \in Tasks, state[t] = "invalid" PROVE \E d \in Tasks : state[d] = "error"
  BY <1>1, <1>4 DEF BlockedInv, Dependencies
<1>5. QED BY <1>2, <1>3, <1>4

LEMMA StatusStep ==
  ASSUME OneShot, NothingRestarts, AgreeInv, OutcomeKnown, StatusInv, [RNext]_rvars
  PROVE  StatusInv'
<1>1. EndedInv /\ LastInv /\ RunsInv
  BY DEF AgreeInv
<1>2. pc[Main] \in {"build", "hooks", "returned"} => UNCHANGED state
  BY <1>1, NobodyRuns
<1>3. stage = "run" <=> pc[Main] # "returned"
  BY <1>1 DEF EndedInv, ClosedInv
<1>4. ASSUME stage \notin {"run", "panicked"} \/ stage' \in {"run", "panicked"},
             runErr' = runErr, hookFailed' = hookFailed, ~ interrupted' => ~ interrupted
      PROVE  StatusInv'
  <2>1. stage \notin {"run", "panicked"} => UNCHANGED state /\ stage \in {"hooks", "close", "closed", "exited"}
    BY <1>1, <1>2, <1>3 DEF EndedInv, BusInv, RTypeInv, EndTypeOK
  <2>2. QED BY <1>4, <2>1 DEF StatusInv, TellsOutcome
<1>5. CASE UNCHANGED <<stage, runErr, annotated, hookFailed, interrupted, rootDone>>
  BY <1>4, <1>5
<1>6. CASE Surroundings
  BY <1>4, <1>6 DEF Surroundings, endVars
<1>7. CASE ReturnEarly
  <2>1. pc[Main] \in {"build", "hooks"}
    BY <1>7 DEF ReturnEarly, RunEarlyReturn
  <2>2. \A t \in Tasks : state'[t] = "invalid"
    BY <1>1, <1>2, <2>1 DEF LastInv
  <2>3. QED BY <2>2 DEF StatusInv, TellsOutcome
<1>8. CASE TasksExited
  <2>1. /\ RunWait /\ UNCHANGED <<state, interrupted>>
        /\ runErr' = IF failed THEN "error" ELSE "nil"
    BY <1>8 DEF TasksExited, RunWait
  <2>2. stage = "run"
    BY <1>3, <2>1 DEF RunWait
  <2>3. rootDone => interrupted
    BY <1>1, <2>2 DEF LastInv
  <2>4. ~ hookFailed'
    BY <1>1, <1>8, <2>2 DEF TasksExited, LastInv
  <2>5. QED BY <2>1, <2>3, <2>4, WaitKnows DEF StatusInv, TellsOutcome
<1>9. CASE StopHooks \/ Exit
  <2>1. CASE runErr' = runErr /\ hookFailed' = hookFailed
    BY <1>4, <1>9, <2>1 DEF StopHooks, Exit
  <2>2. CASE runErr' = "error" /\ hookFailed' = TRUE
    BY <2>2 DEF StatusInv, TellsOutcome
  <2>3. QED BY <1>9, <2>1, <2>2 DEF StopHooks, Exit
<1>10. CASE CloseChannels
  <2>1. runErr' = runErr
    BY <1>10 DEF CloseChannels, OneShot
  <2>2. QED BY <1>4, <1>10, <2>1 DEF CloseChannels
<1>11. QED BY <1>1, <1>5, <1>6, <1>7, <1>8, <1>9, <1>10, EndFrame DEF RunnerStep

\* When nobody interrupts, the program succeeds exactly when every task is done and no
\* onStop hook has failed, unless none was to be run, and a failure that the annotation
\* lists is not one that the exit status hides, when no call marks a task and no task is
\* KeepAlive: a mark lets a run end after it was cancelled, whose error is dropped
\* (runner.Run, Executor.Run, runPass).
THEOREM StatusTellsTheOutcome ==
  ASSUME OneShot, NothingRestarts
  PROVE  RSpec => [](StatusIsOutcome /\ FailureIsReported)
<1> DEFINE Inv == AgreeInv /\ OutcomeKnown /\ StatusInv
<1>1. RInit => Inv
  <2> SUFFICES ASSUME RInit PROVE Inv
    OBVIOUS
  <2>1. OutcomeKnown
    BY InitQuiet DEF RInit, OutcomeKnown
  <2>2. StatusInv
    BY DEF RInit, StatusInv
  <2>3. QED BY <2>1, <2>2, InitAgree
<1>2. Inv /\ [RNext]_rvars => Inv'
  <2> SUFFICES ASSUME Inv, [RNext]_rvars PROVE Inv'
    OBVIOUS
  <2>1. OneRunInv
    BY DEF AgreeInv, EndedInv, BusInv, RTypeInv
  <2>2. AgreeInv' /\ OutcomeKnown' /\ StatusInv'
    BY <2>1, AgreeStep, OutcomeHolds, StatusStep
  <2>3. QED BY <2>2
<1>3. Inv => StatusIsOutcome /\ FailureIsReported
  <2> SUFFICES ASSUME Inv PROVE StatusIsOutcome /\ FailureIsReported
    OBVIOUS
  <2>1. StatusIsOutcome
    BY DEF StatusInv, StatusIsOutcome
  <2>2. stage = "exited" => annotated \subseteq {t \in Tasks : state[t] = "error"}
    BY DEF AgreeInv, LastInv, Written, FailedTasks
  <2>3. QED BY <2>1, <2>2 DEF StatusIsOutcome, TellsOutcome, FailureIsReported
<1>4. QED BY <1>1, <1>2, <1>3, PTL DEF RSpec
=============================================================================
