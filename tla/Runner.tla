------------------------------- MODULE Runner -------------------------------
(***************************************************************************)
(* The end of runner.Run: one errgroup with Executor.Run and the           *)
(* subscriptions, and the bus of events between them (runner.go:252,       *)
(* executor.go:146, clireporter, buildkitereporter, tui).  The executor is *)
(* the one of Executor; here its goroutines also publish, and a goroutine  *)
(* takes no other step before every subscriber's channel has its event.    *)
(***************************************************************************)
EXTENDS Executor, Sequences

CONSTANTS
  Subscribers,  \* how many subscriptions there are
  Quitters,     \* those that may return while events still come (the tui)
  Reporter,     \* the buildkite reporter, which has an onStop hook
  Capacity,     \* of a subscriber's channel, 1024 in the code (a bound)
  MaxLogs,      \* lines that one run of a task logs (a bound)
  Nothing

Subs == 1..Subscribers

Outcomes == {"completed", "failed", "stopped"}
Kinds == {"started", "log", "invalidated"} \cup Outcomes
Events == [kind : Kinds, task : Tasks]

ASSUME RunnerAssumption ==
  /\ Subscribers \in Nat \ {0}
  /\ Quitters \subseteq Subs
  /\ Reporter \in Subs
  /\ Capacity \in Nat \ {0}
  /\ MaxLogs \in Nat
  /\ Nothing \notin [event : Events, to : Subs]

VARIABLES
  out,        \* the event a goroutine is publishing, and the channel it is at
  ch,         \* the channels of eventsChs
  logs,       \* lines the run of a worker has logged
  reading,    \* the subscriptions that have not returned
  stage,      \* of Executor.Run after its tasks, and of the program
  runErr,     \* what Executor.Run returns
  annotated,  \* the failed tasks of the annotation, none if there is no annotation
  hookFailed, \* an onStop hook returned an error
  \* history
  view,       \* the last event on a task that a subscription handled
  begun,      \* the tasks of which it has seen a run begin and not end
  interrupted \* the context was cancelled before Executor.Run returned

shown == <<view, begun>>
busVars == <<out, ch, reading, shown>>
endVars == <<stage, runErr, annotated, hookFailed>>
rvars == <<vars, busVars, endVars, logs, interrupted>>

RTypeOK ==
  /\ TypeOK
  /\ out \in [Procs -> [event : Events, to : Subs] \cup {Nothing}]
  /\ ch \in [Subs -> Seq(Events)] /\ \A s \in Subs : Len(ch[s]) <= Capacity
  /\ logs \in [Workers -> 0..MaxLogs]
  /\ reading \subseteq Subs
  /\ stage \in {"run", "hooks", "close", "closed", "exited", "panicked"}
  /\ runErr \in {"nil", "undefined", "error"}
  /\ annotated \subseteq Tasks
  /\ hookFailed \in BOOLEAN
  /\ view \in [Subs -> [Tasks -> Kinds \cup {"none"}]]
  /\ begun \in [Subs -> SUBSET Tasks]
  /\ interrupted \in BOOLEAN

RInit ==
  /\ Init
  /\ out = [p \in Procs |-> Nothing]
  /\ ch = [s \in Subs |-> <<>>]
  /\ logs = [w \in Workers |-> 0]
  /\ reading = Subs
  /\ stage = "run"
  /\ runErr = "nil"
  /\ annotated = {}
  /\ hookFailed = FALSE
  /\ view = [s \in Subs |-> [t \in Tasks |-> "none"]]
  /\ begun = [s \in Subs |-> {}]
  /\ interrupted = FALSE

Alive == stage \notin {"exited", "panicked"}

-----------------------------------------------------------------------------
(* publishEvent: to one channel after the other *)

Ready(p) == Alive /\ out[p] = Nothing

Publish(p, k, t) ==
  /\ out' = [out EXCEPT ![p] = [event |-> [kind |-> k, task |-> t], to |-> 1]]
  /\ UNCHANGED <<ch, reading, shown>>

Room_Unbounded(s) == TRUE
Room(s) == Len(ch[s]) < Capacity

\* ch <- event: waits while the channel is full, and panics once it is closed.
Deliver(p) ==
  /\ Alive
  /\ out[p] # Nothing
  /\ LET s == out[p].to IN
     IF stage = "closed"
     THEN stage' = "panicked" /\ UNCHANGED <<out, ch>>
     ELSE /\ Room(s)
          /\ ch' = [ch EXCEPT ![s] = Append(@, out[p].event)]
          /\ out' = [out EXCEPT ![p] = IF s = Subscribers THEN Nothing
                                       ELSE [@ EXCEPT !.to = s + 1]]
          /\ UNCHANGED stage
  /\ UNCHANGED <<vars, logs, reading, shown, runErr, annotated, hookFailed, interrupted>>

-----------------------------------------------------------------------------
(* The executor, with what it publishes *)

\* The event of the worker that leaves pc l, if any.
Outcome_NoCompletion(l) == IF l = "completed" THEN "log" ELSE l
Outcome_StopOnFailure(l) == IF l = "failed" THEN "stopped" ELSE l
Outcome(l) == l

BeginRun(w) ==
  /\ Ready(w)
  /\ Begin(w)
  /\ Publish(w, "started", job[w])
  /\ logs' = [logs EXCEPT ![w] = 0]
  /\ UNCHANGED <<endVars, interrupted>>

\* The task's logger is an eventLogger: a line is an event.
Log(w) ==
  /\ Ready(w)
  /\ pc[w] = "running"
  /\ logs[w] < MaxLogs
  /\ logs' = [logs EXCEPT ![w] = @ + 1]
  /\ Publish(w, "log", job[w])
  /\ UNCHANGED <<vars, endVars, interrupted>>

ReturnRun(w) ==
  Ready(w) /\ Return(w) /\ UNCHANGED <<busVars, endVars, logs, interrupted>>

EndRun(w) ==
  /\ Ready(w)
  /\ Flush(w)
  /\ Publish(w, Outcome(pc[w]), job[w])
  /\ UNCHANGED <<endVars, logs, interrupted>>

\* The plan publishes as it collects, with Executor.mu held.
CollectTask(p) ==
  /\ Ready(p)
  /\ Collect(p)
  /\ \A t \in todo[p] \ todo'[p] :
       IF Collectable(t) THEN Publish(p, "invalidated", t) ELSE UNCHANGED busVars
  /\ UNCHANGED <<endVars, logs, interrupted>>

Quiet(p) ==
  /\ Ready(p)
  /\ \/ p \in Workers \cup Callers \cup Handlers /\ InvalidateCall(p)
     \/ /\ p \in Workers \cup {Loop}
        /\ PlanLock(p) \/ SkipInvalidate(p) \/ CancelRun(p) \/ ResetRun(p) \/ DrainRun(p)
     \/ p \in Workers \cup Passers \cup {Main} /\ Pass(p)
     \/ p \in Workers /\ (SendTerminal(p) \/ KeepAliveCheck(p) \/ Leave(p))
     \/ p = Loop /\ LoopStep
     \/ p = Main /\ (RunBuild \/ RunStart)
  /\ UNCHANGED <<busVars, endVars, logs, interrupted>>

Surroundings ==
  /\ Alive
  /\ Environment
  /\ interrupted' = (interrupted \/ (rootDone' /\ stage \notin {"close", "closed"}))
  /\ UNCHANGED <<busVars, endVars, logs>>

-----------------------------------------------------------------------------
(* The end of Executor.Run *)

AfterEarlyReturn_NoDefer == "run"
AfterEarlyReturn == "close"

\* No onStop hook runs then, but the channels are closed.
ReturnEarly ==
  /\ Alive
  /\ RunEarlyReturn
  /\ stage' = AfterEarlyReturn
  /\ runErr' \in IF pc[Main] = "build" THEN {"undefined", "nil"} ELSE {"error"}
  /\ UNCHANGED <<annotated, hookFailed, busVars, logs, interrupted>>

TasksExited ==
  /\ Alive
  /\ RunWait
  /\ stage' = "hooks"
  /\ runErr' = IF failed THEN "error" ELSE "nil"
  /\ UNCHANGED <<annotated, hookFailed, busVars, logs, interrupted>>

FailedTasks == {t \in Tasks : state[t] = "error"}

\* Every onStop hook is called, and the errors of those that fail are Run's as
\* well; when reporter.Finish is one of them there may be no annotation.
StopHooks ==
  /\ stage = "hooks"
  /\ \/ annotated' = FailedTasks /\ UNCHANGED <<runErr, hookFailed>>
     \/ /\ "stop" \in Faults
        /\ annotated' \in {FailedTasks, {}}
        /\ runErr' = "error"
        /\ hookFailed' = TRUE
  /\ stage' = "close"
  /\ UNCHANGED <<vars, busVars, logs, interrupted>>

\* The deferred close of every channel; a task's failure in watch mode is not
\* an error of the errgroup, and an error cancels the errgroup's context.
CloseChannels ==
  /\ stage = "close"
  /\ stage' = "closed"
  /\ runErr' = IF WatchMode /\ runErr = "error" THEN "nil" ELSE runErr
  /\ rootDone' = (rootDone \/ runErr' # "nil")
  /\ UNCHANGED <<taskVars, planVars, loopVars, watcher, failed, calls, locals, pc,
                 busVars, annotated, hookFailed, logs, interrupted>>

-----------------------------------------------------------------------------
(* The subscriptions, and the errgroup that waits for them *)

\* The next event is handled, unless the subscription returns instead.
Read(s) ==
  /\ Alive
  /\ s \in reading
  /\ ch[s] # <<>>
  /\ ch' = [ch EXCEPT ![s] = Tail(@)]
  /\ reading' \in {reading, reading \ ({s} \cap Quitters)}
  /\ IF s \in reading'
     THEN LET e == Head(ch[s]) IN
          /\ view' = [view EXCEPT ![s][e.task] = e.kind]
          /\ begun' = [begun EXCEPT ![s] = CASE e.kind = "started" -> @ \cup {e.task}
                                            [] e.kind \in Outcomes -> @ \ {e.task}
                                            [] OTHER -> @]
     ELSE UNCHANGED shown
  /\ UNCHANGED <<vars, out, endVars, logs, interrupted>>

Closed_Undrained(s) == stage = "closed"
Closed(s) == stage = "closed" /\ ch[s] = <<>>

\* The range over a channel that is closed and empty.
Drained(s) ==
  /\ Alive
  /\ s \in reading
  /\ Closed(s)
  /\ reading' = reading \ {s}
  /\ UNCHANGED <<vars, out, ch, shown, endVars, logs, interrupted>>

\* g.Wait() returns, and the program ends, with an error or without.
Exit ==
  /\ stage = "closed"
  /\ reading = {}
  /\ stage' = "exited"
  /\ UNCHANGED <<vars, busVars, runErr, annotated, hookFailed, logs, interrupted>>

WorkerStep(w) == BeginRun(w) \/ Log(w) \/ ReturnRun(w) \/ EndRun(w)

RunnerStep == ReturnEarly \/ TasksExited \/ StopHooks \/ CloseChannels \/ Exit

RNext ==
  \/ \E p \in Procs : Deliver(p) \/ Quiet(p)
  \/ \E p \in Workers \cup {Loop} : CollectTask(p)
  \/ \E w \in Workers : WorkerStep(w)
  \/ Surroundings
  \/ RunnerStep
  \/ \E s \in Subs : Read(s) \/ Drained(s)

RSpec == RInit /\ [][RNext]_rvars

\* Goroutines are scheduled, subscriptions read on, and task functions return.
RFairness ==
  /\ \A p \in Procs : WF_rvars(Deliver(p) \/ Quiet(p) \/ CollectTask(p))
  /\ \A w \in Workers : WF_rvars(BeginRun(w) \/ EndRun(w)) /\ WF_rvars(ReturnRun(w))
  /\ \A s \in Subs : WF_rvars(Read(s) \/ Drained(s))
  /\ WF_rvars(TasksExited \/ StopHooks \/ CloseChannels \/ Exit)
  /\ WF_rvars(Alive /\ TimerFires /\ UNCHANGED <<busVars, endVars, logs, interrupted>>)
  /\ WF_rvars(Alive /\ rootDone /\ WatcherExit /\ UNCHANGED <<busVars, endVars, logs, interrupted>>)

RFairSpec == RSpec /\ RFairness

-----------------------------------------------------------------------------
\* A subscription sees the runs of a task one after the other: it has the end
\* of a run before the next one begins, and every line in between, although
\* the two are different goroutines (executor.go:652-683: the event is
\* published before terminalCh lets a plan restart the task).
RunsAreBracketed ==
  \A s \in reading :
    ch[s] # <<>> =>
      LET e == Head(ch[s]) IN
      /\ e.kind = "started" => e.task \notin begun[s]
      /\ e.kind \in Outcomes \cup {"log"} => e.task \in begun[s]

\* Outside watch mode the program ends when a subscription that reads on has
\* handled all that was published, up to the end of every run it saw begin
\* (runner.go:280).
EverythingIsHandled ==
  stage = "exited" /\ ~ WatchMode =>
    /\ \A p \in Procs : out[p] = Nothing
    /\ \A s \in Subs \ Quitters : ch[s] = <<>> /\ begun[s] = {}

Shown(s) == {t \in Tasks : view[s][t] = "failed"}

\* There, the annotation lists no task but those that the console shows as
\* failed.  Of those, unless a hook fails, it lacks only tasks that a plan has
\* reset and no pass has started again: after an interrupt, or because a dependency
\* has failed in turn and is listed (buildkitereporter.go:169, executor.go:205, 622).
EndsAgree ==
  stage = "exited" /\ ~ WatchMode =>
    \A s \in Subs \ Quitters :
      /\ annotated \subseteq Shown(s)
      /\ hookFailed \/ \A t \in Shown(s) \ annotated :
           /\ state[t] = "invalid"
           /\ interrupted \/ Dependencies[t] \cap annotated # {}

\* Nobody publishes on a channel that Run has closed, which would panic: there,
\* when no task is KeepAlive and no key restarts one, wg.Wait() has waited for
\* all who publish (executor.go:154, 233; in watch mode, see Promise_close.cfg).
NoSendOnClosed == stage # "panicked"

\* There, subscriptions that read on, however slowly, let the program end.
RunnerEnds == WatchMode \/ <>(stage = "exited")

-----------------------------------------------------------------------------
(* What the comments of the code promise *)

\* runner.go:270: an error is propagated when "the underlying task failed AND
\* we're not in watch mode", which makes the exit status one of failure.
FailureIsReported ==
  stage = "exited" /\ ~ interrupted /\ ~ WatchMode /\ annotated # {} => runErr # "nil"

\* buildkitereporter.go:28: the annotation has the last lines of a failed task:
\* Finish does not write it with lines still to be read.
AnnotationHasItsLines ==
  [][stage = "hooks" /\ stage' = "close" =>
       \A i \in DOMAIN ch[Reporter] :
         LET e == ch[Reporter][i] IN ~ (e.kind = "log" /\ e.task \in FailedTasks)]_rvars
=============================================================================
