------------------------------- MODULE Watch -------------------------------
(***************************************************************************)
(* From an edit to the run that takes it in: runWatch of the executor over *)
(* a Watcher, IsTaskSource, the buildBinder that WrapWithGoBuild puts into *)
(* ShouldInvalidate (watch.go, builder.go:158), and of the executor what   *)
(* an edit meets there: the mark, the plan that cancels and resets a task  *)
(* and waits for its run with Executor.mu held, and the worker, which      *)
(* writes the state without that lock (executor.go:652).  When plans and   *)
(* passes come, and what else they look at, is Executor's.                 *)
(***************************************************************************)
EXTENDS Watcher

CONSTANTS
  Tasks,
  Sources,      \* [Tasks -> SUBSET Files], what the globs of Sources match
  Ignored,      \* [Tasks -> SUBSET Files], what those of Ignore match
  Refused,      \* <<task, file>>: what the task's own ShouldInvalidate refuses
  GoTasks,      \* tasks that WrapWithGoBuild made
  GoFiles,      \* files with the suffix .go
  Own,          \* [GoTasks -> SUBSET GoFiles], the files of the task's package
  Imported,     \* [GoTasks -> SUBSET GoFiles], those of the packages it can import
  NewImports,   \* it imports them only after an edit of its own package
  Located,      \* go files that have their package's import path in their own
  LastListed,   \* files of the package that go list prints last
  Unknown

ASSUME WatchAssumption ==
  /\ Sources \in [Tasks -> SUBSET Files]
  /\ Ignored \in [Tasks -> SUBSET Files]
  /\ Refused \subseteq Tasks \X Files
  /\ GoTasks \subseteq Tasks
  /\ GoFiles \subseteq Files
  /\ Own \in [GoTasks -> SUBSET GoFiles]
  /\ Imported \in [GoTasks -> SUBSET GoFiles]
  /\ NewImports \in BOOLEAN
  /\ Located \subseteq GoFiles
  /\ LastListed \subseteq GoFiles

VARIABLES
  tasks,        \* Executor.tasks is set
  calls,        \* goroutines `go e.Invalidate(task, FileChange{...})`
  state,        \* taskExecution.state
  pending,      \* tasks with a pending invalidation
  worker,       \* where the goroutine of a task's run is
  cancelled,    \* tasks whose worker has a cancelled context
  terminalCh,   \* tasks whose terminalCh holds its one element
  toInvalidate, \* the tasks that the plan has still to invalidate,
  draining,     \* ... and the one whose terminalCh it waits for
  imported,     \* the imported files of a go task, as its sources are now
  deps,         \* buildBinder.pkgDependencies, as their files
  \* history
  stale,        \* <<task, file>>: edited since the last run of the task began
  blind,        \* of these, the ones edited before the tool watched
  overtaken     \* tasks whose reset a late write of the old run has undone

callVars == <<tasks, calls>>
stateVars == <<state, pending>>
workerVars == <<worker, cancelled, terminalCh>>
planVars == <<toInvalidate, draining>>
taskVars == <<callVars, stateVars, workerVars, planVars>>
goVars == <<imported, deps>>
history == <<stale, blind, overtaken>>
vars == <<watcherVars, taskVars, goVars, history>>

TypeOK ==
  /\ WTypeOK
  /\ tasks \in BOOLEAN
  /\ calls \subseteq Tasks \X Files
  /\ state \in [Tasks -> {"invalid", "running", "error", "done", "canceled"}]
  /\ pending \subseteq Tasks
  /\ worker \in [Tasks -> {"none", "launched", "building", "running",
                            "stopped", "failed", "completed", "flushed"}]
  /\ cancelled \subseteq Tasks
  /\ terminalCh \subseteq Tasks
  /\ toInvalidate \subseteq Tasks
  /\ draining \subseteq Tasks
  /\ imported \in [GoTasks -> SUBSET GoFiles]
  /\ deps \in [GoTasks -> (SUBSET GoFiles) \cup {Unknown}]
  /\ stale \subseteq Tasks \X Files
  /\ blind \subseteq stale
  /\ overtaken \subseteq Tasks

Init ==
  /\ WInit
  /\ tasks = FALSE
  /\ calls = {}
  /\ state = [t \in Tasks |-> "invalid"]
  /\ pending = {}
  /\ worker = [t \in Tasks |-> "none"]
  /\ cancelled = {}
  /\ terminalCh = {}
  /\ toInvalidate = {}
  /\ draining = {}
  /\ imported = [t \in GoTasks |-> IF NewImports THEN {} ELSE Imported[t]]
  /\ deps = [t \in GoTasks |-> Unknown]
  /\ stale = {}
  /\ blind = {}
  /\ overtaken = {}

-----------------------------------------------------------------------------
(* The user *)

Edit(f) ==
  /\ dirty' = IF tool = "watching" THEN dirty \cup {f} ELSE dirty
  /\ stale' = stale \cup (Tasks \X {f})
  /\ blind' = IF tool = "starting" THEN blind \cup (Tasks \X {f})
              ELSE blind \ (Tasks \X {f})
  /\ \E S \in SUBSET {t \in GoTasks : f \in Own[t]} :
       imported' = [t \in GoTasks |-> IF t \in S THEN Imported[t] ELSE imported[t]]
  /\ UNCHANGED <<tool, pipe, readable, chVars, groupVars, rootDone, run, taskVars, deps,
                 overtaken>>

-----------------------------------------------------------------------------
(* runWatch: the goroutine that ranges over the events *)

IsTaskSource(t, f) == f \in Sources[t] \ Ignored[t]

\* Nothing is matched while e.tasks is nil.
Dispatch ==
  /\ eventsCh # <<>>
  /\ eventsCh' = Tail(eventsCh)
  /\ calls' = calls \cup ({t \in Tasks : tasks /\ IsTaskSource(t, Head(eventsCh))}
                           \X {Head(eventsCh)})
  /\ UNCHANGED <<toolVars, pipe, readable, rest, closed, groupVars, rootDone, run,
                 tasks, stateVars, workerVars, planVars, goVars, history>>

\* buildBinder.shouldInvalidate
Accepts_OwnOnly(t, f) == f \in Own[t] \cup {u \in Files : u \notin GoFiles}
Accepts(t, f) ==
  \/ deps[t] = Unknown
  \/ f \notin GoFiles
  \/ f \in (Own[t] \cup deps[t]) \cap Located

ShouldInvalidate(t, f) ==
  /\ <<t, f>> \notin Refused
  /\ t \in GoTasks => Accepts(t, f)

Markable_Ended(t) == state[t] \in {"done", "error"}
Markable(t) == state[t] # "invalid"

\* The goroutine of one call: the mark that Executor takes in several steps.
Invalidate(t, f) ==
  /\ <<t, f>> \in calls
  /\ calls' = calls \ {<<t, f>>}
  /\ pending' = IF Markable(t) /\ ShouldInvalidate(t, f)
                THEN pending \cup {t} ELSE pending
  /\ UNCHANGED <<watcherVars, tasks, state, workerVars, planVars, goVars, history>>

-----------------------------------------------------------------------------
(* evaluateInvalidationPlan, of the loop or of a worker *)

\* Executor.mu is held by a plan; the one of a pass is its one step, Launch.
Planning == toInvalidate \cup draining # {}

\* The plan locks Executor.mu and collects the tasks that are marked and not
\* invalid, one by one: it may leave out those that become so meanwhile.
Collect ==
  /\ ~ Planning
  /\ \E S \in (SUBSET {t \in pending : state[t] # "invalid"}) \ {{}} : toInvalidate' = S
  /\ UNCHANGED <<watcherVars, callVars, stateVars, workerVars, draining, goVars, history>>

\* The plan is at the next of the tasks it has collected.
AtTask(t) == draining = {} /\ t \in toInvalidate

SkipInvalidate(t) ==
  /\ AtTask(t)
  /\ state[t] \in {"invalid", "canceled"}
  /\ toInvalidate' = toInvalidate \ {t}
  /\ UNCHANGED <<watcherVars, callVars, stateVars, workerVars, draining, goVars, history>>

\* Cancel, reset, and a new context, which a worker that is only launched gets.
ResetRun(t) ==
  /\ AtTask(t)
  /\ state[t] \notin {"invalid", "canceled"}
  /\ state' = [state EXCEPT ![t] = "invalid"]
  /\ cancelled' = IF worker[t] \in {"none", "launched"} THEN cancelled \ {t}
                  ELSE cancelled \cup {t}
  /\ toInvalidate' = toInvalidate \ {t}
  /\ draining' = {t}
  /\ UNCHANGED <<watcherVars, callVars, pending, worker, terminalCh, goVars, history>>

\* <-e.terminalCh, then a new channel and no pending invalidations.
DrainRun(t) ==
  /\ t \in draining
  /\ t \in terminalCh
  /\ draining' = {}
  /\ terminalCh' = terminalCh \ {t}
  /\ pending' = pending \ {t}
  /\ UNCHANGED <<watcherVars, callVars, state, worker, cancelled, toInvalidate,
                 goVars, history>>

-----------------------------------------------------------------------------
(* A pass, the goroutine it starts, and what WrapWithGoBuild adds to a run *)

\* Executor.Run sets Executor.tasks.
RunBuild ==
  /\ ~ tasks
  /\ tasks' = TRUE
  /\ UNCHANGED <<watcherVars, calls, stateVars, workerVars, planVars, goVars,
                 history>>

\* runPass reaches an invalid task whose dependencies are done.
Launch(t) ==
  /\ tasks /\ ~ rootDone
  /\ ~ Planning
  /\ state[t] = "invalid"
  /\ state' = [state EXCEPT ![t] = "running"]
  /\ worker' = [worker EXCEPT ![t] = "launched"]
  /\ UNCHANGED <<watcherVars, callVars, pending, cancelled, terminalCh, planVars, goVars,
                 history>>

\* The goroutine takes the task's context, and its function begins.
Begin(t) ==
  /\ worker[t] = "launched"
  /\ worker' = [worker EXCEPT ![t] = IF t \in GoTasks THEN "building" ELSE "running"]
  /\ stale' = stale \ ({t} \X Files)
  /\ blind' = blind \ ({t} \X Files)
  /\ UNCHANGED <<watcherVars, callVars, stateVars, cancelled, terminalCh, planVars, goVars,
                 overtaken>>

\* builder.Build and saveDependencies succeed.
SaveDependencies(t) ==
  /\ worker[t] = "building"
  /\ worker' = [worker EXCEPT ![t] = "running"]
  /\ deps' = [deps EXCEPT ![t] = imported[t] \ LastListed]
  /\ UNCHANGED <<watcherVars, callVars, stateVars, cancelled, terminalCh, planVars, imported,
                 history>>

\* ctx.Err() of the worker's context.
CtxErr(t) == rootDone \/ t \in cancelled

\* The function returns, while it builds only in an error, and the context is checked.
Return(t) ==
  /\ worker[t] \in {"building", "running"}
  /\ \E w \in IF CtxErr(t) THEN {"stopped"}
              ELSE {"failed"} \cup {c \in {"completed"} : worker[t] = "running"} :
       worker' = [worker EXCEPT ![t] = w]
  /\ UNCHANGED <<watcherVars, callVars, stateVars, cancelled, terminalCh, planVars, goVars,
                 history>>

Outcome_NoCheck(t) == IF worker[t] = "completed" THEN "done" ELSE "error"
Outcome(t) == CASE worker[t] = "failed" -> "error"
                [] worker[t] = "completed" -> "done"
                [] worker[t] = "stopped" /\ rootDone -> "canceled"
                [] OTHER -> state[t]

\* The state is written, without a lock, whatever a plan has done since the check.
Flush(t) ==
  /\ worker[t] \in {"stopped", "failed", "completed"}
  /\ state' = [state EXCEPT ![t] = Outcome(t)]
  /\ worker' = [worker EXCEPT ![t] = "flushed"]
  /\ overtaken' = overtaken \cup {u \in {t} : state[u] = "invalid" /\ worker[u] # "stopped"}
  /\ UNCHANGED <<watcherVars, callVars, pending, cancelled, terminalCh, planVars, goVars,
                 stale, blind>>

\* execution.terminalCh <- struct{}{}
SendTerminal(t) ==
  /\ worker[t] = "flushed"
  /\ t \notin terminalCh
  /\ terminalCh' = terminalCh \cup {t}
  /\ worker' = [worker EXCEPT ![t] = "none"]
  /\ cancelled' = cancelled \ {t}
  /\ UNCHANGED <<watcherVars, callVars, stateVars, planVars, goVars, history>>

-----------------------------------------------------------------------------
\* The tasks are not concerned.
Apart == UNCHANGED <<taskVars, goVars, history>>

Plan(t) == SkipInvalidate(t) \/ ResetRun(t) \/ DrainRun(t)

Run(t) ==
  \/ Launch(t) \/ Begin(t) \/ SaveDependencies(t) \/ Return(t)
  \/ Flush(t) \/ SendTerminal(t)

Next ==
  \/ (WatcherStep \/ Interrupt) /\ Apart
  \/ Dispatch
  \/ RunBuild
  \/ Collect
  \/ \E t \in Tasks, f \in Files : Invalidate(t, f)
  \/ \E t \in Tasks : Plan(t) \/ Run(t)
  \/ \E f \in Files : Edit(f)

Spec == Init /\ [][Next]_vars

\* The tool prints what it has seen, the goroutines are scheduled, and a process
\* that is killed ends.  Of the plans nothing is asked, since one may hang with
\* Executor.mu held (DrainIsServed), and of a task's function neither.
FairSpec ==
  /\ Spec
  /\ WF_vars(ToolStarts /\ Apart)
  /\ \A f \in Files : WF_vars(ToolPrints(f) /\ Apart)
  /\ WF_vars(ToolExits /\ Killed /\ Apart)
  /\ WF_vars(ScannerStep /\ Apart)
  /\ WF_vars((CommandReturns \/ RunReturns) /\ Apart)
  /\ WF_vars(Dispatch)
  /\ \A t \in Tasks : /\ WF_vars(Begin(t))
                      /\ \A f \in Files : WF_vars(Invalidate(t, f))

-----------------------------------------------------------------------------
\* An event of f is on its way to the tasks.
InFlight(f) ==
  \/ f \in dirty
  \/ f \in {pipe[i] : i \in DOMAIN pipe} \cup {rest[i] : i \in DOMAIN rest}
  \/ f \in {eventsCh[i] : i \in DOMAIN eventsCh}

\* The watcher is ending, or has ended.
Deaf == GroupDone \/ ToolOver

\* What t is made from, where it has Sources and does not refuse it.
Reads(t, f) ==
  /\ IsTaskSource(t, f)
  /\ <<t, f>> \notin Refused
  /\ t \in GoTasks /\ f \in GoFiles => f \in Own[t] \cup imported[t]

\* The run of t is or was on older sources than f, and its end was not written over
\* a reset.
Outdated(t, f) ==
  /\ <<t, f>> \in stale \ blind
  /\ t \notin overtaken
  /\ state[t] # "invalid"
  /\ worker[t] # "launched"

Known(t, f) ==
  InFlight(f) \/ <<t, f>> \in calls \/ t \in pending \/ Deaf

\* No edit is lost between the tool, the pipe, the scanner, the channel, the
\* goroutines that invalidate, ShouldInvalidate, a plan and the runs, but to a run
\* that ends as a plan resets it: while the watcher lives, a run that is or was on
\* older sources is known to have to be repeated.
EditsAreKnown ==
  \A t \in Tasks, f \in Named : Outdated(t, f) /\ Reads(t, f) => Known(t, f)

\* And they do not stay on their way: the task is marked, or reset by a plan.
EditsAreMarked ==
  \A t \in Tasks, f \in Named :
    Outdated(t, f) /\ Reads(t, f) ~> t \in pending \/ ~ Outdated(t, f) \/ Deaf

\* A plan that holds Executor.mu waits for a run that will answer, unless an earlier
\* end of a run was written over a reset: edits find a lock that comes free again.
OnlyOvertakenHang ==
  \A t \in draining : worker[t] # "none" \/ t \in terminalCh \/ t \in overtaken

\* An interrupt ends the watcher, which Executor.Run waits for: the scanner does
\* not stay with an event that nobody takes, or a line of a dead pipe.
WatcherEnds == rootDone ~> run = "returned"

\* The Run of a watcher that ends while the session goes on returns an error,
\* unless the tool itself ended as if all were well: what watch.go:49 hands to
\* the errgroup of the executor.
EarlyEndIsAnError ==
  run = "returned" /\ ~ rootDone => gerr \/ tool = "clean"

-----------------------------------------------------------------------------
(* What the comments of the code promise *)

\* builder.go:215: "If no task sources are specified, then WrapWithGoBuild will
\* automatically setup invalidation for the task according to the import graph
\* of the specified package."
ImportGraphInvalidates ==
  \A t \in GoTasks, f \in GoFiles \cap Named :
    /\ Outdated(t, f)
    /\ Sources[t] = {}
    /\ f \in Own[t] \cup imported[t]
    => Known(t, f)

\* builder.go:186: "Bail out if we have not yet recorded any dependencies, i.e.
\* the task has yet to run, or an error occurred": a task that failed is
\* repeated when a file it is made from has been edited.
ErrorsAreRetried ==
  \A t \in GoTasks, f \in Named :
    /\ Outdated(t, f)
    /\ blind = {}
    /\ Reads(t, f)
    /\ state[t] = "error"
    => \E g \in Files : Known(t, g)
=============================================================================
