# TLA+ models of taskrunner

taskrunner runs a DAG of tasks on a developer's machine, watches the source
files, and re-runs what a change invalidates. This directory models the parts
of it that are hard to test: the executor and its goroutines, the batching of go
builds under it, the way of a file change from the tool that sees it to a run,
the events and the end of the program, the persistent cache, and the way from
the command line and the configuration to the DAG.

    tlc -workers 2 -config Executor_invalidations.cfg MCExecutor.tla
    tlapm SignalProofs.tla

`PROJECT.json` maps every definition to the lines it models and lists the runs,
the seeded bugs that each property catches, the hazards and the findings.

## 1. The system

| Part | Source | State | Operations | Talks to |
|---|---|---|---|---|
| Executor | `executor.go` | `mu`, `invalidationCh` (1 element), `tasks`, `wg`, `ctx`, `eventsChs` | `Run`, `Invalidate`, `runInvalidationLoop`, `evaluateInvalidationPlan`, `runPass`, `Subscribe`, `publishEvent` | everything |
| Task execution | `task_execution.go` | `state`, `ctx`/`cancel`, `terminalCh` (1 element), `pendingInvalidations`, `mu` | `ShouldExecute`, `invalidate`, `Invalidate`, `taskSet.add` | its dependencies and dependents |
| Watch loop | `watch.go` | none | `IsTaskSource`; one `go e.Invalidate` for each event and task it matches | watcher, executor |
| Watcher | `watcher/` | the process of `fswatch` or `inotifywait`, its pipe, `eventsCh` (1024), an errgroup of two | `Run`, `Events` | watch loop |
| Task handler | `task_handler.go` | none | `Invalidate`, `State`, `Definition` | task execution |
| Registry, flags | `registry.go`, `executor.go`, `task.go` | `definitions`, `flagsByTask` | `Add`, `getVerifiedFlagKey`, `parseTaskFlagsIntoMap` | runner, executor |
| Runner | `runner.go`, `process.go` | flags of the program, hooks, subscriptions | `Run`, `groupTaskAndFlagArgs`, choice of tasks and of watch mode | registry, executor, config |
| Config | `config/` | none | `ReadDefaultConfig`, `ReadConfig`, `ToConfig`, `With` | runner |
| GoBuilder | `goextensions/builder.go` | `packages`, `requests` (128), `timer`, `doneCh`, `ctx`, `err`, `mu` | `Build`, `build`, the batcher; `WrapWithGoBuild`, `buildBinder` (`pkgDependencies`) | tasks, shell, watch loop |
| Cache | `cache/` | the snapshot file, `allDirty`, `dirtyFiles`, `ranOnce` | `Start`, `Finish`, `maybeRun`, `Diff`, `snapshot` | git, hooks of `Run`, tasks |
| Events | `events.go`, `logger.go` | one channel (1024) per subscriber | publish, close at the end of `Run` | reporters, tui |
| Reporters, tui | `buildkitereporter/`, `clireporter/`, `tui/` | buffers of lines | subscriptions, hooks | events, task handlers |
| Shell | `shell/` | none | runs a command | |

**What is hard.** A task is run by a goroutine that writes `execution.state`
without a lock, while plans (from the loop and from every worker that
succeeded) and passes (from the loop, from every worker and from `Run`) read
and write it under `Executor.mu`, and invalidations mark tasks under
`taskExecution.mu`. `terminalCh` and `invalidationCh` hold one element each,
and whoever waits for one may hold `Executor.mu`. Contexts are nested along the
dependencies. Shutdown is a cancelled context that goroutines notice at
different times. GoBuilder has a second such protocol of its own, which a plan of the
executor waits for; a file change crosses two processes, a pipe, two channels
and a goroutine for each task before it is an invalidation; and the cache has to
survive being killed.

**What makes each part correct.**

* Executor: a task has one run at a time; it is started on dependencies that
  are done and on a live context; an accepted invalidation gets a plan, a task
  that can run gets a pass; KeepAlive tasks are started again; `Run` returns
  when its tasks are done, or after an interrupt, and reports failures.
* DAG: closed under dependencies, with complete edges in both directions.
* GoBuilder: every caller of `Build` is answered, by a build of its package, and
  a cancelled run that waits for one ends.
* Watcher and watch loop: while they live no edit is lost on its way to a task;
  when they end, they do not keep `Run` from returning.
* Cache: a task is skipped only on what it last succeeded on.
* Flags: keys are unambiguous, reach the task they follow, and both names of a
  flag read the same value.
* Startup: what was asked for is run, or else what the files say, in the
  directory that the nearest file names.

## 2. Modules

| Module | What it is |
|---|---|
| `Executor` | The executor, its goroutines and the environment that disturbs it |
| `TaskRuns` | What the executor promises of runs; `Executor` refines it |
| `ExecutorHistory` | `Executor` with the set of tasks that are owed a run, for `Promise_invalidate` |
| `ExecutorProofs` | Theorems about `Executor`: types, one run at a time, contexts, the refinement |
| `SignalProofs` | Theorems about its invalidations: no lost wake-up |
| `PassProofs` | Theorems about its passes: no forgotten task, no state `running` without a run, and how a run without watch mode ends |
| `RunnerProofs`, `GoTasksProofs`, `WatchProofs`, `CacheProofs`, `StartupProofs` | Theorems about these modules and what they are made of |
| `Runner` | The errgroup of `runner.Run`: `Executor`, the bus of its events, the subscriptions and the hooks |
| `GoBuilder` | The batcher, `build`, and callers of `Build` that may be cancelled and come again |
| `GoTasks` | `Executor` and `GoBuilder` together: the tasks are callers of `Build` |
| `Watcher` | The tool, its pipe, and the goroutines of a watcher |
| `Watch` | `Watcher`, the watch loop, `buildBinder`, and tasks as they are seen from there |
| `Cache` | Sessions of taskrunner over a git work tree |
| `Flags` | `Registry.Add`, `groupTaskAndFlagArgs`, `parseTaskFlagsIntoMap` |
| `TaskSet` | `taskSet.add`, against a definition of closure |
| `Config` | Reading a chain of configuration files |
| `Startup` | `Flags`, `Config` and `TaskSet` in the order of `runner.Run` |
| `MC*` | Instances of these for TLC: the constants of the configurations |

### Executor

Every goroutine is a process with a program counter: `Main` is `Executor.Run`,
`Loop` the invalidation loop, `Workers` the goroutines of the errgroup,
`Passers` the `go e.runPass()` of the loop, `Callers` whoever calls
`Executor.Invalidate` (file events, the restart key of the tui), `Handlers`
whoever calls `TaskHandler.Invalidate`. Routines that several of them run are
one set of actions over the processes inside them:

| Code | Actions |
|---|---|
| `taskExecution.Invalidate`, `Executor.Invalidate` | `CallInvalidate`, `SkipMark`, `CheckMark`, `RecordMark`, `Send` |
| `evaluateInvalidationPlan` | `PlanLock`, `Collect` |
| `taskExecution.invalidate` | `SkipInvalidate`, `CancelRun`, `ResetRun`, `DrainRun` |
| `runPass` | `PassCheck`, `PassLock`, `PassSkip`, `PassLaunch` |
| the worker of `runPass` | `Begin`, `Return`, `Flush`, `SendTerminal`, `KeepAliveCheck`, `Leave` |
| `runInvalidationLoop` | `LoopReceive`, `LoopStop`, `LoopTimer`, `LoopSpawn`, `TimerFires` |
| `Run` | `RunBuild`, `RunStart`, `RunEarlyReturn`, `RunWait` |
| `runWatch`, the signal | `WatcherExit`, `Interrupt` |

A step ends where another goroutine can see or disturb the state: at a lock, at
a channel, and between a check and the unprotected write it guards. Thus
`invalidate` is three steps (cancel, reset, drain), the end of a run is
`Return` (the check of the context), `Flush` (the write of the state) and
`SendTerminal`. Choices of the model:

* `state` is read and written without a common lock. The model gives a read the
  last value written, and interleaves every read and write that is not under
  `Executor.mu`; tearing and reordering of a word-sized field are left out.
* `taskExecution.mu` serialises the marks of one task. Marks only add, so the
  model drops the lock and lets them interleave; the depth-first order in which
  a call visits dependents is a set that shrinks, which allows more orders.
* `terminalCh` is replaced by a new channel after it was drained. Only the
  worker whose element was drained had the old one, so one flag per task is
  enough.
* A context is a flag per task, the set of tasks that still have the context
  made by `add` (those are nested, `CtxParent`), and per worker whether the
  context it captured was replaced since.
* `time.Timer` has the semantics of Go 1.23 and later: `Reset` discards a tick
  that was not received (the module has `go 1.24`).
* Publishing an event is no step here; `Runner` adds it to the same actions.

### Runner

`Runner` extends `Executor`: its actions are those of `Executor`, conjoined with
what the code publishes at that statement. A goroutine with an event in `out`
sends it to one channel after the other (`Deliver`), and takes no other step
before it has, so that a plan that publishes keeps `Executor.mu`. After the
tasks come the stages of the end: the onStop hooks, one of which is the buildkite
reporter's and each of which can fail, the deferred close, and `g.Wait`. A subscription handles events in order until its
channel is closed and empty; a `Quitter` (the tui, once it is closed) may return
before. A publish on a closed channel ends the program (`panicked`). `view` and
`begun` are history: what a subscription has seen of each task.

| Code | Actions |
|---|---|
| `publishEvent` | `Publish`, `Deliver` |
| the worker of `runPass`, `eventLogger.Write` | `BeginRun`, `Log`, `ReturnRun`, `EndRun` |
| `evaluateInvalidationPlan` | `CollectTask` |
| `Run` and its defer, `runner.Run` | `ReturnEarly`, `TasksExited`, `StopHooks`, `CloseChannels`, `Exit` |
| the subscriptions | `Read`, `Drained` |

What a subscriber does with an event is left out, but for its kind and task.

### GoBuilder

A caller of `Build` goes through sending its request, the lock, registering
(`ctx`, `doneCh`), unlocking, reading `doneCh` again and waiting; the batcher
receives, re-arms the timer, and builds. `doneCh` is open or nil, and closing a
nil channel ends the program. A caller that was answered may come again
(`Again`), and its context may be cancelled while it is inside (`Cancel`); `Build`
looks at neither. `Prompt` is an assumption on timing: a goroutine between two
statements takes them before the half second of the timer is over. With it, what
is left is the window in which the timer has fired and the build has not taken
the lock. Runs say which they use.

### GoTasks

`GoTasks` extends `GoBuilder` and has `Executor` as an instance. A worker whose
pc is `running` is inside the function that `WrapWithGoBuild` made, and the
caller of `Build` is its task: `BuildStep` is a statement of `Build`,
`TaskReturns` the end of the function. The set `canceled` of `GoBuilder` is no
longer free: it is computed from the contexts that the workers captured. So the
composition shows two things at once. `ImplementsGoBuilder` says that whatever
the executor does is one of the behaviours that `GoBuilder` was modelled for
(it never calls `Build` for a task that is still inside it, for instance, which
is `AtMostOneRun` seen from the other side). And `CanceledRunEnds` says that a plan
which holds `Executor.mu` and waits for a run inside `Build` does get its answer:
the builder needs nothing that the executor's lock protects.

### Watcher and Watch

A change the tool has seen is in `dirty`, a printed line in `pipe`, a scanned
event in `rest` while it is sent, then in `eventsCh`, then a goroutine in
`calls`, and then a mark in `pending`. From there on `Watch` has as much of the
executor as an edit can be lost in: a plan collects, resets a task, and waits on
`terminalCh` with `Executor.mu` held (`Planning`), while the worker checks its
context, writes the state without that lock and sends on `terminalCh`, in three
steps. So a worker can write `done` over a reset, and a later plan can hang; the
history variable `overtaken` has the tasks to which that has happened. When a
plan or a pass comes is left open; `SignalNotLost` and `NoForgottenTask` of
`Executor` are about that.

| Code | Actions |
|---|---|
| the tool | `ToolStarts`, `ToolPrints`, `ToolExits` |
| the scanner's goroutine | `ScanLine`, `SkipLine`, `SendEvent`, `ScanEnds` |
| the command's goroutine, `Run` | `CommandReturns`, `RunReturns` |
| `runWatch` | `Dispatch`, `Invalidate` |
| `WrapWithGoBuild`, `buildBinder` | `SaveDependencies`, `Accepts`, `ShouldInvalidate` |
| `evaluateInvalidationPlan`, `taskExecution.invalidate` | `Collect`, `SkipInvalidate`, `ResetRun`, `DrainRun` |
| `runPass` and its worker | `Launch`, `Begin`, `Return`, `Flush`, `SendTerminal` |

Things the modules record of the code, or leave to others:

* What changes before the tool watches has no line. The tool starts
  together with the first runs, so an edit in that time is lost; the history
  variable `blind` keeps these edits, and the properties leave them out.
* Words of a line are told apart by blanks. With `fswatch`, a name with a blank
  ends the scanner with an error, and so the watcher (`Unreadable`); with
  `inotifywait` the event is about another file, or none (`EventsOf`). A name
  with a line break is two lines: `fswatch`'s watcher skips the first, which has
  one word (`SkipLine`), and the second, which is no path below the directory,
  ends it; `inotifywait`'s panics (`watcher.go:149` takes the third word of a line
  that has fewer), so the model has no such names there. The properties leave these
  files out (`Named`); they hold for the others.
* `cmd.Run` closes the pipe when the tool has ended, read to its end or not
  (`os/exec` says not to use it with `StdoutPipe`): the last lines can be lost,
  and the scanner can end with or without an error.
* When the watcher ends by itself, nobody is told that the session is deaf. A
  tool that ended with status 0 leaves no error; any other one does
  (`EarlyEndIsAnError`), but the error waits in `Executor.wg` until every task has
  exited, and `runner.go:273` drops it in watch mode.
* Tasks of `Watch` have no dependencies and are marked by file events only:
  inherited contexts, and marks and cancels for other reasons, are `Executor`'s.
  What the task's own `ShouldInvalidate` refuses is the constant `Refused`.
* `strings.Contains(event.File, dep)` takes a file for one of a package if its
  path contains the import path (`Located`; in a module at the root of the
  repository no path does), and the last package that `go list` prints keeps a
  bracket and a newline, so that it matches nothing (`LastListed`). The run
  takes files for which neither is an obstacle.

### Cache

The work tree, the commits and `mtime` are an external model of git and of the
user, who edits (also writing the same content again), removes, commits and
checks out. `HashSum` is of the time of modification, as in `md5sum.go`, and of
no file it is a constant. Files are numbers, for git lists paths in order and
`Diff` keeps the last one. Left out: directories (`git status` collapses an
untracked one), names that `git status` puts in quotes, or writes as a rename, for
`git.go:54` takes the rest of the line for the path, and `Cache.Ignore`.

### Startup, Flags, Config and TaskSet

`runner.Run` up to the first pass is sequential. `Startup` takes its stages in
order: flags are registered (`Flags`), the program's own options parsed, a chain
of configuration files read down along `extends` and merged up (`Config`),
`--list` and its like answered, the words of the command line grouped (`Flags`),
tasks and watch mode chosen, the DAG built (`TaskSet`), and help shown or tasks
started. A file is read when the chain comes to it: it has any of `Contents`, is
broken, or is missing. A path is a sequence of names, joined as `filepath.Join`
does. `TaskSet` compares what `add` builds with the least closed set; the
definitions of tasks are any acyclic ones, with dependencies in every order.
`add` calls itself, and a call is a frame of `stack`, which holds what the call
has in its variables: the task, the context, the dependencies it has still to
visit and those it has collected.

| Code | Actions |
|---|---|
| `Registry.Add` | `AddFlag` |
| `groupTaskAndFlagArgs` | `FlagArg`, `TaskArg`, `EndOfArgs` |
| `ReadDefaultConfig`, `ReadConfig`, `ToConfig`, `With` | `Begin`, `ReadConfig`, `Merge` |
| `taskSet.add` | `Call`, `AddDependency`, `Return` |
| `parseTaskFlagsIntoMap`, `getVerifiedFlagKey` | `Parsed`, `Applied`, `OtherName`, `Verified` |
| `runner.Run` | `ParseOptions`, `UseConfig`, `ChooseTasks` |
| `Executor.Run`, before it starts anything | `AddTask`, `StartTasks` |

The code tells short names from long ones by their number of bytes, and so does
the model: `OneByte` has the names of one byte. Nothing checks that a `LongName`
is longer, or that a `ShortName`, which is a rune, is an ASCII one: a flag whose
`ShortName` is `é` takes `--é` and refuses `-é`.

## 3. Runs

Passing runs, with the bounds that make the interesting cases happen:

| Run | Instance | Shows |
|---|---|---|
| `invalidations` | a line of three tasks in watch mode, the middle one refuses dependency changes, two calls of `Executor.Invalidate`, two workers, an interrupt | `AtMostOneRun`, `StartsOnLiveContext`, `NoForgottenTask`, `SignalNotLost`, `ImplementsTaskRuns`, and the invariants of the proofs, `TypeOK`, `TokenInv`, `ContextInv` |
| `batch` | a diamond without watch mode, failing tasks, an interrupt, a start that fails, three workers, all tasks terminate | `Settled`, `RunReturns` |
| `restarts` | one KeepAlive task in watch mode, three workers, it always exits; a watcher that may end | `KeepAliveRestarts`, `KeepAliveRunsAgain` |
| `gotasks` | two unrelated go tasks with a package each in watch mode, channel of one, one invalidation, an interrupt, a start that fails, `Prompt` | `NoLostBuild`, `AnswersItsBatch`, `BuildReturns`, `ImplementsGoBuilder`, `InterruptEndsRun`, `CanceledRunEnds` |
| `events` | one task outside watch mode, one call through a handler, two subscriptions with channels of one, two lines, an interrupt, a start that fails, an onStop hook that fails | `RunsAreBracketed`, `EverythingIsHandled`, `EndsAgree`, `NoSendOnClosed`, `RunnerEnds`, `RTypeOK` |
| `startup` | four tasks, four flags that can collide, four arguments; three flags with a long name of one byte or a short one of two; three files, one of them a link, chains of four; every DAG, one or two roots | `KeysAreUnambiguous`, `FlagsFollowTheirTask`, `LastValueUnderBothNames`, `NearestPathAllTasks`, `RunsWhatWasAsked`, `DagIsComplete`, `ContextsFollowDependents` |
| `watch` | one go task with Sources, a file that its package imports and a file with a line break in its name, edited any number of times; `fswatch` with a pipe and a channel of one, which ends by itself in both ways | `EditsAreKnown`, `EditsAreMarked`, `OnlyOvertakenHang`, `WatcherEnds`, `TypeOK` |
| `cache` | a task on two files, sessions with and without it, three edits, two commits, kills, git failures, failing tasks, edits while it runs | `SkipIsFresh`, `TrackedChangesAreDirty`, `NoSilentDiff`, `TypeOK` |

An instance beside these is too much for one run with `events`:
`Runner_annotation.cfg` (`MCRunner`), where `b` depends on `a` and `c` on nothing,
outside watch mode, with one call through a handler on `a`, no lines and no
faults but failing tasks and hooks. `EndsAgree` holds there too, and only there does a task
stay unrun below one that failed.

**Bounds.** `MaxCalls` bounds the calls of `Invalidate` from outside: two are
enough for an invalidation to meet the plan of the one before. `Workers`,
`Passers`, `Callers` and `Handlers` bound the goroutines alive at once, not over
time: they return to `idle` and are taken again. A pass that finds no idle
worker waits, as does a task function that wants to return while nobody is left
to start what follows. For safety this removes interleavings with more
goroutines than the pool has: in `invalidations` two runs of the line, of one
task or of two, overlap while the third waits. For liveness a pool that is too
small could hide or invent a deadlock, so `batch` and `restarts` have one worker
more than tasks that can run at once, and `gotasks` and `events` a pool that only
a cancelled task can fill. In `gotasks` an invalidation and an interrupt meet in
one behaviour only when the task that is not invalidated is done and its worker has left
(`OneTaskDisturbed`): a plan holds `Executor.mu` and waits for a run that waits in
`Build`, and the interrupt comes. Apart they come at any moment; neither has to
come, so that no fairness pushes a behaviour over that edge. Two tasks are
enough there for a batch of one, a batch of two, and a request that comes while
the other's batch is built.

`Capacity` stands for the 128 requests of GoBuilder's channel, one or two so that
it fills; `EventsSize` and the channels of `Runner`, one, for 1024 events; and
`PipeSize`, one, for what a pipe holds. `MaxEdits` counts edits and checkouts and
is the clock of the modification times; `MaxCommits` counts commits, two so that
a checkout has somewhere to go. `MaxArgs` is long enough for a task to be named
twice with flags in between. `MaxChain` is one more than there are files, so that
a chain can come back to its start. The constraint `Focus` of `startup` is four
explorations in one: command lines with one file and one DAG, the same with the
flags that have odd names, chains of files with at most one argument, and DAGs
with one file and no argument; what they
have in common is the stages of `Startup`, which look at the results only.

**Deadlock checking** is off where the program really stops: when `Run` has
returned, when every caller has its answer, when the watcher has ended, and when
the tasks are started or refused.

**Fairness** is weak throughout. The Go scheduler runs every goroutine that can
run, timers fire, and a process the context of which is cancelled ends.
`SchedulerFairness` has one condition for each goroutine's steps and one for the
timer. `FairSpec` adds `Cancelable`: a task function *whose context is cancelled*
returns, as `task.go` asks; apart from this a task may run for ever. That a
task function returns by itself is `TerminatingSpec`, for tasks that are builds
(`batch`) or servers that die (`restarts`). In `gotasks`, `GFairSpec` asks less of
a task: what follows `Build` ends once it is cancelled, and `Build` itself is
left to the builder, whose callers and batcher are scheduled and whose
`go install` ends. A watcher may end by itself but need not, and an interrupt
may come but need not. `RFairness` (`events`) is that of `TerminatingSpec` on the
composed steps, and subscriptions that read on. `FairSpec` of `Watch`: the tool
prints what it has seen and dies when it is killed, and goroutines that need no
lock of the executor are scheduled. Of plans it asks nothing, since a plan can
hang with `Executor.mu` held, and of a task's function neither; so
`EditsAreMarked` follows an edit up to the mark and no further.

## 4. Where the code does not do what it says

Each of these states a comment of the code as a property, and TLC shows a
behaviour of the code that breaks it. The first four are runs of
`PROJECT.json` and findings, which quote the comment:

| Run | Property | What happens |
|---|---|---|
| `promise_drain` | `DrainIsServed` | A worker writes `done` over the reset of a plan. The task is done with no element in `terminalCh`; the next plan waits for one for ever, with `Executor.mu` held, and `Run` never returns. It needs two invalidations and a worker between its context check and its write |
| `promise_interrupt` | `KeepAliveIsReceived` | Two KeepAlive tasks exit just before an interrupt. The loop leaves, and the worker that finds `invalidationCh` full waits for ever; so does `Run`, whose comment promises to wait for tasks to exit, and they have |
| `promise_imports` | `ImportGraphInvalidates` | A go task without Sources: `WrapWithGoBuild` promises to invalidate it along its import graph, but `runWatch` asks only about files that a glob of Sources matches |
| `promise_uncommitted` | `UncommittedAreDirty` | Of several changed uncommitted files the diff reports one |

Further ones, each with the configuration that shows it; where two or three share
one, it checks one of them and has the others as comments:

| Configuration, module | Property | What happens |
|---|---|---|
| `Promise_invalidate`, `MCExecutorHistory` | `OwedRunComes` | The late write of `promise_drain` with no second plan: the accepted invalidation is lost, and the task counts as done on inputs from before it |
| `Promise_executor`, `MCExecutor` | `InvalidateStopsRun` | A worker reads `ctx` when it begins, not when it is launched: a plan in between cancels the old context, and waits for a run that has the new one and that nobody stops |
| `Promise_keepalive`, `MCExecutor` | `KeepAliveHoldsRun` | Without watch mode `Run` returns although a KeepAlive task is about to be restarted |
| `Promise_executor`, `MCExecutor` | `NoRunOutlivesRun` | The loop's pass passes its check of the context, the interrupt comes, `wg.Wait` returns, and the pass starts a task that nobody waits for |
| `Promise_status`, `MCRunner` | `FailureIsReported` | The late write, of an error: the task stays failed, with no pending invalidation, and its error is dropped because the context of that run was cancelled. The console shows a failure, the exit status is success |
| `Promise_close`, `MCRunner` | `NoSendOnClosed` | After an interrupt, the loop publishes an invalidation on the channels that `Run` has closed: a panic |
| `Promise_quit`, `MCRunner` | `RunnerEnds` | A subscription that has returned fills its channel, and the publisher waits for ever. (`executor.go:144` has a "done function" that unregisters a channel; there is none) |
| `Promise_annotation`, `MCRunner` | `AnnotationHasItsLines` | The hook writes the annotation with lines of the failed task still in the channel |
| `Promise_executor`, `MCExecutor` | `CanceledIsFinal` | A plan that is past its check turns a canceled task into an invalid one |
| `Promise_noop`, `MCExecutor` | `KeepAliveSparesNewRun` | A KeepAlive worker that was stopped by an invalidation invalidates the run that has replaced its own |
| `Promise_dependents`, `MCExecutor` | `DependentsFollow` | A dependent stays done while its dependency is invalid |
| `Promise_build`, `MCGoBuilder` | `WaitsForItsBuild` | A caller of `Build` that registers between the timer and the build is let go by a build without its package; the build that comes for it closes a nil channel: a panic. (`builder.go:136`: "waits for its completion") |
| `Promise_prompt`, `MCGoTasks` | `CanceledRunEnds` | With a `go install` that ends only when the context of its last caller is cancelled: a cancelled run of another caller waits for it, and a plan waits for the run with `Executor.mu` held |
| `Promise_retry`, `MCWatch` | `ErrorsAreRetried` | `pkgDependencies` is kept when a later build fails, though the comment says it is not there after an error: a file that the failed build newly imports is refused, and the task stays failed |
| `Promise_startup`, `MCStartup` | `ReturnsAConfig` | A configuration that extends itself, directly or not, is read for ever |
| `Promise_startup`, `MCStartup` | `EveryTaskHasItsDefaults` | A task that no flag group was made for, since it is a dependency or comes from the configuration, gets no defaults |
| `Promise_stuck`, `MCGoBuilder` | `BuildReturns` | A caller reads `doneCh` after the build has set it to nil, and waits for ever |
| `Promise_cache`, `MCCache` | `SkipsOnlyUnchanged` | The snapshot covers tasks that were not run or that failed, and the next session skips them |
| `Promise_names`, `MCStartup` | `EitherNameReadsTheValue` | A `LongName` of one byte does not set its `ShortName`, and a `ShortName` of more bytes does not set its `LongName`: a task reads different values under the two |

These bound what the passing runs can say:

* `InterruptEndsRun` was checked with one invalidation at most and no KeepAlive task,
  and with the bound of `OneTaskDisturbed` (section 3). It fails with more
  invalidations, through the drain, and with a KeepAlive task that exits by itself
  twice, or with two of them, through the full channel.
* `KeepAliveRestarts` holds for a task that exits by itself, and fails for one
  that is also invalidated from outside, through the late write.
* `SkipIsFresh` is about tasks that were up to date when the snapshot was
  written: their last successful run was on the tree that it records. The model
  keeps these tasks (`covered`) and that tree (`seen`) as history; the code has
  no such notion, which is what `Promise_cache` shows.
* `EverythingIsHandled`, `EndsAgree` and `RunnerEnds` are about runs outside watch
  mode. In watch mode, the loop publishes and starts tasks after `Run` has
  returned. `EndsAgree` is about tasks, not about lines, and it is no equality: a
  task that a plan collects while it runs has its `invalidated` event before the
  `failed` of the run that the plan then stops or waits for. If the program
  ends before a pass starts the task again, because a dependency that was
  invalidated with it fails this time, the console goes on showing it as failed and
  the annotation, which reads states, does not count it. `Runner_annotation.cfg`
  has such behaviours; `events`, with one task, has the ones with an interrupt. When
  an onStop hook fails there may be no annotation, and then `EndsAgree` says only
  that it lists nothing that was not shown.
* `NoSendOnClosed` is about runs with no KeepAlive task and no caller of
  `Executor.Invalidate`; with these, the loop may be alive when `Run` returns.
* `BuildReturns` is under `Prompt`, and counts the panic as an end.
* `EditsAreKnown` is about tasks with Sources, whose imports do not change while
  their build fails, files without blanks and line breaks, and edits after the tool
  watches; and not about a task whose run wrote its end over a reset. There an
  edit *is* lost, as `Promise_invalidate` shows. `OnlyOvertakenHang` says that
  the hang of `promise_drain` has the same cause and no other.
* `LastValueUnderBothNames` is about flags with one name, or with a long one of
  several bytes and a short one of one byte.

Not modelled because any overlap is enough: `pendingInvalidations` is a map that
`taskExecution.Invalidate` writes and `evaluateInvalidationPlan` iterates and
replaces under different locks, which the Go runtime may answer with "concurrent
map iteration and map write".

## 5. Proofs

Each theorem is for every value of the constants: every DAG, every set of
KeepAlive tasks and of vetoes, any number of goroutines, calls, subscriptions,
files and edits, and every size of a channel. The inductive invariants were
checked with TLC on the instances before they were proved. Several theorems have a
hypothesis on the constants. It is stated with the theorem, it is that of the run that
checks the property, and the table says why it is there.

| Theorem | Property | Hypothesis |
|---|---|---|
| `ExecutorProofs`: `TypeCorrect` | `TypeOK` | |
| `OneRunAtATime` | `AtMostOneRun` | |
| `TokenDiscipline` | `TokenInv` | |
| `LiveContexts` | `StartsOnLiveContext` | |
| `ContextDiscipline` | `ContextInv` | |
| `Refinement` | `ImplementsTaskRuns` | |
| `SignalProofs`: `MarksGoUp` | `MarksInv` | |
| `SignalsAreKept` | `SignalNotLost` | |
| `KeepAliveIsKept` | `KeepAliveRestarts` | each KeepAlive task `RestartsAlone`: nothing else invalidates it (false otherwise, by the late write of section 4) |
| `PassProofs`: `NoTaskIsForgotten` | `NoForgottenTask` | |
| `RunningHasRun` | (a state `running` has a run behind it) | |
| `OneShotSettles` | `Settled` | `OneShot`: no watch mode, no call from outside, no KeepAlive task |
| `GoTasksProofs`: `TypeCorrect` | `TypeOK` of `GoBuilder` | |
| `NoBuildIsLost`, `BatchesAnswer`, `NobodyIsStuck` | `NoLostBuild`, `AnswersItsBatch`, `NeverStuck` | `Prompt` (false otherwise: `Promise_stuck`); `AnswersItsBatch` is about callers whose request has left the channel (for the others it is false: `Promise_build`) |
| `GOneRunAtATime`, `BuilderRefinement` | `AtMostOneRun` in `GoTasks`, `ImplementsGoBuilder` | |
| `NoTaskLosesItsBuild`, `TasksGetTheirBatch` | `NoLostBuild`, `AnswersItsBatch` in `GoTasks` | `Prompt` |
| `WatchProofs`: `TypeCorrect`, `OnlyLateWritesHangPlans` | `TypeOK`, `OnlyOvertakenHang` | |
| `EarlyEndReturnsAnError` | (`EarlyEndIsAnError`) | |
| `EditsAreLostToLateWritesOnly` | `EditsAreKnown` | `ImportsAreListed`: imports do not change, paths hold import paths (false otherwise: `Promise_retry`, section 2) |
| `CacheProofs`: `TypeCorrect`, `TrackedAreDirty`, `NoDiffIsSilent` | `TypeOK`, `TrackedChangesAreDirty`, `NoSilentDiff` | |
| `SkipsAreFresh` | `SkipIsFresh` | `WatchesAll`: every task watches all files (false otherwise: `promise_uncommitted`) |
| `RunnerProofs`: `RTypeCorrect` | `RTypeOK` | |
| `ROneRunAtATime`, `RunsDoNotMix` | `AtMostOneRun`, `RunsAreBracketed` | |
| `NoPanic`, `AllIsHandled` | `NoSendOnClosed`, `EverythingIsHandled` | `NothingRestarts`: no KeepAlive task, no caller of `Executor.Invalidate` (false otherwise: `Promise_close`) |
| `ConsoleAndAnnotationAgree` | `EndsAgree` | `NothingRestarts`, for the loop may be alive when `Run` returns otherwise; calls through a handler, failures and interrupts as in the run |
| `StatusTellsTheOutcome` | (success is every task done and no hook failed; `FailureIsReported`) | `OneShot`, `NothingRestarts` (false with a call through a handler: `Promise_status`) |
| `StartupProofs`: `NoFlagIsShadowed`, `FlagsGoWhereTheyStand` | `KeysAreUnambiguous`, `FlagsFollowTheirTask` | |
| `BothNamesReadTheLastValue` | `LastValueUnderBothNames` | (the property is about flags whose names have the lengths the code expects, beside any others; false for those: `Promise_names`) |
| `ConfigsAreMerged` | `NearestPathAllTasks` | |
| `TheDagIsComplete`, `ContextsAreFromAbove` | `DagIsComplete`, `ContextsFollowDependents` | |
| `RunsWhatWasChosen` | `RunsWhatWasAsked` | |

The assumptions are those of the constants (`DagAssumption`, `ProcsAssumption`
and so on, named in the modules that declare them): every non-empty set of tasks has
one with no dependency in it (`AcyclicAssumption`, and `DefinitionsAssumption` of
`TaskSet`; with a cycle `add` does not return), `CtxParent` is a dependent, the
pools are disjoint, sizes of channels are positive, and a configuration names
finitely many tasks. TLC evaluates them on every run.

### ExecutorProofs

`AtMostOneRun` is not inductive: it does not say why a pass finds a task invalid
only when its run is over. The strengthening is `LockInv` (whoever is in a
critical section holds `mu`, so there is at most one) and `TokenInv`:

1. while a worker has not yet sent on `terminalCh` for its task, the channel is
   empty;
2. an invalid task has no such worker and no element, unless a plan is waiting
   in `invalidate` for exactly this task, and then that plan holds `mu`, so that
   no pass can start it;
3. a worker whose function has not ended has a task that is not `done`.

A pass starts a task only when it is invalid and the pass has `mu`, so (2) gives
it a task with no worker. `Flush` is the step that looks as if it would break
this, for it writes the state without the lock: it never writes `invalid`, and
(3) is about workers before it. That the late write of section 4 cannot give a
task two runs, but can make it wait for ever, is seen here: (2) says nothing
about a task that is `done`.

`ContextInv` is the invariant of `LiveContexts`. An invalid task has a live
context: either one of its own, made by `ResetRun`, or the first one, whose
ancestors have then not been cancelled either, since a task that has run on its
first context has only dependencies that ran, and hence were no longer waiting
on theirs. The step that cancels (`CancelRun`) can cancel only first contexts of
tasks that are no longer invalid. It is needed that a context only derives from
a direct dependent (`DagAssumption`; `ContextsFollowDependents` checks that
`add` makes it so), and `CtxBelowIsDependency` says that everything below in the
nesting is a dependency.

`Refinement` maps the runners of a task to the workers whose function has not
ended, and `ok` to the tasks in state `done`. Steps are matched one by one from
`TokenInv` and `LockInv`: `PassLaunch` is `Start`, `Flush` is `Succeed` or `Fail`,
`ResetRun` is `Invalidate`, and the rest stutters.

### SignalProofs and PassProofs

`SignalNotLost` speaks of steps, not of states: a mark that is recorded just after
the plan has reset its task stays with no signal at all, harmlessly, until the next
plan. So the theorem says that a signal, once there, is passed on in the step in
which its holder loses it. The invariant is `MarksInv`: a call of `Invalidate` is
at the task it is for or at one above it in the DAG, and never comes back
to one it has left, so that `Send` comes after every mark. That the DAG has no
cycle is used here (`NoCycle`).

`KeepAliveRestarts` is not inductive either. `TurnInv` says that the run, the mark
and the plan of a task take turns: while a worker still owes the mark there is
neither a mark nor a plan for the task, so that no plan can swallow it; and
`RestartInv` that with no worker owing it, the mark or a plan is there. The
hypothesis makes the worker that ran the task the only one who marks it (`OnlyItsWorkerMarks`).

`NoForgottenTask` is inductive with the types. The proof is over who ends a pass or
makes a task ready: a task becomes ready when a dependency is flushed as done,
by a worker that has its own pass before it, or when a plan has reset it, and the plan is
followed by a pass.

`RunningHasRun` rests on `RunsInv`, which ties state, goroutine and context of a task
together. A worker whose function has not ended finds its task `running`, or reset by
the plan that has cancelled it, and in the first case the context it captured is the one
the task has; and a task in state `running` has such a worker, or a plan between its
cancel and its reset. Contexts come in because a worker that ends asks its context whether
it was cancelled, and writes no state if it was: then a plan must be about to write one.
That a context is cancelled from above only when its task does not run, or its plan is on its way, is
`ContextInv`.

`OneShotSettles` needs three invariants. `QuietInv`: nothing is ever marked, so no
plan collects anything. `OutcomeInv`, until an interrupt: the states agree with what
the goroutines know, and an error is in the errgroup or in a worker that brings it there.
`EndInv`: with nobody left, no task is ready (from `NoForgottenTask`). The
step from there to "below a failure" is an induction along the dependencies; it
is done with the task that `AcyclicAssumption` gives.

### RunnerProofs

Every step of `Runner` is one of `Executor` or leaves its variables alone, but for
one: an error of `Executor.Run` cancels the context of the errgroup. With
this case (`RootCancelled`) the invariants of `ExecutorProofs` carry over.

`RunsAreBracketed` looks at the head of a channel only. The invariant is that the
*whole* channel makes sense: there is a trace (`Traced`) of sets of open runs, which
begins with what the subscription has seen (`begun`), changes with each
event in the channel, in which each event fits (`Fits`), and which ends with the
runs whose goroutine is between its `started` and its last event (`Open`).
`OutInv` and `OwnInv` say what a goroutine publishes where, and `TokenInv` that
there is one goroutine per task, so that the event of a second run cannot come
before that of the first.

`EverythingIsHandled` and `NoSendOnClosed` rest on `StillInv` (the loop never gets
a signal, no worker is there before the first pass or after `wg.Wait`) and `ClosedInv`
(once `Run` has returned nobody has an event left to publish, and a subscription
that reads on leaves with an empty channel). In the last state, `Open` is then empty,
and so is the trace.

`EndsAgree` compares what went two ways: a failure is written to `state`, where the
annotation finds it, and published, which the console shows once it has come through
the channels. `AgreeInv` is what holds on the way, for a task and a subscription:

* `WillShow`: what the subscription will show of the task when it has handled its
  channel, by the last event in it that tells, or else what it shows now.
* `Told`: a task in error will be shown as failed, or a goroutine has the
  `failed` still to send to this channel, or a plan is about to reset the task. And
  a task that will be shown as failed is in error or has been reset, unless
  the `started` of its next run is still to be sent.
* `ReportInv` and `AnnouncedInv` say what is being sent: a goroutine publishes the
  outcome that it has written, which is still there or reset (`OutcomeStays`, from
  `TokenInv`: a plan that resets it waits for the worker to leave); and a plan
  announces the tasks that it is going to reset, and no others.
* `RunsInv` is needed for the start of a run and `NoForgottenTask` for the end:
  `BlockedInv` says that, once `wg.Wait` has returned, a task that was reset and not
  started again is below a failure or there was an interrupt, for a pass would have
  started it.
* `LastInv` takes these to the hooks and the end, for no state changes any more (`NobodyRuns`).

`StatusTellsTheOutcome` puts `OutcomeInv` of `PassProofs` beside `AgreeInv`: when `wg.Wait`
returns, the error it has is there exactly when a task has failed, and if none has,
`BlockedInv` leaves no task undone; a hook that fails adds an error. It delimits the violation of section 4: without a
mark, the exit status hides no failure.

### GoTasksProofs, WatchProofs, CacheProofs

`BatchInv` follows a request: in the channel, or its package in `packages` with the
timer running or the build begun; and a caller between its registration and its wait
finds `doneCh` open. `Prompt` is what excludes that the timer has fired in between.

For `BuilderRefinement`, the lemmas of `ExecutorProofs` are instantiated for the
executor of `GoTasks`, whose steps are those of `Executor` (`ExecutorHolds`).
`CancelInv` says that `canceled` is the callers inside `Build` whose worker's context
is cancelled, and `RunsKeepOn` that a running worker keeps its task and that a
cancelled run stays cancelled: so whatever the executor does is a step of `Cancel` or
stutters, for `GoBuilder`. That a task calls `Build` again only when its last call
has returned is part of `TaskReturns`, which waits for that; what the executor owes is that
no second worker has the task meanwhile (`GOneRunAtATime`). `NoLostBuild` and
`AnswersItsBatch` of the composition are then the theorems about `GoBuilder`, carried
over by the refinement.

`EditsAreKnown` is inductive with `ImportInv`: what `ShouldInvalidate` knows of a
package is what it imports, or nothing yet. Each step moves an edit one stage on.
A step that ends a run either finds its task not reset, or is cancelled and leaves the
state alone, or makes the task `overtaken`. `OnlyOvertakenHang` is inductive with a
`TokenInv` of `Watch`: a task that is neither invalid nor overtaken has a worker, or
its element in `terminalCh`. `EarlyEndIsAnError` needs `CommandInv` and
`ReturnInv`, about the two goroutines
of the watcher's errgroup.

`SnapshotInv` says what a snapshot on disk is: what it does not list as uncommitted
was as in its commit, and a file that still has the time of modification it notes
has not been written since, which needs a clock (`ClockInv`). The theorems
on diffs follow from it by cases on git's lists. `FreshInv` carries what the last
successful run saw from the end of one session to the first run in the next.

### StartupProofs

`StartInv` has a part for each module, and a step of `Startup` is a step of each or
leaves its variables alone (`FlagsNext`, `ConfigNext`, `DagNext`).

* `GroupsInv`: for each task there is a place, its last mention so far, from which its
  flags have been collected, or were stored up to the next word. It is
  about positions in the arguments, so that no induction over them is needed:
  the argument that is added to the end is the only case.
* `LastValueUnderBothNames` is about the loop of `parseTaskFlagsIntoMap`, which `Parsed`
  has as a recursive function: its value after n flags is the default, or that of the
  last one that gives a value, under every name (`MapUpTo`). The induction over n is
  by the least number for which this would be false (`LeastNatural`, which follows from
  the library's theorem on well-founded relations; the library's induction rules take
  an operator, which the provers cannot instantiate). That the loop defines a function at
  all is proved in the same way (`ParsedIs`). A step writes both names of a flag
  (`OtherNameIs`) and those of no other, by `KeysAreUnambiguous`.
* `ConfigInv`: on the way down all files but the last are read and none is broken, and
  on the way up `config` is what the files from `at` on amount to (`Merged`).
* `DagOK` says of each frame what the call has done so far: its dependencies have been
  visited and linked, or are in `left`; what it has collected is closed under
  dependencies and below its task; and each frame's task is below that of the frame
  it was called from. As nothing is below itself (`NotBelowItself`, the
  only place where acyclicity is used), a task that is being visited is not visited
  again, and is in nobody's dependencies yet. Of an execution in the set it says that its
  `dependencies` are all that is below it, and that its `dependents` are those in the set,
  or of frames that are still to finish. `DagAdd`, `DagCall`, `DagLink` and `DagReturn` are
  the steps, stated about values before and after.
* `StageInv`: what `Run` knows when it comes to a stage. From `dag` on, `Chosen` is
  what was added and what is still to be added (`ChoiceInv`).

### Only model-checked

Every invariant and every action property that a passing run checks is a theorem, for the
hypotheses of the table. What is left to TLC:

* Liveness under fairness: `RunReturns`, `KeepAliveRunsAgain`, `BuildReturns`,
  `InterruptEndsRun`, `CanceledRunEnds`, `EditsAreMarked`, `WatcherEnds`,
  `RunnerEnds`. The prover reasons neither on fairness nor on `ENABLED`.
* The properties of section 4, which the code violates.

## 6. Plan

The model is complete but for section 7, and all safety properties of the passing runs
are proved. What could follow is that `OwedRunComes` is violated by nothing but the late
write: as a theorem about an executor whose `Flush` is done under the lock, which would
be the proof of a repair.

## 7. What is not modelled

* The terminal interface, but for its subscription and its restart key; its
  layout is an external library's.
* The line buffering and the prefixes of `clireporter`, the fifty lines that
  `buildkitereporter` keeps and its text: sequential, about layout.
* The shell interpreter. That a command ends when its context is cancelled is an
  assumption.
* What a glob matches (`Sources`, `Ignored`, `External`), the JSON of a
  configuration, and the flags of a file event, which nobody reads.
* Formatting, help text and logging.
* The dependencies under `vendor/` appear only as what the code relies on:
  `errgroup` (`Wait` returns the first error when all goroutines have left),
  `context`, `os/exec`, timers and channels.
* Cyclic dependencies never yield a DAG (`add` does not return).
