----------------------------- MODULE WatchProofs -----------------------------
(***************************************************************************)
(* Theorems about Watch and Watcher, for any files, tasks, tool, blanks in *)
(* names and sizes of the pipe and of the channel.                         *)
(***************************************************************************)
EXTENDS Watch, TLAPS

USE DEF toolVars, groupVars, chVars, watcherVars, callVars, stateVars, workerVars, planVars,
        taskVars, goVars, history

-----------------------------------------------------------------------------
(* Types *)

LEMMA InitType == Init => TypeOK
<1> SUFFICES ASSUME Init PROVE TypeOK
  OBVIOUS
<1>1. WTypeOK
  <2>1. <<>> \in Seq(Files) /\ <<>> \in Seq(Files \cup {Torn}) /\ Len(<<>>) = 0
    OBVIOUS
  <2>2. Len(pipe) <= PipeSize /\ Len(eventsCh) <= EventsSize
    BY <2>1, WatcherAssumption DEF Init, WInit
  <2>3. QED BY <2>1, <2>2 DEF Init, WInit, WTypeOK, Goroutines
<1>2. /\ imported \in [GoTasks -> SUBSET GoFiles]
      /\ deps \in [GoTasks -> (SUBSET GoFiles) \cup {Unknown}]
  BY WatchAssumption DEF Init
<1>3. QED BY <1>1, <1>2 DEF Init, TypeOK

LEMMA WatcherType ==
  ASSUME WTypeOK, WatcherStep \/ Interrupt
  PROVE  WTypeOK'
<1> USE WatcherAssumption DEF WTypeOK, Goroutines
<1>1. CASE ToolStarts \/ ToolExits
  BY <1>1 DEF ToolStarts, ToolExits, ToolOver
<1>2. ASSUME NEW f \in Files, ToolPrints(f) PROVE WTypeOK'
  <2>1. pipe' \in Seq(Files \cup {Torn}) /\ Len(pipe') = Len(pipe) + 1
    BY <1>2 DEF ToolPrints
  <2>2. QED BY <1>2, <2>1 DEF ToolPrints
<1>8. CASE SkipLine
  <2>1. /\ pipe # <<>> /\ pipe' = <<Torn>> \o Tail(pipe)
        /\ UNCHANGED <<toolVars, readable, chVars, groupVars, rootDone, run>>
    BY <1>8 DEF SkipLine
  <2>2. Tail(pipe) \in Seq(Files \cup {Torn}) /\ Len(Tail(pipe)) = Len(pipe) - 1
    BY <2>1
  <2>3. <<Torn>> \in Seq(Files \cup {Torn}) /\ Len(<<Torn>>) = 1
    OBVIOUS
  <2>4. pipe' \in Seq(Files \cup {Torn}) /\ Len(pipe') = Len(pipe)
    BY <2>1, <2>2, <2>3
  <2>5. QED BY <2>1, <2>4
<1>3. CASE ScanLine
  <2>1. pipe' \in Seq(Files \cup {Torn}) /\ Len(pipe') <= Len(pipe)
    BY <1>3 DEF ScanLine
  <2>2. Head(pipe) \in Files \cup {Torn}
    BY <1>3 DEF ScanLine
  <2>3. \A f \in Files : EventsOf(f) \subseteq Seq(Files)
    <3>1. \A f \in Files : <<f>> \in Seq(Files) /\ <<f, f>> \in Seq(Files)
      OBVIOUS
    <3>2. <<>> \in Seq(Files) /\ <<Misread>> \in Seq(Files)
      OBVIOUS
    <3>3. \A f \in Files : EventsOf(f) \subseteq {<<>>, <<Misread>>, <<f>>, <<f, f>>}
      BY DEF EventsOf
    <3>4. QED BY <3>1, <3>2, <3>3
  <2>4. rest' \in Seq(Files)
    BY <1>3, <2>2, <2>3 DEF ScanLine, Unreadable
  <2>5. Len(pipe') <= PipeSize
    <3>1. Len(pipe) \in Nat /\ Len(pipe') \in Nat
      BY <2>1
    <3>2. QED BY <2>1, <3>1
  <2>6. /\ ended' \subseteq Goroutines /\ gerr' \in BOOLEAN
        /\ UNCHANGED <<tool, dirty, readable, eventsCh, closed, rootDone, run>>
    BY <1>3 DEF ScanLine, GoReturns
  <2>7. QED BY <2>1, <2>4, <2>5, <2>6
<1>4. CASE ScanEnds
  BY <1>4 DEF ScanEnds, GoReturns
<1>5. CASE SendEvent
  <2>1. eventsCh' \in Seq(Files) /\ Len(eventsCh') = Len(eventsCh) + 1 /\ rest' \in Seq(Files)
    BY <1>5 DEF SendEvent
  <2>2. QED BY <1>5, <2>1 DEF SendEvent, Room
<1>6. CASE CommandReturns \/ RunReturns
  BY <1>6 DEF CommandReturns, RunReturns, GoReturns, CommandFailed
<1>7. CASE Interrupt
  BY <1>7 DEF Interrupt
<1>9. QED BY <1>1, <1>2, <1>3, <1>4, <1>5, <1>6, <1>7, <1>8 DEF WatcherStep, ScannerStep

LEMMA NextType == TypeOK /\ [Next]_vars => TypeOK'
<1> SUFFICES ASSUME TypeOK, [Next]_vars PROVE TypeOK'
  OBVIOUS
<1> USE WatchAssumption
<1>1. CASE (WatcherStep \/ Interrupt) /\ Apart
  BY <1>1, WatcherType DEF TypeOK, Apart
<1>2. CASE Dispatch
  <2>1. eventsCh' \in Seq(Files) /\ Len(eventsCh') <= Len(eventsCh) /\ Head(eventsCh) \in Files
    BY <1>2 DEF Dispatch, TypeOK, WTypeOK
  <2>2. WTypeOK'
    BY <1>2, <2>1, WatcherAssumption DEF Dispatch, TypeOK, WTypeOK
  <2>3. QED BY <1>2, <2>1, <2>2 DEF Dispatch, TypeOK
<1>3. CASE RunBuild \/ Collect
  BY <1>3 DEF RunBuild, Collect, TypeOK, WTypeOK
<1>4. ASSUME NEW t \in Tasks, NEW f \in Files, Invalidate(t, f) PROVE TypeOK'
  BY <1>4 DEF Invalidate, TypeOK, WTypeOK
<1>5. ASSUME NEW t \in Tasks, Plan(t) PROVE TypeOK'
  <2>1. CASE SkipInvalidate(t)
    BY <2>1 DEF SkipInvalidate, AtTask, TypeOK, WTypeOK
  <2>2. CASE ResetRun(t)
    BY <2>2 DEF ResetRun, AtTask, TypeOK, WTypeOK
  <2>3. CASE DrainRun(t)
    BY <2>3 DEF DrainRun, TypeOK, WTypeOK
  <2>4. QED BY <1>5, <2>1, <2>2, <2>3 DEF Plan
<1>6. ASSUME NEW t \in Tasks, Run(t) PROVE TypeOK'
  <2>1. CASE Launch(t)
    BY <2>1 DEF Launch, TypeOK, WTypeOK
  <2>2. CASE Begin(t)
    BY <2>2 DEF Begin, TypeOK, WTypeOK
  <2>3. CASE SaveDependencies(t)
    BY <2>3 DEF SaveDependencies, TypeOK, WTypeOK
  <2>4. CASE Return(t)
    BY <2>4 DEF Return, TypeOK, WTypeOK
  <2>5. CASE Flush(t)
    BY <2>5 DEF Flush, Outcome, TypeOK, WTypeOK
  <2>6. CASE SendTerminal(t)
    BY <2>6 DEF SendTerminal, TypeOK, WTypeOK
  <2>7. QED BY <1>6, <2>1, <2>2, <2>3, <2>4, <2>5, <2>6 DEF Run
<1>7. ASSUME NEW f \in Files, Edit(f) PROVE TypeOK'
  BY <1>7 DEF Edit, TypeOK, WTypeOK
<1>8. CASE UNCHANGED vars
  BY <1>8 DEF vars, TypeOK, WTypeOK
<1>9. QED BY <1>1, <1>2, <1>3, <1>4, <1>5, <1>6, <1>7, <1>8 DEF Next

\* Every variable keeps its type.
THEOREM TypeCorrect == Spec => []TypeOK
<1>1. QED BY InitType, NextType, PTL DEF Spec

-----------------------------------------------------------------------------
(* The end of the watcher *)

\* A tool that failed, by itself or because it was killed, has made cmd.Run fail.
CommandInv == "command" \in ended => gerr \/ tool = "clean"
ReturnInv == run = "returned" => "command" \in ended

\* The Run of a watcher that ends while the session goes on returns an error, unless
\* the tool itself ended as if all were well (watch.go:49).
THEOREM EarlyEndReturnsAnError == Spec => []EarlyEndIsAnError
<1> DEFINE I == TypeOK /\ CommandInv /\ ReturnInv
<1>1. Init => I
  BY InitType DEF Init, WInit, CommandInv, ReturnInv
<1>2. I /\ [Next]_vars => I'
  <2> SUFFICES ASSUME I, [Next]_vars PROVE (CommandInv /\ ReturnInv)'
    BY NextType
  <2> USE DEF TypeOK, WTypeOK, CommandInv, ReturnInv, Goroutines
  <2>1. CASE WatcherStep /\ Apart
    <3>1. CASE ToolStarts \/ ToolExits \/ \E f \in Files : ToolPrints(f)
      BY <3>1 DEF ToolStarts, ToolExits, ToolPrints, ToolOver
    <3>2. CASE ScannerStep
      BY <3>2 DEF ScannerStep, SkipLine, ScanLine, ScanEnds, SendEvent, GoReturns
    <3>3. CASE CommandReturns
      BY <3>3 DEF CommandReturns, GoReturns, CommandFailed, ToolOver
    <3>4. CASE RunReturns
      BY <3>4 DEF RunReturns
    <3>5. QED BY <2>1, <3>1, <3>2, <3>3, <3>4 DEF WatcherStep
  <2>2. CASE Interrupt /\ Apart
    BY <2>2 DEF Interrupt
  <2>3. ASSUME NEW t \in Tasks, Plan(t) \/ Run(t) \/ \E f \in Files : Invalidate(t, f)
        PROVE  (CommandInv /\ ReturnInv)'
    BY <2>3 DEF Plan, SkipInvalidate, ResetRun, DrainRun, Run, Launch, Begin, SaveDependencies,
       Return, Flush, SendTerminal, Invalidate
  <2>4. CASE Dispatch \/ RunBuild \/ Collect \/ (\E f \in Files : Edit(f)) \/ UNCHANGED vars
    BY <2>4 DEF Dispatch, RunBuild, Collect, Edit, vars
  <2>5. QED BY <2>1, <2>2, <2>3, <2>4 DEF Next
<1>3. I => EarlyEndIsAnError
  BY DEF CommandInv, ReturnInv, EarlyEndIsAnError
<1>4. QED BY <1>1, <1>2, <1>3, PTL DEF Spec

-----------------------------------------------------------------------------
(* No edit is lost *)

\* go list and the paths of the files say of every file what it is imported by: the
\* imports of a package stay what they are, its files have its import path in their
\* own, and the last line of the list is not one of them (builder.go:158).
ImportsAreListed ==
  /\ ~ NewImports
  /\ \A t \in GoTasks : /\ Own[t] \cup Imported[t] \subseteq Located
                        /\ Imported[t] \cap LastListed = {}

\* What ShouldInvalidate knows is what the package imports, or nothing; and a run
\* has begun only with Executor.tasks set, without which no event is matched.  A task
\* whose run a plan waits for is reset, unless the run's end has been written over it.
ImportInv ==
  /\ \A t \in GoTasks : imported[t] = Imported[t] /\ deps[t] \in {Unknown, Imported[t]}
  /\ ~ tasks => \A t \in Tasks : state[t] = "invalid" /\ worker[t] = "none"
  /\ \A t \in draining : state[t] = "invalid" \/ t \in overtaken \/ rootDone

LEMMA ImportStep ==
  ASSUME ImportsAreListed, TypeOK, ImportInv, [Next]_vars
  PROVE  ImportInv'
<1> USE WatchAssumption DEF TypeOK, ImportInv
<1>1. ASSUME NEW t \in Tasks, Plan(t) PROVE ImportInv'
  <2>1. CASE SkipInvalidate(t)
    BY <2>1 DEF SkipInvalidate, AtTask
  <2>2. CASE ResetRun(t)
    BY <2>2 DEF ResetRun, AtTask
  <2>3. CASE DrainRun(t)
    BY <2>3 DEF DrainRun
  <2>4. QED BY <1>1, <2>1, <2>2, <2>3 DEF Plan
<1>2. ASSUME NEW t \in Tasks, Run(t) PROVE ImportInv'
  <2>1. CASE Launch(t)
    <3>1. draining = {}
      BY <2>1 DEF Launch, Planning
    <3>2. QED BY <2>1, <3>1 DEF Launch
  <2>2. CASE Begin(t)
    BY <2>2 DEF Begin
  <2>3. CASE SaveDependencies(t)
    <3>1. t \in GoTasks => Imported[t] \ LastListed = Imported[t]
      BY DEF ImportsAreListed
    <3>2. QED BY <2>3, <3>1 DEF SaveDependencies
  <2>4. CASE Return(t)
    BY <2>4 DEF Return
  <2>5. CASE Flush(t)
    <3>1. tasks
      BY <2>5 DEF Flush
    <3>2. ASSUME NEW u \in draining PROVE (state[u] = "invalid" \/ u \in overtaken \/ rootDone)'
      BY <2>5, <3>2 DEF Flush, Outcome
    <3>3. QED BY <2>5, <3>1, <3>2 DEF Flush
  <2>6. CASE SendTerminal(t)
    BY <2>6 DEF SendTerminal
  <2>7. QED BY <1>2, <2>1, <2>2, <2>3, <2>4, <2>5, <2>6 DEF Run
<1>3. ASSUME NEW f \in Files, Edit(f) PROVE ImportInv'
  BY <1>3 DEF Edit
<1>4. CASE Dispatch \/ RunBuild \/ Collect \/ (\E t \in Tasks, f \in Files : Invalidate(t, f))
  <2>1. UNCHANGED <<imported, deps, state, worker, draining, overtaken, rootDone>>
    BY <1>4 DEF Dispatch, RunBuild, Collect, Invalidate
  <2>2. tasks => tasks'
    BY <1>4 DEF Dispatch, RunBuild, Collect, Invalidate
  <2>3. QED BY <2>1, <2>2
<1>5. CASE (WatcherStep \/ Interrupt) /\ Apart
  <2>1. rootDone => rootDone'
    BY <1>5 DEF WatcherStep, ToolStarts, ToolExits, ToolPrints, ScannerStep, SkipLine, ScanLine,
       ScanEnds, SendEvent, CommandReturns, RunReturns, Interrupt
  <2>2. QED BY <1>5, <2>1 DEF Apart
<1>6. CASE UNCHANGED vars
  BY <1>6 DEF vars
<1>7. QED BY <1>1, <1>2, <1>3, <1>4, <1>5, <1>6 DEF Next

\* ShouldInvalidate lets a file through that the task is made from.
LEMMA SourcesAreAccepted ==
  ASSUME ImportsAreListed, ImportInv,
         NEW t \in Tasks, NEW f \in Files, Reads(t, f)
  PROVE  ShouldInvalidate(t, f)
  BY DEF ImportsAreListed, ImportInv, Reads, ShouldInvalidate, Accepts

\* A step of the watcher keeps what is in flight, or ends the watcher.
LEMMA FlightStep ==
  ASSUME TypeOK, WatcherStep \/ Interrupt, NEW f \in Named, InFlight(f) \/ Deaf
  PROVE  (InFlight(f) \/ Deaf)'
<1> USE WatcherAssumption DEF TypeOK, WTypeOK, Named
<1>1. CASE Deaf
  BY <1>1 DEF Deaf, GroupDone, ToolOver, WatcherStep, ToolStarts, ToolExits, ToolPrints, ScannerStep,
     SkipLine, ScanLine, ScanEnds, SendEvent, GoReturns, CommandReturns, RunReturns, Interrupt
<1>2. CASE InFlight(f)
  <2>1. CASE ToolStarts \/ ToolExits \/ ScanEnds \/ CommandReturns \/ RunReturns \/ Interrupt
    BY <1>2, <2>1 DEF InFlight, ToolStarts, ToolExits, ScanEnds, CommandReturns, RunReturns, Interrupt
  <2>2. ASSUME NEW g \in Files, ToolPrints(g) PROVE InFlight(f)'
    <3>1. /\ pipe' = Append(pipe, g) /\ dirty' = dirty \ {g}
          /\ UNCHANGED <<rest, eventsCh>>
      BY <2>2 DEF ToolPrints
    <3>2. pipe'[Len(pipe) + 1] = g /\ Len(pipe) + 1 \in DOMAIN pipe'
      BY <3>1
    <3>3. \A i \in DOMAIN pipe : i \in DOMAIN pipe' /\ pipe'[i] = pipe[i]
      BY <3>1
    <3>4. CASE f = g
      BY <3>2, <3>4 DEF InFlight
    <3>5. CASE f # g /\ f \in dirty
      BY <3>1, <3>5 DEF InFlight
    <3>6. CASE \E i \in DOMAIN pipe : pipe[i] = f
      BY <3>3, <3>6 DEF InFlight
    <3>7. CASE \E i \in DOMAIN rest : rest[i] = f
      BY <3>1, <3>7 DEF InFlight
    <3>8. CASE \E i \in DOMAIN eventsCh : eventsCh[i] = f
      BY <3>1, <3>8 DEF InFlight
    <3>9. QED BY <1>2, <3>4, <3>5, <3>6, <3>7, <3>8 DEF InFlight
  <2>3. CASE ScanLine
    <3>1. /\ pipe # <<>> /\ rest = <<>> /\ pipe' = Tail(pipe)
          /\ UNCHANGED <<dirty, eventsCh>>
      BY <2>3 DEF ScanLine, Scanning
    <3>2. CASE Unreadable(Head(pipe))
      BY <2>3, <3>2 DEF ScanLine, GoReturns, Deaf, GroupDone
    <3>3. CASE ~ Unreadable(Head(pipe))
      <4>1. rest' \in EventsOf(Head(pipe))
        BY <2>3, <3>3 DEF ScanLine
      <4>2. CASE Head(pipe) = f
        <5>1. rest' = <<f>> \/ rest' = <<f, f>>
          BY <4>1, <4>2 DEF EventsOf
        <5>2. 1 \in DOMAIN rest' /\ rest'[1] = f
          BY <5>1
        <5>3. QED BY <5>2 DEF InFlight
      <4>3. CASE Head(pipe) # f
        <5>1. CASE \E i \in DOMAIN pipe : pipe[i] = f
          <6>1. PICK i \in DOMAIN pipe : pipe[i] = f
            BY <5>1
          <6>2. i \in 1..Len(pipe) /\ i # 1
            BY <4>3, <6>1, <3>1
          <6>3. i - 1 \in DOMAIN Tail(pipe) /\ Tail(pipe)[i - 1] = f
            BY <6>1, <6>2, <3>1
          <6>4. QED BY <3>1, <6>3 DEF InFlight
        <5>2. CASE f \in dirty \/ \E i \in DOMAIN eventsCh : eventsCh[i] = f
          BY <3>1, <5>2 DEF InFlight
        <5>3. QED BY <1>2, <3>1, <5>1, <5>2 DEF InFlight
      <4>4. QED BY <4>2, <4>3
    <3>4. QED BY <3>2, <3>3
  <2>4. CASE SendEvent
    <3>1. /\ rest # <<>> /\ eventsCh' = Append(eventsCh, Head(rest)) /\ rest' = Tail(rest)
          /\ UNCHANGED <<dirty, pipe>>
      BY <2>4 DEF SendEvent
    <3>2. \A i \in DOMAIN eventsCh : i \in DOMAIN eventsCh' /\ eventsCh'[i] = eventsCh[i]
      BY <3>1
    <3>3. ASSUME NEW i \in DOMAIN rest, rest[i] = f PROVE InFlight(f)'
      <4>1. CASE i = 1
        <5>1. Len(eventsCh) + 1 \in DOMAIN eventsCh' /\ eventsCh'[Len(eventsCh) + 1] = f
          BY <3>1, <3>3, <4>1
        <5>2. QED BY <5>1 DEF InFlight
      <4>2. CASE i # 1
        <5>1. i - 1 \in DOMAIN Tail(rest) /\ Tail(rest)[i - 1] = f
          BY <3>1, <3>3, <4>2
        <5>2. QED BY <3>1, <5>1 DEF InFlight
      <4>3. QED BY <4>1, <4>2
    <3>4. CASE f \in dirty \/ \E i \in DOMAIN pipe : pipe[i] = f
      BY <3>1, <3>4 DEF InFlight
    <3>5. CASE \E i \in DOMAIN eventsCh : eventsCh[i] = f
      BY <3>2, <3>5 DEF InFlight
    <3>6. QED BY <1>2, <3>3, <3>4, <3>5 DEF InFlight
  <2>5. CASE SkipLine
    <3>1. /\ pipe # <<>> /\ Head(pipe) \in Broken /\ pipe' = <<Torn>> \o Tail(pipe)
          /\ UNCHANGED <<dirty, rest, eventsCh>>
      BY <2>5 DEF SkipLine
    <3>2. ASSUME NEW i \in DOMAIN pipe, pipe[i] = f PROVE InFlight(f)'
      <4>1. i \in 1..Len(pipe) /\ i # 1
        BY <3>1, <3>2
      <4>2. Len(Tail(pipe)) = Len(pipe) - 1 /\ Tail(pipe)[i - 1] = f
        BY <3>1, <3>2, <4>1
      <4>3. i \in DOMAIN pipe' /\ pipe'[i] = f
        BY <3>1, <4>1, <4>2
      <4>4. QED BY <4>3 DEF InFlight
    <3>3. QED BY <1>2, <3>1, <3>2 DEF InFlight
  <2>6. QED BY <2>1, <2>2, <2>3, <2>4, <2>5 DEF WatcherStep, ScannerStep
<1>3. QED BY <1>1, <1>2

LEMMA KnownStep ==
  ASSUME ImportsAreListed, TypeOK, ImportInv, EditsAreKnown, [Next]_vars
  PROVE  EditsAreKnown'
<1> SUFFICES ASSUME NEW t \in Tasks, NEW f \in Named, Outdated(t, f)', Reads(t, f)'
             PROVE  Known(t, f)'
  BY DEF EditsAreKnown
<1> USE DEF TypeOK, WTypeOK, Known, Named
<1>0. Reads(t, f)
  <2>1. ImportInv'
    BY ImportStep
  <2>2. QED BY <2>1 DEF ImportInv, Reads, IsTaskSource
<1>1. Outdated(t, f) => Known(t, f)
  BY <1>0 DEF EditsAreKnown
<1>2. CASE (WatcherStep \/ Interrupt) /\ Apart
  <2>1. Known(t, f)
    BY <1>1, <1>2 DEF Apart, Outdated
  <2>2. CASE InFlight(f) \/ Deaf
    BY <1>2, <2>2, FlightStep
  <2>3. CASE <<t, f>> \in calls \/ t \in pending
    BY <1>2, <2>3 DEF Apart
  <2>4. QED BY <2>1, <2>2, <2>3
<1>3. CASE Dispatch
  <2>1. /\ Known(t, f) /\ eventsCh # <<>> /\ eventsCh' = Tail(eventsCh)
        /\ calls \subseteq calls'
        /\ UNCHANGED <<dirty, pipe, rest, pending, tool, gerr, rootDone>>
    BY <1>1, <1>3 DEF Dispatch, Outdated
  <2>2. ASSUME NEW i \in DOMAIN eventsCh, eventsCh[i] = f PROVE Known(t, f)'
    <3>1. CASE i = 1
      <4>1. tasks
        BY <1>3 DEF ImportInv, Dispatch, Outdated
      <4>2. <<t, f>> \in calls'
        BY <1>0, <1>3, <2>2, <3>1, <4>1 DEF Dispatch, Reads
      <4>3. QED BY <4>2
    <3>2. CASE i # 1
      <4>1. i - 1 \in DOMAIN Tail(eventsCh) /\ Tail(eventsCh)[i - 1] = f
        BY <2>1, <2>2, <3>2
      <4>2. QED BY <2>1, <4>1 DEF InFlight
    <3>3. QED BY <3>1, <3>2
  <2>3. QED BY <2>1, <2>2 DEF InFlight, Deaf, GroupDone, ToolOver
<1>4. ASSUME NEW u \in Tasks, NEW g \in Files, Invalidate(u, g) PROVE Known(t, f)'
  <2>1. /\ Known(t, f) /\ pending \subseteq pending' /\ calls' = calls \ {<<u, g>>}
        /\ UNCHANGED <<dirty, pipe, rest, eventsCh, tool, gerr, rootDone>>
    BY <1>1, <1>4 DEF Invalidate, Outdated
  <2>2. CASE u = t /\ g = f
    <3>1. ShouldInvalidate(t, f)
      BY <1>0, SourcesAreAccepted
    <3>2. t \in pending'
      BY <1>4, <2>2, <3>1 DEF Invalidate, Markable, Outdated
    <3>3. QED BY <3>2
  <2>3. CASE ~ (u = t /\ g = f)
    BY <2>1, <2>3 DEF InFlight, Deaf, GroupDone, ToolOver
  <2>4. QED BY <2>2, <2>3
<1>5. ASSUME NEW u \in Tasks, Plan(u) \/ Run(u) PROVE Known(t, f)'
  <2>1. UNCHANGED <<dirty, pipe, rest, eventsCh, tool, gerr, rootDone, calls>>
    BY <1>5 DEF Plan, SkipInvalidate, ResetRun, DrainRun, Run, Launch, Begin, SaveDependencies,
       Return, Flush, SendTerminal
  <2>2. CASE Plan(u)
    <3>1. CASE SkipInvalidate(u) \/ ResetRun(u)
      BY <1>1, <2>1, <3>1 DEF SkipInvalidate, ResetRun, AtTask, Outdated, InFlight, Deaf, GroupDone, ToolOver
    <3>2. CASE DrainRun(u)
      <4>1. Outdated(t, f) /\ (t = u => rootDone)
        BY <3>2 DEF DrainRun, Outdated, ImportInv
      <4>2. t # u => (t \in pending => t \in pending')
        BY <3>2 DEF DrainRun
      <4>3. QED BY <1>1, <2>1, <4>1, <4>2 DEF InFlight, Deaf, GroupDone, ToolOver
    <3>3. QED BY <2>2, <3>1, <3>2 DEF Plan
  <2>3. CASE Run(u)
    <3>1. UNCHANGED pending
      BY <2>3 DEF Run, Launch, Begin, SaveDependencies, Return, Flush, SendTerminal
    <3>2. rootDone \/ Outdated(t, f)
      <4>1. CASE Launch(u)
        BY <4>1 DEF Launch, Outdated
      <4>2. CASE Begin(u)
        BY <4>2 DEF Begin, Outdated
      <4>3. CASE SaveDependencies(u) \/ Return(u) \/ SendTerminal(u)
        BY <4>3 DEF SaveDependencies, Return, SendTerminal, Outdated
      <4>4. CASE Flush(u)
        <5>1. t \notin overtaken /\ <<t, f>> \in stale \ blind /\ worker[t] # "launched"
          BY <4>4 DEF Flush, Outdated
        <5>2. rootDone \/ state[t] # "invalid"
          <6>1. CASE u = t
            <7>1. state[t] = "invalid" => worker[t] = "stopped"
              BY <4>4, <6>1 DEF Flush, Outdated
            <7>2. worker[t] = "stopped" /\ ~ rootDone => state'[t] = state[t]
              BY <4>4, <6>1 DEF Flush, Outcome
            <7>3. QED BY <7>1, <7>2 DEF Outdated
          <6>2. CASE u # t
            BY <4>4, <6>2 DEF Flush, Outdated
          <6>3. QED BY <6>1, <6>2
        <5>3. QED BY <5>1, <5>2 DEF Outdated
      <4>5. QED BY <2>3, <4>1, <4>2, <4>3, <4>4 DEF Run
    <3>3. QED BY <1>1, <2>1, <3>1, <3>2 DEF InFlight, Deaf, GroupDone, ToolOver
  <2>4. QED BY <1>5, <2>2, <2>3
<1>6. ASSUME NEW g \in Files, Edit(g) PROVE Known(t, f)'
  <2>1. /\ UNCHANGED <<pipe, rest, eventsCh, tool, gerr, rootDone, calls, pending, state, worker,
                       overtaken>>
        /\ dirty \subseteq dirty'
    BY <1>6 DEF Edit
  <2>2. CASE g = f
    <3>1. tool # "starting"
      BY <1>6, <2>2 DEF Edit, Outdated
    <3>2. CASE tool = "watching"
      BY <1>6, <2>2, <3>2 DEF Edit, InFlight
    <3>3. QED BY <2>1, <3>1, <3>2 DEF Deaf, ToolOver
  <2>3. CASE g # f
    <3>1. Outdated(t, f)
      BY <1>6, <2>3 DEF Edit, Outdated
    <3>2. QED BY <1>1, <2>1, <3>1 DEF InFlight, Deaf, GroupDone, ToolOver
  <2>4. QED BY <2>2, <2>3
<1>7. CASE RunBuild \/ Collect \/ UNCHANGED vars
  BY <1>1, <1>7 DEF RunBuild, Collect, vars, Outdated, InFlight, Deaf, GroupDone, ToolOver
<1>8. QED BY <1>2, <1>3, <1>4, <1>5, <1>6, <1>7 DEF Next

\* No edit is lost on its way from the tool to a plan, but to a run that ends as a plan
\* resets it: while the watcher lives, any other run that is or was on older sources is
\* known to have to be repeated.
THEOREM EditsAreLostToLateWritesOnly == ASSUME ImportsAreListed PROVE Spec => []EditsAreKnown
<1> DEFINE I == TypeOK /\ ImportInv /\ EditsAreKnown
<1>1. Init => I
  <2> SUFFICES ASSUME Init PROVE ImportInv /\ EditsAreKnown
    BY InitType
  <2>1. ImportInv
    BY DEF Init, ImportInv, ImportsAreListed
  <2>2. EditsAreKnown
    BY DEF Init, EditsAreKnown, Outdated
  <2>3. QED BY <2>1, <2>2
<1>2. I /\ [Next]_vars => I'
  BY NextType, ImportStep, KnownStep
<1>3. QED BY <1>1, <1>2, PTL DEF Spec

-----------------------------------------------------------------------------
(* Which plans wait for ever *)

\* A run that has not been started over is there, or its token: only a reset takes the
\* token, and leaves a state to which a plan does not come, or over which a late write
\* has come.
TokenInv ==
  /\ \A t \in Tasks : state[t] \in {"running", "error", "done"} =>
       worker[t] # "none" \/ t \in terminalCh \/ t \in overtaken
  /\ \A t \in draining : state[t] \in {"invalid", "canceled"} \/ t \in overtaken
  /\ \A t \in Tasks : state[t] = "canceled" => worker[t] \in {"flushed", "none"}

LEMMA TokenStep ==
  ASSUME TypeOK, OnlyOvertakenHang, TokenInv, [Next]_vars
  PROVE  OnlyOvertakenHang' /\ TokenInv'
<1> USE DEF TypeOK, OnlyOvertakenHang, TokenInv
<1>1. ASSUME NEW t \in Tasks, Plan(t) PROVE OnlyOvertakenHang' /\ TokenInv'
  <2>1. CASE SkipInvalidate(t)
    BY <2>1 DEF SkipInvalidate
  <2>2. CASE ResetRun(t)
    BY <2>2 DEF ResetRun
  <2>3. CASE DrainRun(t)
    BY <2>3 DEF DrainRun
  <2>4. QED BY <1>1, <2>1, <2>2, <2>3 DEF Plan
<1>2. ASSUME NEW t \in Tasks, Run(t) PROVE OnlyOvertakenHang' /\ TokenInv'
  <2>1. CASE Launch(t)
    <3>1. draining = {}
      BY <2>1 DEF Launch, Planning
    <3>2. QED BY <2>1, <3>1 DEF Launch
  <2>2. CASE Begin(t)
    BY <2>2 DEF Begin
  <2>3. CASE SaveDependencies(t)
    BY <2>3 DEF SaveDependencies
  <2>4. CASE Return(t)
    BY <2>4 DEF Return
  <2>5. CASE Flush(t)
    <3>1. worker' = [worker EXCEPT ![t] = "flushed"] /\ UNCHANGED <<draining, terminalCh>>
      BY <2>5 DEF Flush
    <3>2. overtaken \subseteq overtaken' /\ \A u \in Tasks \ {t} : state'[u] = state[u]
      BY <2>5 DEF Flush
    <3>3. t \in draining => state'[t] \in {"invalid", "canceled"} \/ t \in overtaken'
      BY <2>5 DEF Flush, Outcome
    <3>4. QED BY <3>1, <3>2, <3>3
  <2>6. CASE SendTerminal(t)
    BY <2>6 DEF SendTerminal
  <2>7. QED BY <1>2, <2>1, <2>2, <2>3, <2>4, <2>5, <2>6 DEF Run
<1>3. CASE Dispatch \/ RunBuild \/ Collect \/ (\E t \in Tasks, f \in Files : Invalidate(t, f))
  BY <1>3 DEF Dispatch, RunBuild, Collect, Invalidate
<1>4. CASE ((WatcherStep \/ Interrupt) /\ Apart) \/ (\E f \in Files : Edit(f)) \/ UNCHANGED vars
  BY <1>4 DEF Apart, Edit, vars
<1>5. QED BY <1>1, <1>2, <1>3, <1>4 DEF Next

\* A plan waits for a run that will answer, so that Executor.mu comes free again, unless
\* the end of an earlier run was written over the reset that asked for it.
THEOREM OnlyLateWritesHangPlans == Spec => []OnlyOvertakenHang
<1>1. Init => OnlyOvertakenHang /\ TokenInv
  BY DEF Init, OnlyOvertakenHang, TokenInv
<1>2. TypeOK /\ OnlyOvertakenHang /\ TokenInv /\ [Next]_vars => OnlyOvertakenHang' /\ TokenInv'
  BY TokenStep
<1>3. QED BY TypeCorrect, <1>1, <1>2, PTL DEF Spec
=============================================================================
