------------------------------ MODULE Watcher ------------------------------
(***************************************************************************)
(* watcher.go: FSEventsWatcher and INotifyWatcher.  A tool (fswatch or     *)
(* inotifywait) prints a line per change into a pipe; of the errgroup of   *)
(* Run, one goroutine scans the pipe and sends events, the other one       *)
(* starts the tool and waits for it.                                       *)
(***************************************************************************)
EXTENDS Naturals, Sequences

CONSTANTS
  Files,
  Tool,         \* "fswatch" or "inotifywait"
  Spaced,       \* files with a blank in their name
  Misread,      \* the file that has the first word of such a name
  Broken,       \* files with a line break in their name
  Torn,         \* the second of the two lines that fswatch prints for one
  ToolFaults,   \* ways the tool can end by itself: "clean", "failed"
  PipeSize,     \* lines (a bound)
  EventsSize    \* of eventsCh, 1024 in the code (a bound)

ASSUME WatcherAssumption ==
  /\ Tool \in {"fswatch", "inotifywait"}
  /\ Spaced \subseteq Files
  /\ Broken \subseteq Files \ Spaced
  /\ Misread \in Files \ (Spaced \cup Broken)
  /\ Torn \notin Files
  /\ Tool = "inotifywait" => Broken = {}    \* Run panics (watcher.go:149)
  /\ ToolFaults \subseteq {"clean", "failed"}
  /\ PipeSize \in Nat \ {0}
  /\ EventsSize \in Nat \ {0}

VARIABLES
  tool,         \* the tool's process
  dirty,        \* changes the tool has not printed yet
  pipe,         \* what it has printed, a line or two per change of a file
  readable,     \* the read end of the pipe is open
  rest,         \* events of the scanned line that are still to be sent
  eventsCh,
  closed,       \* eventsCh is closed
  ended,        \* goroutines of the errgroup that have returned
  gerr,         \* the errgroup holds an error
  rootDone,     \* the context of Executor.Run is cancelled
  run           \* Watcher.Run

toolVars == <<tool, dirty>>
groupVars == <<ended, gerr>>
chVars == <<rest, eventsCh, closed>>
watcherVars == <<toolVars, pipe, readable, chVars, groupVars, rootDone, run>>

Goroutines == {"scanner", "command"}

\* Names that the lines of the tool can hold.
Named == Files \ (Spaced \cup Broken)

WTypeOK ==
  /\ tool \in {"starting", "watching", "clean", "failed"}
  /\ dirty \subseteq Files
  /\ pipe \in Seq(Files \cup {Torn}) /\ Len(pipe) <= PipeSize
  /\ readable \in BOOLEAN
  /\ rest \in Seq(Files)
  /\ eventsCh \in Seq(Files) /\ Len(eventsCh) <= EventsSize
  /\ closed \in BOOLEAN
  /\ ended \subseteq Goroutines
  /\ gerr \in BOOLEAN
  /\ rootDone \in BOOLEAN
  /\ run \in {"running", "returned"}

WInit ==
  /\ tool = "starting"
  /\ dirty = {}
  /\ pipe = <<>>
  /\ readable = TRUE
  /\ rest = <<>>
  /\ eventsCh = <<>>
  /\ closed = FALSE
  /\ ended = {}
  /\ gerr = FALSE
  /\ rootDone = FALSE
  /\ run = "running"

\* The errgroup's context, which the command was started with.
GroupDone == rootDone \/ gerr

ToolOver == tool \in {"clean", "failed"}

\* A goroutine of the errgroup returns; an error of it cancels the other one.
GoReturns(g, failed) ==
  /\ ended' = ended \cup {g}
  /\ gerr' = (gerr \/ failed)

-----------------------------------------------------------------------------
(* The tool *)

\* Nothing that changes before has a line.
ToolStarts ==
  /\ tool = "starting"
  /\ tool' = "watching"
  /\ UNCHANGED <<dirty, pipe, readable, chVars, groupVars, rootDone, run>>

ToolPrints(f) ==
  /\ tool = "watching"
  /\ f \in dirty
  /\ Len(pipe) < PipeSize
  /\ pipe' = Append(pipe, f)
  /\ dirty' = dirty \ {f}
  /\ UNCHANGED <<tool, readable, chVars, groupVars, rootDone, run>>

\* exec.CommandContext kills the tool once the errgroup's context is done.
Killed_Never == FALSE
Killed == GroupDone

\* It is killed, cannot be started, or ends by itself.
ToolExits ==
  /\ ~ ToolOver
  /\ \/ Killed /\ tool' = "failed"
     \/ "failed" \in ToolFaults /\ tool' = "failed"
     \/ "clean" \in ToolFaults /\ tool = "watching" /\ tool' = "clean"
  /\ UNCHANGED <<dirty, pipe, readable, chVars, groupVars, rootDone, run>>

-----------------------------------------------------------------------------
(* Run *)

\* The words of a line are told apart by blanks: fswatch's second word is then
\* no number, which is an error, and inotifywait's line is about another file.
\* The second line of a broken name is a path that is not below the directory.
Unreadable(f) == f = Torn \/ (Tool = "fswatch" /\ f \in Spaced)

\* inotifywait can name several events in a line; those it names after a blank
\* in the name of a directory are unknown, and ignored.
EventsOf(f) ==
  CASE Tool = "fswatch" -> {<<f>>}
    [] f \in Spaced -> {<<>>, <<Misread>>}
    [] OTHER -> {<<f>>, <<f, f>>}

Scanning == "scanner" \notin ended /\ rest = <<>>

\* fswatch's first line of a broken name has one word: it is skipped.
SkipLine ==
  /\ Scanning
  /\ readable
  /\ pipe # <<>> /\ Head(pipe) \in Broken
  /\ pipe' = <<Torn>> \o Tail(pipe)
  /\ UNCHANGED <<toolVars, readable, chVars, groupVars, rootDone, run>>

ScanLine ==
  /\ Scanning
  /\ readable
  /\ pipe # <<>> /\ Head(pipe) \notin Broken
  /\ pipe' = Tail(pipe)
  /\ IF Unreadable(Head(pipe))
     THEN GoReturns("scanner", TRUE) /\ UNCHANGED rest
     ELSE rest' \in EventsOf(Head(pipe)) /\ UNCHANGED groupVars
  /\ UNCHANGED <<toolVars, readable, eventsCh, closed, rootDone, run>>

\* The end of the pipe, or a pipe that cmd.Run has closed, unread lines or not.
ScanEnds ==
  /\ Scanning
  /\ ~ readable \/ (ToolOver /\ pipe = <<>>)
  /\ \E failed \in {FALSE, ~ readable} : GoReturns("scanner", failed)
  /\ UNCHANGED <<toolVars, pipe, readable, chVars, rootDone, run>>

\* w.eventsCh <- WatchEvent{...}: waits while the channel is full.
Room_Unbounded == TRUE
Room == Len(eventsCh) < EventsSize

SendEvent ==
  /\ "scanner" \notin ended
  /\ rest # <<>>
  /\ Room
  /\ eventsCh' = Append(eventsCh, Head(rest))
  /\ rest' = Tail(rest)
  /\ UNCHANGED <<toolVars, pipe, readable, closed, groupVars, rootDone, run>>

\* cmd.Run() returns, and has closed the pipe.
CommandFailed == tool = "failed"

CommandReturns ==
  /\ "command" \notin ended
  /\ ToolOver
  /\ readable' = FALSE
  /\ GoReturns("command", CommandFailed)
  /\ UNCHANGED <<toolVars, pipe, chVars, rootDone, run>>

\* g.Wait() returns, and the deferred close.
RunReturns ==
  /\ run = "running"
  /\ ended = Goroutines
  /\ run' = "returned"
  /\ closed' = TRUE
  /\ UNCHANGED <<toolVars, pipe, readable, rest, eventsCh, groupVars, rootDone>>

Interrupt ==
  /\ ~ rootDone
  /\ rootDone' = TRUE
  /\ UNCHANGED <<toolVars, pipe, readable, chVars, groupVars, run>>

ScannerStep == SkipLine \/ ScanLine \/ ScanEnds \/ SendEvent

WatcherStep ==
  \/ ToolStarts \/ ToolExits \/ (\E f \in Files : ToolPrints(f))
  \/ ScannerStep \/ CommandReturns \/ RunReturns
=============================================================================
