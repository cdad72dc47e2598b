------------------------------- MODULE Config -------------------------------
(***************************************************************************)
(* How the configuration is read: ReadConfig goes down the files that each *)
(* extend the next, makes a Config of the last one, and merges the others  *)
(* into it on the way back.  The user edits no file meanwhile: what a file *)
(* holds is chosen when it is read for the first time.                     *)
(***************************************************************************)
EXTENDS Naturals, Sequences, SequencesExt, FiniteSetsExt

CONSTANTS
  Files,        \* absolute paths, as sequences of names
  Contents,     \* configFile: [extends, path, desired], each of which can be None
  Links,        \* where the symbolic links among Files lead, a function
  User, Workspace, \* ./user.taskrunner.json and ./workspace.taskrunner.json
  MaxChain,     \* files on the way (a bound: a file that extends itself has no end)
  Missing, Broken, \* what a file is that does not exist, and one that is no JSON
  None

VARIABLES
  disk,         \* what the files that were read held
  chain,        \* the files, from the one that was asked for
  at,           \* the file whose ReadConfig is running
  config,       \* the Config of the file below that one, or None
  reading       \* "down", "up", "done" or "failed"

vars == <<disk, chain, at, config, reading>>

Init ==
  /\ disk = <<>>
  /\ chain = <<>>
  /\ at = 0
  /\ config = None
  /\ reading = "idle"

CouldBe(f) ==
  IF f \in DOMAIN disk THEN {disk[f]}
  ELSE IF f \in Files THEN Contents \cup {Missing, Broken} ELSE {Missing}

Read(f, c) == disk' = [g \in DOMAIN disk \cup {f} |-> IF g = f THEN c ELSE disk[g]]

\* filepath.Join of a directory and a relative path.
Join(dir, rel) ==
  FoldLeft(LAMBDA d, n : CASE n = "." -> d
                           [] n = ".." -> IF d = <<>> THEN d ELSE Front(d)
                           [] OTHER -> Append(d, n),
           dir, rel)

\* resolveWorkingDir: next to the file that a link leads to.
WorkingDir(f, path) == Join(Front(IF f \in DOMAIN Links THEN Links[f] ELSE f), path)

Desired(c) == IF c.desired = None THEN {} ELSE c.desired

-----------------------------------------------------------------------------
(* The file to start from, of the flag --config or by ReadDefaultConfig *)

From(f) == chain' = <<f>> /\ at' = 1 /\ reading' = "down" /\ UNCHANGED config

Default ==
  \E c \in CouldBe(User) :
    /\ Read(User, c)
    /\ From(IF c = Missing THEN Workspace ELSE User)

Begin(asked) ==
  /\ reading = "idle"
  /\ IF asked = None THEN Default ELSE From(asked) /\ UNCHANGED disk

\* ToConfig: a file that extends nothing must say where the work is done.
ToConfig(f, c) ==
  /\ IF c.path = None
     THEN reading' = "failed" /\ UNCHANGED config
     ELSE /\ reading' = "up"
          /\ config' = [workingDir |-> WorkingDir(f, c.path), desired |-> Desired(c),
                        configPath |-> f]
  /\ UNCHANGED <<chain, at>>

Extend(f, c) ==
  /\ Len(chain) < MaxChain
  /\ chain' = Append(chain, Join(Front(f), c.extends))
  /\ at' = at + 1
  /\ UNCHANGED <<config, reading>>

ReadConfig ==
  /\ reading = "down"
  /\ \E c \in CouldBe(chain[at]) :
       /\ Read(chain[at], c)
       /\ CASE c \in {Missing, Broken} -> reading' = "failed" /\ UNCHANGED <<chain, at, config>>
            [] c \in Contents /\ c.extends = None -> ToConfig(chain[at], c)
            [] OTHER -> Extend(chain[at], c)

\* With: the settings of the file over those of its base.
With_BasePath(base, f, c) ==
  [workingDir |-> IF c.path = None THEN base.workingDir ELSE Join(base.workingDir, c.path),
   desired |-> base.desired \cup Desired(c),
   configPath |-> f]
With(base, f, c) ==
  [workingDir |-> IF c.path = None THEN base.workingDir ELSE WorkingDir(f, c.path),
   desired |-> base.desired \cup Desired(c),
   configPath |-> f]

Merge ==
  /\ reading = "up"
  /\ IF at = 1
     THEN reading' = "done" /\ UNCHANGED <<at, config>>
     ELSE /\ at' = at - 1
          /\ config' = With(config, chain[at - 1], disk[chain[at - 1]])
          /\ UNCHANGED reading
  /\ UNCHANGED <<disk, chain>>

Step == ReadConfig \/ Merge

-----------------------------------------------------------------------------
\* The working directory is that of the nearest file that names one, seen from
\* that file and not from the one that was asked for; the tasks are those of
\* all files on the way (config_test.go:46).
NearestPathAllTasks ==
  reading = "done" =>
    LET way == [i \in DOMAIN chain |-> disk[chain[i]]]
        near == Min({i \in DOMAIN way : way[i].path # None})
    IN /\ config.configPath = chain[1]
       /\ config.workingDir = WorkingDir(chain[near], way[near].path)
       /\ config.desired = UNION {Desired(way[i]) : i \in DOMAIN way}

\* config.go:132: "ReadConfig reads the configuration at configPath and returns
\* a Config."  A chain longer than Files comes back to a file, for ever.
ReturnsAConfig == reading = "down" => at <= Cardinality(Files)
=============================================================================
