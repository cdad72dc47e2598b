------------------------------ MODULE Startup ------------------------------
(***************************************************************************)
(* From the command line to the first pass: Run of runner.go reads its own *)
(* options, the configuration and the arguments, and Executor.Run makes    *)
(* the DAG of the tasks that were chosen, or shows help, or refuses.       *)
(***************************************************************************)
EXTENDS Flags, TaskSet

CONSTANTS
  AllOptions,   \* [config, list, describe, watch, nonInteractive] of runner.go:74-79
  NoOptions,    \* options that flags.Parse refuses
  Files, Contents, Links, User, Workspace, MaxChain, Missing, Broken

ASSUME StartupAssumption ==
  /\ Tasks = Registry /\ IsFiniteSet(Tasks)
  /\ \A c \in Contents : c.desired # None => IsFiniteSet(c.desired)

VARIABLES
  stage,        \* how far Run has come, or how it ended
  options,
  watchMode,
  disk, chain, at, config, reading

C == INSTANCE Config

configVars == <<disk, chain, at, config, reading>>
allVars == <<vars, dagVars, configVars, stage, options, watchMode>>

StartInit ==
  /\ Init
  /\ C!Init
  /\ DagInit
  /\ stage = "options"
  /\ options = NoOptions
  /\ watchMode = FALSE

-----------------------------------------------------------------------------
\* Tasks are registered before main starts.
Register ==
  /\ \/ \E t \in Tasks, f \in Flags : AddFlag(t, f)
     \/ Registered
  /\ UNCHANGED <<dagVars, configVars, stage, options, watchMode>>

\* flags.Parse stops at the first argument that is none of its options.
ParseOptions ==
  /\ stage = "options" /\ phase = "args"
  /\ options' \in AllOptions \cup {NoOptions}
  /\ IF options' = NoOptions
     THEN stage' = "fatal" /\ UNCHANGED configVars
     ELSE stage' = "config" /\ C!Begin(options'.config)
  /\ UNCHANGED <<vars, dagVars, watchMode>>

ReadConfig ==
  /\ stage = "config"
  /\ C!Step
  /\ UNCHANGED <<vars, dagVars, stage, options, watchMode>>

\* --list and --listAll exclude each other; they and --describe run nothing.
AfterConfig ==
  IF reading = "failed" \/ Tasks = {} \/ options.list = {"list", "listAll"} THEN "fatal"
  ELSE IF options.list # {} \/ options.describe THEN "listed" ELSE "args"

UseConfig ==
  /\ stage = "config" /\ reading \in {"done", "failed"}
  /\ stage' = AfterConfig
  /\ UNCHANGED <<vars, dagVars, configVars, options, watchMode>>

GroupArgs ==
  /\ stage = "args"
  /\ (\E arg \in Args : FlagArg(arg) \/ TaskArg(arg)) \/ EndOfArgs
  /\ UNCHANGED <<dagVars, configVars, stage, options, watchMode>>

\* The tasks of the configuration are run when nothing was asked for, and not
\* when nothing of it was understood.
Refused_Never == FALSE
Refused == DOMAIN groups = {} /\ foundInvalidTasks

Chosen == IF DOMAIN groups # {} THEN DOMAIN groups ELSE config.desired

\* In any order: the groups and the merged tasks are maps.
ChooseTasks ==
  /\ stage = "args" /\ phase = "done"
  /\ IF Refused
     THEN stage' = "fatal" /\ UNCHANGED <<watchMode, dagVars>>
     ELSE /\ stage' = "dag"
          /\ watchMode' = IF DOMAIN groups # {} THEN options.watch ELSE ~ options.nonInteractive
          /\ names' \in SetToSeqs(Chosen)
          /\ UNCHANGED <<definition, added, stack, set>>
  /\ UNCHANGED <<vars, configVars, options>>

\* errUndefinedTaskName: the runner ends even in watch mode.
AddTask ==
  /\ stage = "dag" /\ stack = <<>> /\ names # <<>>
  /\ IF Head(names) \in Tasks
     THEN AddName /\ UNCHANGED stage
     ELSE stage' = "fatal" /\ UNCHANGED dagVars
  /\ UNCHANGED <<vars, configVars, options, watchMode>>

VisitDependencies ==
  /\ stage = "dag"
  /\ AddDependency \/ Return
  /\ UNCHANGED <<vars, configVars, stage, options, watchMode>>

IsHelp(arg) == arg.val = None /\ arg.eqs = 0 /\ <<arg.dashes, arg.name>> \in {<<1, "h">>, <<2, "help">>}

AsksForHelp(t) == t \in DOMAIN groups /\ \E arg \in ToSet(groups[t]) : IsHelp(arg)

StartTasks ==
  /\ stage = "dag" /\ stack = <<>> /\ names = <<>>
  /\ stage' = IF \E t \in DOMAIN set : AsksForHelp(t) THEN "help" ELSE "running"
  /\ UNCHANGED <<vars, dagVars, configVars, options, watchMode>>

StartNext ==
  \/ Register
  \/ ParseOptions
  \/ ReadConfig \/ UseConfig
  \/ GroupArgs \/ ChooseTasks
  \/ AddTask \/ VisitDependencies \/ StartTasks

StartSpec == StartInit /\ [][StartNext]_allVars

-----------------------------------------------------------------------------
\* The configuration is that of its chain of files.
NearestPathAllTasks == C!NearestPathAllTasks

Words == {i \in DOMAIN args : ~ IsFlag(args[i])}
Named == {args[i].word : i \in Words} \cap Tasks

\* The flags of runner.go:75 and 78: tasks are started only when no help is
\* asked for and either a task is named, and then those named are the roots of
\* the DAG and --watch decides, or no word is on the line at all, and then the
\* tasks of all configuration files are, and --non-interactive decides.
RunsWhatWasAsked ==
  stage = "running" =>
    /\ \A t \in Named : ~ \E arg \in ToSet(Following(LastMention(t))) : IsHelp(arg)
    /\ IF Named # {}
       THEN added = Named /\ watchMode = options.watch
       ELSE /\ Words = {} /\ watchMode = ~ options.nonInteractive
            /\ added = UNION {C!Desired(disk[chain[i]]) : i \in DOMAIN chain}

-----------------------------------------------------------------------------
(* What the comments of the code promise *)

\* config.go:132.
ReturnsAConfig == C!ReturnsAConfig

\* task.go:78: "Default is the default value for the flag."
EveryTaskHasItsDefaults ==
  stage = "running" =>
    \A t \in DOMAIN set : \A k \in DOMAIN flagsByTask[t] : ParsePanics(t) \/ k \in DOMAIN FlagMap(t)
=============================================================================
