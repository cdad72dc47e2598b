------------------------------- MODULE Flags -------------------------------
(***************************************************************************)
(* The flags of tasks: Registry.Add checks those a task declares,          *)
(* groupTaskAndFlagArgs deals the command line out to the tasks it names,  *)
(* and parseTaskFlagsIntoMap makes the map that a task function reads.     *)
(***************************************************************************)
EXTENDS Naturals, Sequences, SequencesExt, FiniteSetsExt

CONSTANTS
  Tasks,        \* names in the registry
  Flags,        \* what a task can declare: [long, short, type, default]
  Args,         \* what the command line can hold: [word] or [dashes, name, eqs, val]
  OneByte,      \* names of one byte, which is how the code tells a short name
  Parses,       \* <<type, value>> pairs that the getter of the type accepts
  MaxArgs,      \* arguments on the command line (a bound)
  None          \* no name, no value, no task

ASSUME FlagsAssumption ==
  /\ MaxArgs \in Nat
  /\ None \notin Tasks

VARIABLES
  phase,
  flagsByTask,  \* Registry.flagsByTask
  args,         \* the arguments read so far
  groups,       \* flagArgsPerTask
  currTaskName, currFlagsList,
  foundInvalidTasks

vars == <<phase, flagsByTask, args, groups, currTaskName, currFlagsList, foundInvalidTasks>>
groupVars == <<args, groups, currTaskName, currFlagsList, foundInvalidTasks>>

Init ==
  /\ phase = "register"
  /\ flagsByTask = [t \in Tasks |-> <<>>]
  /\ args = <<>>
  /\ groups = <<>>
  /\ currTaskName = None
  /\ currFlagsList = <<>>
  /\ foundInvalidTasks = FALSE

\* m[k] = v, on a map.
With(m, k, v) == [x \in DOMAIN m \cup {k} |-> IF x = k THEN v ELSE m[x]]

-----------------------------------------------------------------------------
(* Registry.Add, for one flag of a task: it panics, or the flag is there     *)
(* under each of its names                                                   *)

Names(f) == {f.long, f.short} \ {None}

Taken_LongOnly(t, f) == f.long \in DOMAIN flagsByTask[t]
Taken(t, f) == Names(f) \cap DOMAIN flagsByTask[t] # {}

Accepted(t, f) ==
  /\ t \notin Names(f)
  /\ Names(f) # {}
  /\ f.long # "help" /\ f.short # "h"
  /\ f.long # f.short
  /\ ~ Taken(t, f)

AddFlag(t, f) ==
  /\ phase = "register"
  /\ IF Accepted(t, f)
     THEN /\ flagsByTask' = [flagsByTask EXCEPT ![t] =
               [k \in DOMAIN @ \cup Names(f) |-> IF k \in Names(f) THEN f ELSE @[k]]]
          /\ UNCHANGED phase
     ELSE phase' = "panicked" /\ UNCHANGED flagsByTask
  /\ UNCHANGED groupVars

-----------------------------------------------------------------------------
(* groupTaskAndFlagArgs *)

Registered ==
  /\ phase = "register"
  /\ phase' = "args"
  /\ UNCHANGED <<flagsByTask, groupVars>>

IsFlag(arg) == "word" \notin DOMAIN arg

\* The flags collected so far go to the task they were collected for.
Stored == IF currTaskName = None THEN groups
          ELSE With(groups, currTaskName, currFlagsList)

Collected(arg) == IF currTaskName = None THEN currFlagsList ELSE Append(currFlagsList, arg)

FlagArg(arg) ==
  /\ phase = "args" /\ Len(args) < MaxArgs
  /\ IsFlag(arg)
  /\ args' = Append(args, arg)
  /\ currFlagsList' = Collected(arg)
  /\ UNCHANGED <<phase, flagsByTask, groups, currTaskName, foundInvalidTasks>>

\* Until the next task, flags after a word that is no task are ignored.
Owner_Previous(arg) == IF arg.word \in Tasks THEN arg.word ELSE currTaskName
Owner(arg) == IF arg.word \in Tasks THEN arg.word ELSE None

TaskArg(arg) ==
  /\ phase = "args" /\ Len(args) < MaxArgs
  /\ ~ IsFlag(arg)
  /\ args' = Append(args, arg)
  /\ groups' = Stored
  /\ currTaskName' = Owner(arg)
  /\ currFlagsList' = <<>>
  /\ foundInvalidTasks' = (foundInvalidTasks \/ arg.word \notin Tasks)
  /\ UNCHANGED <<phase, flagsByTask>>

EndOfArgs ==
  /\ phase = "args"
  /\ groups' = Stored
  /\ phase' = "done"
  /\ UNCHANGED <<flagsByTask, args, currTaskName, currFlagsList, foundInvalidTasks>>

-----------------------------------------------------------------------------
(* parseTaskFlagsIntoMap *)

\* getVerifiedFlagKey: "--" with a longer name, "-" with one byte, and a key
\* that the task supports.  A short name that is one character of several bytes
\* takes two dashes.
Verified(t, arg) ==
  /\ \/ arg.dashes = 2 /\ arg.name \notin OneByte
     \/ arg.dashes = 1 /\ arg.name \in OneByte
  /\ arg.name \in DOMAIN flagsByTask[t]

WellFormed(t, arg) == Verified(t, arg) /\ arg.eqs < 2

\* getDefaultTaskFlagMap: an argument for every key of the registry.
DefaultArgs(t) ==
  [k \in DOMAIN flagsByTask[t] |->
     [passed |-> FALSE, value |-> flagsByTask[t][k].default, type |-> flagsByTask[t][k].type]]

\* The other name of the flag, under which the argument is registered too.
OtherName_ShortToLong(f, key) ==
  IF key \in OneByte /\ key # f.long /\ f.long # None THEN {f.long} ELSE {}
OtherName(f, key) ==
  CASE key \in OneByte /\ key # f.long /\ f.long # None -> {f.long}
    [] key \notin OneByte /\ key = f.long /\ f.short # None -> {f.short}
    [] OTHER -> {}

\* One flag of the list: without a value the argument that is there stays.
Applied(t, m, arg) ==
  LET f == flagsByTask[t][arg.name]
      new == [passed |-> TRUE, value |-> arg.val, type |-> f.type]
  IN IF arg.val = None THEN m
     ELSE [k \in DOMAIN m |-> IF k \in {arg.name} \cup OtherName(f, arg.name) THEN new ELSE m[k]]

ParsePanics(t) == t \in DOMAIN groups /\ \E arg \in ToSet(groups[t]) : ~ WellFormed(t, arg)

\* The map after each flag of the list.
Parsed(t) ==
  LET m[n \in 0..Len(groups[t])] ==
        IF n = 0 THEN DefaultArgs(t) ELSE Applied(t, m[n - 1], groups[t][n])
  IN m

\* What the function of task t receives (runPass, executor.go:642): a task that
\* is not named on the command line gets no defaults either.
FlagMap(t) == IF t \in DOMAIN groups THEN Parsed(t)[Len(groups[t])] ELSE <<>>

\* A getter of a FlagArg: BoolVal, StringVal and so on.
Get(flagArg, type) ==
  CASE type # flagArg.type -> "panic"
    [] flagArg.value = None -> "nil"
    [] <<type, flagArg.value>> \notin Parses -> "panic"
    [] OTHER -> flagArg.value

-----------------------------------------------------------------------------
\* Registry.Add: a key never names two flags of a task, and a flag that was
\* accepted is found under all its names.
KeysAreUnambiguous ==
  \A t \in Tasks : \A k \in DOMAIN flagsByTask[t] :
    LET f == flagsByTask[t][k] IN
    /\ k \in Names(f)
    /\ \A n \in Names(f) : n \in DOMAIN flagsByTask[t] /\ flagsByTask[t][n] = f

\* Where task t is named for the last time, 0 if it is not.
LastMention(t) ==
  Max({0} \cup {i \in 1..Len(args) : ~ IsFlag(args[i]) /\ args[i].word = t})

\* The flags from there to the next word.
Following(i) ==
  LET end == Min({Len(args) + 1} \cup {j \in i + 1..Len(args) : ~ IsFlag(args[j])})
  IN SubSeq(args, i + 1, end - 1)

\* runner.go:111: the tasks that are run are those named, each with the flags
\* that follow its last mention, and unknown words keep theirs to themselves.
FlagsFollowTheirTask ==
  phase = "done" =>
    /\ DOMAIN groups = {t \in Tasks : LastMention(t) > 0}
    /\ \A t \in DOMAIN groups : groups[t] = Following(LastMention(t))

\* The flag at i of the list of task t gives flag f a value.
Gives(t, i, f) == groups[t][i].name \in Names(f) /\ groups[t][i].val # None

\* The last value that the command line gives to flag f of task t.
LastValue(t, f) ==
  LET given == {i \in 1..Len(groups[t]) : Gives(t, i, f)}
  IN IF given = {} THEN f.default ELSE groups[t][Max(given)].val

\* What parseTaskFlagsIntoMap takes for granted of a flag with two names, and
\* Registry.Add does not check.
NamesByLength(f) ==
  f.long # None /\ f.short # None => f.long \notin OneByte /\ f.short \in OneByte

\* Under name k, task t reads the last value that was passed under any name of
\* the flag.
ReadsLastValue(t, k) ==
  LET f == flagsByTask[t][k] IN
  Get(FlagMap(t)[k], f.type) =
    Get([passed |-> TRUE, value |-> LastValue(t, f), type |-> f.type], f.type)

\* A task reads under each name of a flag the value that was passed last under
\* any of them, or else the default, whatever else is passed between, if of two
\* names the short one has one byte and the long one more (executor.go:530).
LastValueUnderBothNames ==
  phase = "done" =>
    \A t \in DOMAIN groups : ParsePanics(t) \/
      \A k \in DOMAIN FlagMap(t) :
        NamesByLength(flagsByTask[t][k]) => ReadsLastValue(t, k)

-----------------------------------------------------------------------------
(* What the comments of the code promise *)

\* executor.go:528: "Allow readers to index into flag map via either LongName
\* or ShortName regardless of which arg was passed in if both names are
\* available."
EitherNameReadsTheValue ==
  phase = "done" =>
    \A t \in DOMAIN groups : ParsePanics(t) \/
      \A k \in DOMAIN FlagMap(t) : ReadsLastValue(t, k)
=============================================================================
