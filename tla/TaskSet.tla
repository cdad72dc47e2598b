------------------------------ MODULE TaskSet ------------------------------
(***************************************************************************)
(* How Run builds the DAG: taskSet.add visits the dependencies of every    *)
(* task it is asked for, depth first, and makes one execution per task     *)
(* (task_execution.go:107-136, executor.go:242-250).  What it makes are    *)
(* the constants of Executor.  add calls itself: calls are frames of a     *)
(* stack, and a step is an iteration of its loop or its return.            *)
(***************************************************************************)
EXTENDS Naturals, Sequences, SequencesExt

CONSTANTS
  Registry,     \* the tasks
  Definitions,  \* what Task.Dependencies of every task can be
  NoTask

\* Lists of tasks; every set of tasks has one with no dependency in it.
ASSUME DefinitionsAssumption ==
  /\ NoTask \notin Registry
  /\ \A d \in Definitions :
       /\ d \in [Registry -> Seq(Registry)]
       /\ \A S \in SUBSET Registry : S # {} => \E t \in S : ToSet(d[t]) \cap S = {}

VARIABLES
  definition,   \* Task.Dependencies of every task
  names,        \* the names that Run has not added yet
  added,        \* the names it has
  stack,        \* the calls of add that have not returned, the last one first
  set           \* the taskSet: an execution for each task that is in it

dagVars == <<definition, names, added, stack, set>>

DagInit ==
  /\ definition \in Definitions
  /\ names = <<>>
  /\ added = {}
  /\ stack = <<>>
  /\ set = <<>>

Context_Root(t) == NoTask
Context(t) == t

\* A call of add for a task that is in the set changes nothing.
Call(context, t) ==
  stack' = IF t \in DOMAIN set THEN stack
           ELSE Cons([task |-> t, ctxParent |-> context, left |-> definition[t],
                      dependencies |-> {}], stack)

AddName ==
  /\ stack = <<>> /\ names # <<>>
  /\ Call(NoTask, Head(names))
  /\ added' = added \cup {Head(names)}
  /\ names' = Tail(names)
  /\ UNCHANGED <<definition, set>>

\* The loop of add: the call for the next dependency, unless it is in the set,
\* and, when it is, the two lists.
Below_Direct(deps, depsOfDep, dep) == deps \cup {dep}
Below(deps, depsOfDep, dep) == deps \cup depsOfDep \cup {dep}

AddDependency ==
  /\ stack # <<>> /\ Head(stack).left # <<>>
  /\ LET self == Head(stack)
         dep == Head(self.left)
     IN IF dep \in DOMAIN set
        THEN /\ set' = [set EXCEPT ![dep].dependents = @ \cup {self.task}]
             /\ stack' = Cons([self EXCEPT !.left = Tail(@),
                                 !.dependencies = Below(@, set[dep].dependencies, dep)],
                              Tail(stack))
        ELSE Call(Context(self.task), dep) /\ UNCHANGED set
  /\ UNCHANGED <<definition, names, added>>

Return ==
  /\ stack # <<>> /\ Head(stack).left = <<>>
  /\ LET self == Head(stack) IN
     set' = [t \in DOMAIN set \cup {self.task} |->
               IF t = self.task
               THEN [ctxParent |-> self.ctxParent, dependencies |-> self.dependencies,
                     dependents |-> {}]
               ELSE set[t]]
  /\ stack' = Tail(stack)
  /\ UNCHANGED <<definition, names, added>>

-----------------------------------------------------------------------------
Direct(t) == ToSet(definition[t])

\* Everything below the tasks of S, and S: the least set closed under Direct.
ClosedUnder(S, T) == S \subseteq T /\ \A t \in T : Direct(t) \subseteq T
Closure(S) ==
  {t \in Registry : \A T \in SUBSET Registry : ClosedUnder(S, T) => t \in T}

\* The DAG holds what was asked for and everything below, and the executions
\* know all their dependencies, not only the direct ones, and their direct
\* dependents, in whatever order the names and the dependencies were given.
DagIsComplete ==
  stack = <<>> =>
    /\ DOMAIN set = Closure(added)
    /\ \A t \in DOMAIN set :
         /\ set[t].dependencies = Closure(Direct(t))
         /\ set[t].dependents = {u \in DOMAIN set : t \in Direct(u)}

\* The first context of a task derives from Run's or from that of one of its
\* dependents: cancelling a run never reaches a task that does not need it.
ContextsFollowDependents ==
  \A t \in DOMAIN set :
    IF set[t].ctxParent = NoTask THEN t \in added
    ELSE t \in Direct(set[t].ctxParent)
=============================================================================
