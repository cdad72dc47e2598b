------------------------------ MODULE TaskRuns ------------------------------
(***************************************************************************)
(* What the executor promises of the runs of a DAG: a task is started only *)
(* while nobody runs it and while the last run of everything below it      *)
(* succeeded and has not been invalidated since.                           *)
(***************************************************************************)
CONSTANTS
  Tasks,
  Dependencies,   \* [Tasks -> SUBSET Tasks], direct and indirect
  Runners         \* who can run a task

VARIABLES
  runners,        \* who is running each task
  ok              \* tasks whose last run succeeded and still counts

vars == <<runners, ok>>

TypeOK ==
  /\ runners \in [Tasks -> SUBSET Runners]
  /\ ok \subseteq Tasks

Init ==
  /\ runners = [t \in Tasks |-> {}]
  /\ ok = {}

Start(t, r) ==
  /\ t \notin ok
  /\ \A u \in Tasks : r \notin runners[u]
  /\ runners[t] = {}
  /\ Dependencies[t] \subseteq ok
  /\ runners' = [runners EXCEPT ![t] = {r}]
  /\ UNCHANGED ok

Succeed(t, r) ==
  /\ runners[t] = {r}
  /\ runners' = [runners EXCEPT ![t] = {}]
  /\ ok' = ok \cup {t}

\* An error, or a run that was cancelled.
Fail(t, r) ==
  /\ runners[t] = {r}
  /\ runners' = [runners EXCEPT ![t] = {}]
  /\ UNCHANGED ok

Invalidate(t) ==
  /\ t \in ok
  /\ ok' = ok \ {t}
  /\ UNCHANGED runners

Next ==
  \/ \E t \in Tasks, r \in Runners : Start(t, r) \/ Succeed(t, r) \/ Fail(t, r)
  \/ \E t \in Tasks : Invalidate(t)

Spec == Init /\ [][Next]_vars
=============================================================================
