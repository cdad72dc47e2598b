-------------------------- MODULE ExecutorHistory --------------------------
(***************************************************************************)
(* Executor with a history of the invalidations that were accepted: a task *)
(* is owed a run from the moment a call records it in pendingInvalidations *)
(* until a run of it is started.                                           *)
(***************************************************************************)
EXTENDS Executor

VARIABLE owed

Recorded == {t \in Tasks : Recording(t)}
Started == {t \in Tasks : state[t] = "invalid" /\ state'[t] = "running"}

HInit == Init /\ owed = {}
HNext == Next /\ owed' = (owed \ Started) \cup Recorded
HSpec == HInit /\ [][HNext]_<<vars, owed>>

\* task_execution.go:67: "invalidate stops the task if running, resets the
\* execution state for the task": what is owed a run is reset, or will be.
OwedRunComes ==
  \A t \in owed :
    rootDone \/ state[t] \in {"invalid", "canceled"} \/ PlanComing(t)
=============================================================================
