-------------------------- MODULE MCExecutorHistory --------------------------
(* ExecutorHistory on the instances of MCExecutor. *)
EXTENDS ExecutorHistory, MCExecutor
=============================================================================
