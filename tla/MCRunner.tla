------------------------------ MODULE MCRunner ------------------------------
(* Runner on the instances of MCExecutor. *)
EXTENDS Runner, MCExecutor
=============================================================================
