------------------------------ MODULE MCCache ------------------------------
(* Cache with a few tasks, some on one file and some on two. *)
EXTENDS Cache, TLC

CONSTANTS t1, t2

\* Tasks on both files.
BothFiles == [t \in Tasks |-> {1, 2}]

\* A task on each of two files.
OwnFile == (t1 :> {1}) @@ (t2 :> {2})

\* Every session runs every task, or some run none of them.
AllTasks == {Tasks}
SomeTasks == {Tasks, {}}
=============================================================================
