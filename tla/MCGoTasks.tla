----------------------------- MODULE MCGoTasks -----------------------------
(* GoTasks with two unrelated tasks, each with a package of its own. *)
EXTENDS GoTasks, TLC

CONSTANT OtherTask  \* the one that is not invalidated

ApartDeps == [t \in Builders |-> {}]
ApartParent == [t \in Builders |-> NoTask]
OwnPackage == [t \in Builders |-> <<"cmd", t>>]
NoVetoes == {}

\* An interrupt meets an invalidation only once the other task has done its
\* work (a bound).
OneTaskDisturbed ==
  rootDone /\ calls > 0 =>
    state[OtherTask] = "done" /\ \A w \in Workers : job[w] # OtherTask
=============================================================================
