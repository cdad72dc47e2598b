----------------------------- MODULE MCExecutor -----------------------------
(* Instances of Executor for TLC: small DAGs and who may disturb them. *)
EXTENDS Executor, TLC

CONSTANTS a, b, c, d

Symmetry == Permutations(Workers) \cup Permutations(Passers) \cup Permutations(Callers)

NoVetoes == {}

\* One task.
OneDeps == [t \in Tasks |-> {}]
OneParent == [t \in Tasks |-> NoTask]

\* b depends on a, and was named on the command line.
ChainDeps == (a :> {}) @@ (b :> {a})
ChainParent == (a :> b) @@ (b :> NoTask)

\* d depends on b and c, which both depend on a; d was named.
DiamondDeps == (a :> {}) @@ (b :> {a}) @@ (c :> {a}) @@ (d :> {b, c})
DiamondParent == (a :> b) @@ (b :> d) @@ (c :> d) @@ (d :> NoTask)

\* c depends on b, which depends on a; c was named.
LineDeps == (a :> {}) @@ (b :> {a}) @@ (c :> {b})
LineParent == (a :> b) @@ (b :> c) @@ (c :> NoTask)

\* b depends on a, and c is a task of its own.
ForkDeps == (a :> {}) @@ (b :> {a}) @@ (c :> {})
ForkParent == (a :> b) @@ (b :> NoTask) @@ (c :> NoTask)

\* b refuses to follow a, so that it can be done while a runs again.
DependencyVeto == {<<b, "dependency">>}
=============================================================================
