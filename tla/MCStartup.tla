----------------------------- MODULE MCStartup -----------------------------
(* Startup with a boolean flag of two names and others that may collide, *)
(* files that extend each other, and DAGs of four tasks.                  *)
EXTENDS Startup

\* Tasks depend on tasks that come before them.
TheOrder == <<"gen", "lint", "build", "test">>
Lists(S) == UNION {{s \in [1..n -> S] : IsInjective(s)} : n \in 0..Cardinality(S)}
TheDefinitions ==
  FoldLeft(LAMBDA ds, t : UNION {{d @@ (t :> list) : list \in Lists(DOMAIN d)} : d \in ds},
           {<<>>}, TheOrder)

Verbose == [long |-> "verbose", short |-> "v", type |-> "bool", default |-> None]
Count   == [long |-> "count", short |-> None, type |-> "int", default |-> "1"]
Clash   == [long |-> "volume", short |-> "v", type |-> "int", default |-> "1"]
HelpFlag == [long |-> "help", short |-> None, type |-> "bool", default |-> None]
\* A LongName of one byte, and a ShortName of two.
Single  == [long |-> "q", short |-> "s", type |-> "bool", default |-> None]
Accent  == [long |-> "edit", short |-> "e-acute", type |-> "bool", default |-> "0"]
Bare    == [long |-> None, short |-> "e-acute", type |-> "bool", default |-> "0"]

PlainFlags == {Verbose, Count, Clash, HelpFlag}
OddFlags == {Single, Accent, Bare}
TheFlags == PlainFlags \cup OddFlags

Word(w) == [word |-> w]
Flag(d, n, e, v) == [dashes |-> d, name |-> n, eqs |-> e, val |-> v]

PlainArgs ==
  {Word("build"), Word("test"), Word("tset"),
   Flag(2, "verbose", 1, "true"), Flag(1, "v", 1, "0"), Flag(1, "v", 0, None),
   Flag(2, "count", 1, "0"), Flag(2, "help", 0, None)}
OddArgs ==
  {Word("build"), Flag(1, "q", 1, "true"), Flag(1, "s", 1, "0"),
   Flag(1, "v", 1, "0"), Flag(2, "edit", 1, "true"), Flag(2, "e-acute", 1, "1"), Flag(1, "e-acute", 1, "1")}
TheArgs == PlainArgs \cup OddArgs

ThePairs == {"bool"} \X {"true", "0", "1"} \cup {"int"} \X {"0", "1"}

Ws == <<"ws.json">>
Us == <<"user.json">>
Base == <<"team", "base.json">>
TheFiles == {Ws, Us, Base}
\* user.json is a link into the home directory.
TheLinks == [f \in {Us} |-> <<"home", "me.json">>]

File(e, p, d) == [extends |-> e, path |-> p, desired |-> d]
Simple == File(None, <<".">>, {"test"})
Chained ==
  {File(e, p, d) : e \in {None, <<"team", "base.json">>, <<"..", "ws.json">>},
                   p \in {None, <<".", "src">>},
                   d \in {None, {"build"}, {"nowhere"}}}
Listed == {File(None, <<".">>, d) : d \in {{s, t} : s, t \in Tasks}}
TheContents == {Simple} \cup Chained \cup Listed

Opts(c, l, d, w, n) == [config |-> c, list |-> l, describe |-> d, watch |-> w, nonInteractive |-> n]
TheOptions ==
  {Opts(None, {}, FALSE, FALSE, FALSE), Opts(Base, {}, FALSE, TRUE, FALSE),
   Opts(None, {}, FALSE, FALSE, TRUE), Opts(Ws, {"list"}, FALSE, FALSE, FALSE),
   Opts(Ws, {"list", "listAll"}, FALSE, FALSE, FALSE), Opts(Ws, {}, TRUE, FALSE, FALSE)}
Plain == Opts(Ws, {}, FALSE, FALSE, FALSE)
AllTheOptions == TheOptions \cup {Plain}

\* Four explorations in one (a bound): command lines, names of flags, chains of
\* files, DAGs.
Has(flags) == \A t \in Tasks : \A k \in DOMAIN flagsByTask[t] : flagsByTask[t][k] \in flags
FlagsAt(ts) == \A t \in Tasks \ ts : flagsByTask[t] = <<>>
Holds(some) == ToSet(args) \subseteq some
OneFile == \A f \in DOMAIN disk : disk[f] = Simple
OneDag == \A t \in Tasks : definition[t] = IF t = "test" THEN <<"build">> ELSE <<>>
OneCommand == OneFile /\ OneDag /\ (options = NoOptions \/ options = Plain)
Focus ==
  \/ OneCommand /\ FlagsAt({"build", "test"}) /\ Has(PlainFlags) /\ Holds(PlainArgs)
  \/ OneCommand /\ FlagsAt({"build"}) /\ Has(OddFlags \cup {Verbose}) /\ Holds(OddArgs)
  \/ FlagsAt({}) /\ Len(args) <= 1 /\ OneDag
  \/ FlagsAt({}) /\ args = <<>> /\ Len(chain) <= 1
=============================================================================
