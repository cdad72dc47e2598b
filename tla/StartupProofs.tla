---------------------------- MODULE StartupProofs ----------------------------
(***************************************************************************)
(* Theorems about Startup, for any tasks, flags, command line, files and   *)
(* DAG.  Each part has its invariant; FlagsNext, ConfigNext and DagNext    *)
(* are what a step of Startup can be for its variables.                    *)
(***************************************************************************)
EXTENDS Startup, SequenceTheorems, FiniteSetTheorems, TLAPS

FlagsNext ==
  \/ \E t \in Tasks, f \in Flags : AddFlag(t, f)
  \/ Registered
  \/ \E arg \in Args : FlagArg(arg) \/ TaskArg(arg)
  \/ EndOfArgs

ConfigNext == (\E asked : C!Begin(asked)) \/ C!Step

DagNext ==
  \/ AddName /\ Head(names) \in Registry
  \/ AddDependency
  \/ Return

USE DEF groupVars

-----------------------------------------------------------------------------
(* Registry.Add *)

FlagsTypeOK ==
  /\ phase \in {"register", "args", "done", "panicked"}
  /\ flagsByTask = [t \in Tasks |-> flagsByTask[t]]
  /\ args \in Seq(Args)
  /\ currTaskName \in Tasks \cup {None}
  /\ currFlagsList \in Seq(Args)
  /\ groups \in [DOMAIN groups -> Seq(Args)] /\ DOMAIN groups \subseteq Tasks

LEMMA InitFlagsType == Init => FlagsTypeOK
  BY DEF Init, FlagsTypeOK

LEMMA StoredType ==
  ASSUME FlagsTypeOK
  PROVE  Stored \in [DOMAIN Stored -> Seq(Args)] /\ DOMAIN Stored \subseteq Tasks
<1>1. CASE currTaskName = None
  BY <1>1 DEF FlagsTypeOK, Stored
<1>2. CASE currTaskName # None
  <2>1. Stored = [x \in DOMAIN groups \cup {currTaskName} |->
                    IF x = currTaskName THEN currFlagsList ELSE groups[x]]
    BY <1>2 DEF Stored, With
  <2>2. QED BY <1>2, <2>1 DEF FlagsTypeOK
<1>3. QED BY <1>1, <1>2

LEMMA FlagsTypeStep == FlagsTypeOK /\ [FlagsNext]_vars => FlagsTypeOK'
<1> SUFFICES ASSUME FlagsTypeOK, [FlagsNext]_vars PROVE FlagsTypeOK'
  OBVIOUS
<1> USE DEF FlagsTypeOK
<1>1. ASSUME NEW t \in Tasks, NEW f \in Flags, AddFlag(t, f) PROVE FlagsTypeOK'
  BY <1>1 DEF AddFlag
<1>2. CASE Registered
  BY <1>2 DEF Registered
<1>3. ASSUME NEW arg \in Args, FlagArg(arg) PROVE FlagsTypeOK'
  BY <1>3, AppendProperties DEF FlagArg, Collected
<1>4. ASSUME NEW arg \in Args, TaskArg(arg) PROVE FlagsTypeOK'
  BY <1>4, StoredType, AppendProperties DEF TaskArg, Owner
<1>5. CASE EndOfArgs
  BY <1>5, StoredType DEF EndOfArgs
<1>6. CASE UNCHANGED vars
  BY <1>6 DEF vars
<1>7. QED BY <1>1, <1>2, <1>3, <1>4, <1>5, <1>6 DEF FlagsNext

\* A flag is accepted only if none of its names is taken, and then has all of
\* them.
LEMMA KeysStep == FlagsTypeOK /\ KeysAreUnambiguous /\ [FlagsNext]_vars => KeysAreUnambiguous'
<1> SUFFICES ASSUME FlagsTypeOK, KeysAreUnambiguous, [FlagsNext]_vars PROVE KeysAreUnambiguous'
  OBVIOUS
<1>1. CASE UNCHANGED flagsByTask
  BY <1>1 DEF KeysAreUnambiguous
<1>2. ASSUME NEW t \in Tasks, NEW f \in Flags, AddFlag(t, f), Accepted(t, f)
      PROVE  KeysAreUnambiguous'
  <2>1. /\ flagsByTask'[t] = [k \in DOMAIN flagsByTask[t] \cup Names(f) |->
                                IF k \in Names(f) THEN f ELSE flagsByTask[t][k]]
        /\ \A u \in Tasks \ {t} : flagsByTask'[u] = flagsByTask[u]
    BY <1>2 DEF AddFlag, FlagsTypeOK
  <2>2. \A k \in DOMAIN flagsByTask[t] : k \notin Names(f)
    BY <1>2 DEF Accepted, Taken
  <2>3. QED BY <2>1, <2>2 DEF KeysAreUnambiguous
<1>3. QED BY <1>1, <1>2 DEF FlagsNext, AddFlag, Registered, FlagArg, TaskArg, EndOfArgs, vars

\* What is in the registry has been declared.
DeclaredInv == \A t \in Tasks : \A k \in DOMAIN flagsByTask[t] : flagsByTask[t][k] \in Flags

LEMMA DeclaredStep == FlagsTypeOK /\ DeclaredInv /\ [FlagsNext]_vars => DeclaredInv'
<1> SUFFICES ASSUME FlagsTypeOK, DeclaredInv, [FlagsNext]_vars PROVE DeclaredInv'
  OBVIOUS
<1>1. CASE UNCHANGED flagsByTask
  BY <1>1 DEF DeclaredInv
<1>2. ASSUME NEW t \in Tasks, NEW f \in Flags, AddFlag(t, f), Accepted(t, f)
      PROVE  DeclaredInv'
  <2>1. /\ flagsByTask'[t] = [k \in DOMAIN flagsByTask[t] \cup Names(f) |->
                                IF k \in Names(f) THEN f ELSE flagsByTask[t][k]]
        /\ \A u \in Tasks \ {t} : flagsByTask'[u] = flagsByTask[u]
    BY <1>2 DEF AddFlag, FlagsTypeOK
  <2>2. QED BY <2>1 DEF DeclaredInv
<1>3. QED BY <1>1, <1>2 DEF FlagsNext, AddFlag, Registered, FlagArg, TaskArg, EndOfArgs, vars

-----------------------------------------------------------------------------
(* groupTaskAndFlagArgs *)

Mentions(i, t) == ~ IsFlag(args[i]) /\ args[i].word = t

\* i is the last mention of t, or 0.
LastAt(i, t) ==
  /\ i \in 0..Len(args)
  /\ i > 0 => Mentions(i, t)
  /\ \A j \in i + 1..Len(args) : ~ Mentions(j, t)

\* The flags after i end before e.
EndAt(e, i) ==
  /\ e \in i + 1..Len(args) + 1
  /\ e <= Len(args) => ~ IsFlag(args[e])
  /\ \A j \in i + 1..e - 1 : IsFlag(args[j])

Current(t) == t = currTaskName /\ phase # "done"

\* The flags of a task are being collected, or stored.
Collecting(t, i) ==
  /\ i > 0
  /\ EndAt(Len(args) + 1, i)
  /\ currFlagsList = SubSeq(args, i + 1, Len(args))

StoredUpTo(t, i, e) ==
  /\ EndAt(e, i)
  /\ phase # "done" => e <= Len(args)
  /\ groups[t] = SubSeq(args, i + 1, e - 1)

Grouped(t, i) ==
  IF Current(t)
  THEN Collecting(t, i)
  ELSE /\ t \in DOMAIN groups <=> i > 0
       /\ i > 0 => \E e \in 1..Len(args) + 1 : StoredUpTo(t, i, e)

GroupsInv == \A t \in Tasks : \E i \in 0..Len(args) : LastAt(i, t) /\ Grouped(t, i)

BlankInv ==
  phase \in {"register", "panicked"} => args = <<>> /\ currTaskName = None /\ groups = <<>>

LEMMA MaxIs ==
  ASSUME NEW S, S \subseteq Nat, NEW m \in S, \A y \in S : m >= y
  PROVE  Max(S) = m
<1> DEFINE P(x) == x \in S /\ \A y \in S : x >= y
<1>1. Max(S) = CHOOSE x : P(x)
  BY DEF Max
<1>2. P(m)
  OBVIOUS
<1>3. P(CHOOSE x : P(x))
  BY <1>2, Zenon
<1>4. P(Max(S))
  BY <1>1, <1>3
<1>5. Max(S) \in Nat /\ m \in Nat /\ Max(S) >= m /\ m >= Max(S)
  BY <1>4
<1>6. QED BY <1>5

LEMMA MinIs ==
  ASSUME NEW S, S \subseteq Nat, NEW m \in S, \A y \in S : m =< y
  PROVE  Min(S) = m
<1> DEFINE P(x) == x \in S /\ \A y \in S : x =< y
<1>1. Min(S) = CHOOSE x : P(x)
  BY DEF Min
<1>2. P(m)
  OBVIOUS
<1>3. P(CHOOSE x : P(x))
  BY <1>2, Zenon
<1>4. P(Min(S))
  BY <1>1, <1>3
<1>5. Min(S) \in Nat /\ m \in Nat /\ Min(S) =< m /\ m =< Min(S)
  BY <1>4
<1>6. QED BY <1>5

LEMMA LastMentionIs ==
  ASSUME FlagsTypeOK, NEW t, NEW i, LastAt(i, t)
  PROVE  LastMention(t) = i
<1> DEFINE S == {0} \cup {j \in 1..Len(args) : ~ IsFlag(args[j]) /\ args[j].word = t}
<1>1. Len(args) \in Nat
  BY LenProperties DEF FlagsTypeOK
<1>2. i \in S /\ S \subseteq Nat /\ \A y \in S : i >= y
  BY <1>1 DEF LastAt, Mentions
<1>3. LastMention(t) = Max(S)
  BY DEF LastMention
<1> HIDE DEF S
<1>4. QED BY <1>2, <1>3, MaxIs

LEMMA FollowingIs ==
  ASSUME FlagsTypeOK, NEW i \in Nat, NEW e, EndAt(e, i)
  PROVE  Following(i) = SubSeq(args, i + 1, e - 1)
<1> DEFINE S == {Len(args) + 1} \cup {j \in i + 1..Len(args) : ~ IsFlag(args[j])}
<1>1. Len(args) \in Nat
  BY LenProperties DEF FlagsTypeOK
<1>2. e \in S /\ S \subseteq Nat /\ \A y \in S : e =< y
  BY <1>1 DEF EndAt
<1>3. Following(i) = SubSeq(args, i + 1, Min(S) - 1)
  BY DEF Following
<1> HIDE DEF S
<1>4. Min(S) = e
  BY <1>2, MinIs
<1>5. QED BY <1>3, <1>4

LEMMA SubSeqOfAppend ==
  ASSUME NEW S, NEW s \in Seq(S), NEW x \in S, NEW i \in 1..Len(s) + 1, NEW n \in 0..Len(s)
  PROVE  SubSeq(Append(s, x), i, n) = SubSeq(s, i, n)
<1>1. /\ Len(s) \in Nat /\ Append(s, x) \in Seq(S) /\ Len(Append(s, x)) = Len(s) + 1
      /\ \A j \in 1..Len(s) : Append(s, x)[j] = s[j] /\ s[j] \in S
  BY LenProperties, AppendProperties, ElementOfSeq
<1>2. /\ SubSeq(s, i, n) \in Seq(S)
      /\ Len(SubSeq(s, i, n)) = IF i <= n THEN n - i + 1 ELSE 0
      /\ \A j \in 1..n - i + 1 : SubSeq(s, i, n)[j] = s[i + j - 1]
  BY <1>1, SubSeqProperties
<1>3. /\ SubSeq(Append(s, x), i, n) \in Seq(S)
      /\ Len(SubSeq(Append(s, x), i, n)) = IF i <= n THEN n - i + 1 ELSE 0
      /\ \A j \in 1..n - i + 1 : SubSeq(Append(s, x), i, n)[j] = Append(s, x)[i + j - 1]
  <2>1. \A j \in i..n : Append(s, x)[j] \in S
    BY <1>1
  <2>2. QED BY <2>1, SubSeqProperties
<1>4. \A j \in 1..Len(SubSeq(s, i, n)) : SubSeq(s, i, n)[j] = SubSeq(Append(s, x), i, n)[j]
  BY <1>1, <1>2, <1>3
<1>5. QED BY <1>2, <1>3, <1>4, SeqEqual

LEMMA SubSeqAppended ==
  ASSUME NEW S, NEW s \in Seq(S), NEW x \in S, NEW i \in 1..Len(s) + 1
  PROVE  SubSeq(Append(s, x), i, Len(s) + 1) = Append(SubSeq(s, i, Len(s)), x)
<1> DEFINE n == Len(s)
           u == SubSeq(s, i, n)
           v == SubSeq(Append(s, x), i, n + 1)
<1>1. /\ n \in Nat /\ Append(s, x) \in Seq(S)
      /\ \A j \in 1..n : Append(s, x)[j] = s[j] /\ s[j] \in S
      /\ Append(s, x)[n + 1] = x
  BY LenProperties, AppendProperties, ElementOfSeq
<1>2. u \in Seq(S) /\ Len(u) = n - i + 1 /\ \A j \in 1..n - i + 1 : u[j] = s[i + j - 1]
  BY <1>1, SubSeqProperties
<1>3. v \in Seq(S) /\ Len(v) = n - i + 2 /\ \A j \in 1..n - i + 2 : v[j] = Append(s, x)[i + j - 1]
  <2>1. \A j \in i..n + 1 : Append(s, x)[j] \in S
    BY <1>1
  <2>2. QED BY <1>1, <2>1, SubSeqProperties
<1>4. /\ Append(u, x) \in Seq(S) /\ Len(Append(u, x)) = Len(u) + 1
      /\ \A j \in 1..Len(u) : Append(u, x)[j] = u[j]
      /\ Append(u, x)[Len(u) + 1] = x
  BY <1>2, AppendProperties
<1>5. i \in 1..n + 1
  OBVIOUS
<1> HIDE DEF n, u, v
<1>6. Len(v) = Len(Append(u, x)) /\ Len(v) = Len(u) + 1
  BY <1>1, <1>2, <1>3, <1>4, <1>5
<1>7. \A j \in 1..Len(v) : v[j] = Append(u, x)[j]
  <2> SUFFICES ASSUME NEW j \in 1..Len(v) PROVE v[j] = Append(u, x)[j]
    OBVIOUS
  <2>1. v[j] = Append(s, x)[i + j - 1]
    BY <1>3
  <2>2. CASE j = Len(u) + 1
    <3>1. i + j - 1 = n + 1
      BY <2>2, <1>1, <1>2, <1>5
    <3>2. QED BY <2>1, <2>2, <3>1, <1>1, <1>4
  <2>3. CASE j # Len(u) + 1
    <3>1. j \in 1..n - i + 1 /\ j \in 1..Len(u) /\ i + j - 1 \in 1..n
      BY <2>3, <1>1, <1>2, <1>5, <1>6
    <3>2. Append(s, x)[i + j - 1] = s[i + j - 1] /\ u[j] = s[i + j - 1] /\ Append(u, x)[j] = u[j]
      BY <3>1, <1>1, <1>2, <1>4
    <3>3. QED BY <2>1, <3>2
  <2>4. QED BY <2>2, <2>3
<1>8. v = Append(u, x)
  BY <1>3, <1>4, <1>6, <1>7, SeqEqual
<1>9. QED BY <1>8 DEF n, u, v

LEMMA ArgAppended ==
  ASSUME FlagsTypeOK, NEW arg \in Args, args' = Append(args, arg)
  PROVE  /\ Len(args) \in Nat /\ Len(args') = Len(args) + 1
         /\ \A j \in 1..Len(args) : args'[j] = args[j]
         /\ args'[Len(args) + 1] = arg
         /\ \A i \in 1..Len(args) + 1, n \in 0..Len(args) :
              SubSeq(args', i, n) = SubSeq(args, i, n)
  BY LenProperties, AppendProperties, SubSeqOfAppend DEF FlagsTypeOK

LEMMA LastAtAppended ==
  ASSUME FlagsTypeOK, NEW arg \in Args, args' = Append(args, arg), NEW t,
         NEW i, LastAt(i, t), IsFlag(arg) \/ arg.word # t
  PROVE  LastAt(i, t)'
  BY ArgAppended DEF LastAt, Mentions

LEMMA EndAtAppended ==
  ASSUME FlagsTypeOK, NEW arg \in Args, args' = Append(args, arg),
         NEW i \in Nat, NEW e, EndAt(e, i), e <= Len(args) \/ ~ IsFlag(arg)
  PROVE  EndAt(e, i)' /\ e <= Len(args')
<1>1. e \in 1..Len(args) + 1
  BY ArgAppended DEF EndAt
<1>2. QED BY <1>1, ArgAppended DEF EndAt

LEMMA StoredAppended ==
  ASSUME FlagsTypeOK, NEW arg \in Args, args' = Append(args, arg), phase # "done",
         NEW t, NEW i \in 0..Len(args), NEW e \in 1..Len(args) + 1,
         StoredUpTo(t, i, e), groups'[t] = groups[t]
  PROVE  StoredUpTo(t, i, e)'
<1>1. EndAt(e, i)' /\ e <= Len(args')
  BY ArgAppended, EndAtAppended DEF StoredUpTo
<1>2. SubSeq(args', i + 1, e - 1) = SubSeq(args, i + 1, e - 1)
  BY ArgAppended
<1>3. QED BY <1>1, <1>2 DEF StoredUpTo

LEMMA StoredIs ==
  ASSUME NEW t
  PROVE  /\ t = currTaskName /\ t # None => t \in DOMAIN Stored /\ Stored[t] = currFlagsList
         /\ t # currTaskName => /\ t \in DOMAIN Stored <=> t \in DOMAIN groups
                                /\ t \in DOMAIN groups => Stored[t] = groups[t]
<1>1. CASE currTaskName = None
  BY <1>1 DEF Stored
<1>2. CASE currTaskName # None
  <2>1. Stored = [x \in DOMAIN groups \cup {currTaskName} |->
                    IF x = currTaskName THEN currFlagsList ELSE groups[x]]
    BY <1>2 DEF Stored, With
  <2>2. QED BY <2>1
<1>3. QED BY <1>1, <1>2

\* A flag: it is the next one of the task that is being collected.
LEMMA GroupsFlagArg ==
  ASSUME FlagsTypeOK, GroupsInv, NEW arg \in Args, FlagArg(arg)
  PROVE  GroupsInv'
<1> SUFFICES ASSUME NEW t \in Tasks
             PROVE  \E i \in 0..Len(args') : LastAt(i, t)' /\ Grouped(t, i)'
  BY DEF GroupsInv
<1>1. PICK i \in 0..Len(args) : LastAt(i, t) /\ Grouped(t, i)
  BY DEF GroupsInv
<1>2. /\ args' = Append(args, arg) /\ IsFlag(arg) /\ phase = "args"
      /\ phase' = phase /\ groups' = groups /\ currTaskName' = currTaskName
      /\ currFlagsList' = Collected(arg)
  BY DEF FlagArg
<1>3. LastAt(i, t)' /\ i \in 0..Len(args')
  BY <1>1, <1>2, LastAtAppended, ArgAppended
<1>4. CASE Current(t)
  <2>1. Collecting(t, i) /\ i \in 1..Len(args)
    BY <1>1, <1>4, ArgAppended DEF Grouped, Collecting
  <2>0. PICK n \in Nat : n = Len(args) + 1 /\ n = Len(args')
    BY <1>2, ArgAppended
  <2>2. EndAt(n + 1, i)'
    <3>1. IsFlag(args'[n]) /\ \A j \in i + 1..n - 1 : IsFlag(args'[j])
      BY <1>2, <2>1, <2>0, ArgAppended DEF Collecting, EndAt
    <3>2. QED BY <2>1, <2>0, <3>1 DEF EndAt
  <2>3. currFlagsList' = SubSeq(args', i + 1, Len(args'))
    <3>1. currFlagsList' = Append(currFlagsList, arg)
      BY <1>2, <1>4, FlagsAssumption DEF Collected, Current
    <3>2. SubSeq(args', i + 1, Len(args) + 1) = Append(SubSeq(args, i + 1, Len(args)), arg)
      <4>1. args \in Seq(Args) /\ i + 1 \in 1..Len(args) + 1
        BY <1>2, <2>1, ArgAppended DEF FlagsTypeOK
      <4>2. QED BY <1>2, <4>1, SubSeqAppended
    <3>3. QED BY <1>2, <2>1, <3>1, <3>2, ArgAppended DEF Collecting
  <2>4. Grouped(t, i)'
    BY <1>2, <1>4, <2>1, <2>0, <2>2, <2>3 DEF Grouped, Collecting, Current
  <2>5. QED BY <1>3, <2>4
<1>5. CASE ~ Current(t)
  <2>1. i > 0 => \E e \in 1..Len(args') + 1 : StoredUpTo(t, i, e)'
    <3>1. SUFFICES ASSUME i > 0 PROVE \E e \in 1..Len(args') + 1 : StoredUpTo(t, i, e)'
      OBVIOUS
    <3>2. PICK e \in 1..Len(args) + 1 : StoredUpTo(t, i, e)
      BY <1>1, <1>5, <3>1 DEF Grouped
    <3>3. e \in 1..Len(args') + 1
      BY <1>2, ArgAppended
    <3>4. StoredUpTo(t, i, e)'
      BY <1>1, <1>2, <3>2, StoredAppended
    <3>5. QED BY <3>3, <3>4
  <2>2. Grouped(t, i)'
    BY <1>1, <1>2, <1>5, <2>1 DEF Grouped, Current
  <2>3. QED BY <1>3, <2>2
<1>6. QED BY <1>4, <1>5

\* A word: what was collected is stored, and what follows is for the task named.
LEMMA GroupsTaskArg ==
  ASSUME FlagsTypeOK, GroupsInv, NEW arg \in Args, TaskArg(arg)
  PROVE  GroupsInv'
<1> SUFFICES ASSUME NEW t \in Tasks
             PROVE  \E i \in 0..Len(args') : LastAt(i, t)' /\ Grouped(t, i)'
  BY DEF GroupsInv
<1>1. PICK i \in 0..Len(args) : LastAt(i, t) /\ Grouped(t, i)
  BY DEF GroupsInv
<1>2. /\ args' = Append(args, arg) /\ ~ IsFlag(arg) /\ phase = "args"
      /\ phase' = phase /\ groups' = Stored /\ currTaskName' = Owner(arg)
      /\ currFlagsList' = <<>>
  BY DEF TaskArg
<1>3. CASE arg.word = t
  <2>0. PICK n \in Nat \ {0} : n = Len(args')
    BY <1>2, ArgAppended
  <2>1. n = Len(args') /\ args'[n] = arg
    BY <1>2, <2>0, ArgAppended
  <2>2. LastAt(n, t)'
    BY <1>2, <1>3, <2>1 DEF LastAt, Mentions
  <2>3. EndAt(n + 1, n)'
    BY <2>1 DEF EndAt
  <2>4. SubSeq(args', n + 1, n) = <<>>
    BY <2>1, SubSeqEmpty
  <2>5. Current(t)'
    BY <1>2, <1>3 DEF Current, Owner
  <2>6. Grouped(t, n)'
    BY <1>2, <2>1, <2>3, <2>4, <2>5 DEF Grouped, Collecting
  <2>7. QED BY <2>1, <2>2, <2>6
<1>4. CASE arg.word # t
  <2>1. LastAt(i, t)' /\ i \in 0..Len(args')
    BY <1>1, <1>2, <1>4, LastAtAppended, ArgAppended
  <2>2. ~ Current(t)'
    BY <1>2, <1>4, FlagsAssumption DEF Current, Owner
  <2>3. CASE Current(t)
    <3>1. Collecting(t, i) /\ i \in 1..Len(args)
      BY <1>1, <2>3, ArgAppended DEF Grouped, Collecting
    <3>2. t \in DOMAIN groups' /\ groups'[t] = currFlagsList
      BY <1>2, <2>3, StoredIs, FlagsAssumption DEF Current
    <3>0. PICK n \in Nat : n = Len(args) + 1 /\ n = Len(args')
      BY <1>2, ArgAppended
    <3>3. EndAt(n, i)' /\ n \in 1..Len(args') + 1
      BY <1>2, <3>1, <3>0, EndAtAppended DEF Collecting
    <3>4. SubSeq(args', i + 1, n - 1) = SubSeq(args, i + 1, Len(args))
      BY <1>2, <3>1, <3>0, ArgAppended
    <3>5. StoredUpTo(t, i, n)'
      BY <1>2, <3>1, <3>0, <3>2, <3>3, <3>4 DEF StoredUpTo, Collecting
    <3>6. QED BY <2>1, <2>2, <3>1, <3>2, <3>3, <3>5 DEF Grouped, Collecting
  <2>4. CASE ~ Current(t)
    <3>1. /\ t \in DOMAIN groups' <=> t \in DOMAIN groups
          /\ t \in DOMAIN groups => groups'[t] = groups[t]
      BY <1>2, <2>4, StoredIs DEF Current
    <3>2. i > 0 => \E e \in 1..Len(args') + 1 : StoredUpTo(t, i, e)'
      <4>1. SUFFICES ASSUME i > 0 PROVE \E e \in 1..Len(args') + 1 : StoredUpTo(t, i, e)'
        OBVIOUS
      <4>2. PICK e \in 1..Len(args) + 1 : StoredUpTo(t, i, e)
        BY <1>1, <2>4, <4>1 DEF Grouped
      <4>3. e \in 1..Len(args') + 1
        BY <1>2, ArgAppended
      <4>4. groups'[t] = groups[t]
        BY <1>1, <2>4, <3>1, <4>1 DEF Grouped
      <4>5. StoredUpTo(t, i, e)'
        BY <1>1, <1>2, <4>2, <4>4, StoredAppended
      <4>6. QED BY <4>3, <4>5
    <3>3. Grouped(t, i)'
      BY <1>1, <2>2, <2>4, <3>1, <3>2 DEF Grouped
    <3>4. QED BY <2>1, <3>3
  <2>5. QED BY <2>3, <2>4
<1>5. QED BY <1>3, <1>4

LEMMA GroupsEndOfArgs ==
  ASSUME FlagsTypeOK, GroupsInv, EndOfArgs
  PROVE  GroupsInv'
<1> SUFFICES ASSUME NEW t \in Tasks
             PROVE  \E i \in 0..Len(args') : LastAt(i, t)' /\ Grouped(t, i)'
  BY DEF GroupsInv
<1>1. PICK i \in 0..Len(args) : LastAt(i, t) /\ Grouped(t, i)
  BY DEF GroupsInv
<1>2. /\ phase = "args" /\ phase' = "done" /\ groups' = Stored
      /\ args' = args /\ currTaskName' = currTaskName /\ currFlagsList' = currFlagsList
  BY DEF EndOfArgs
<1>3. LastAt(i, t)'
  BY <1>1, <1>2 DEF LastAt, Mentions
<1>4. CASE t = currTaskName
  <2>1. Collecting(t, i)
    BY <1>1, <1>2, <1>4 DEF Grouped, Current
  <2>2. t \in DOMAIN groups' /\ groups'[t] = currFlagsList
    BY <1>2, <1>4, StoredIs, FlagsAssumption
  <2>3. Len(args) \in Nat
    BY LenProperties DEF FlagsTypeOK
  <2>0. PICK n \in Nat : n = Len(args)
    BY <2>3
  <2>4. StoredUpTo(t, i, n + 1)'
    BY <1>2, <2>1, <2>2, <2>0 DEF StoredUpTo, Collecting, EndAt
  <2>5. n + 1 \in 1..Len(args') + 1
    BY <1>2, <2>0
  <2>6. Grouped(t, i)'
    BY <1>2, <2>1, <2>2, <2>4, <2>5 DEF Grouped, Current, Collecting
  <2>7. QED BY <1>1, <1>2, <1>3, <2>6
<1>5. CASE t # currTaskName
  <2>1. /\ t \in DOMAIN groups' <=> t \in DOMAIN groups
        /\ t \in DOMAIN groups => groups'[t] = groups[t]
    BY <1>2, <1>5, StoredIs
  <2>2. \A e : StoredUpTo(t, i, e) /\ t \in DOMAIN groups => StoredUpTo(t, i, e)'
    BY <1>2, <2>1 DEF StoredUpTo, EndAt
  <2>3. Grouped(t, i)'
    BY <1>1, <1>2, <1>5, <2>1, <2>2 DEF Grouped, Current
  <2>4. QED BY <1>1, <1>2, <1>3, <2>3
<1>6. QED BY <1>4, <1>5

LEMMA GroupsStep ==
  FlagsTypeOK /\ BlankInv /\ GroupsInv /\ [FlagsNext]_vars => GroupsInv' /\ BlankInv'
<1> SUFFICES ASSUME FlagsTypeOK, BlankInv, GroupsInv, [FlagsNext]_vars
             PROVE  GroupsInv' /\ BlankInv'
  OBVIOUS
<1>1. ASSUME UNCHANGED groupVars,
             phase' = phase \/ (phase' \in {"panicked", "args"} /\ phase = "register")
      PROVE  GroupsInv' /\ BlankInv'
  <2>1. BlankInv'
    BY <1>1 DEF BlankInv
  <2>2. (phase' # "done") <=> (phase # "done")
    BY <1>1
  <2>3. \A t, i : /\ LastAt(i, t) => LastAt(i, t)'
                  /\ Grouped(t, i) => Grouped(t, i)'
    BY <1>1, <2>2 DEF LastAt, Mentions, Grouped, Collecting, StoredUpTo, EndAt, Current
  <2>4. QED BY <1>1, <2>1, <2>3 DEF GroupsInv
<1>2. ASSUME NEW t \in Tasks, NEW f \in Flags, AddFlag(t, f) PROVE GroupsInv' /\ BlankInv'
  <2>1. /\ UNCHANGED groupVars
        /\ phase' = phase \/ (phase' = "panicked" /\ phase = "register")
    BY <1>2 DEF AddFlag
  <2>2. QED BY <2>1, <1>1
<1>3. CASE Registered
  BY <1>1, <1>3 DEF Registered
<1>4. ASSUME NEW arg \in Args, FlagArg(arg) PROVE GroupsInv' /\ BlankInv'
  BY <1>4, GroupsFlagArg DEF FlagArg, BlankInv
<1>5. ASSUME NEW arg \in Args, TaskArg(arg) PROVE GroupsInv' /\ BlankInv'
  BY <1>5, GroupsTaskArg DEF TaskArg, BlankInv
<1>6. CASE EndOfArgs
  BY <1>6, GroupsEndOfArgs DEF EndOfArgs, BlankInv
<1>7. CASE UNCHANGED vars
  <2>1. UNCHANGED <<groupVars, phase>>
    BY <1>7 DEF vars
  <2>2. QED BY <2>1, <1>1
<1>8. QED BY <1>2, <1>3, <1>4, <1>5, <1>6, <1>7 DEF FlagsNext

LEMMA GroupedIs ==
  ASSUME FlagsTypeOK, GroupsInv, phase = "done", NEW t \in Tasks
  PROVE  /\ t \in DOMAIN groups <=> \E i \in 1..Len(args) : Mentions(i, t)
         /\ t \in DOMAIN groups <=> LastMention(t) > 0
         /\ t \in DOMAIN groups => groups[t] = Following(LastMention(t))
<1>1. PICK i \in 0..Len(args) : LastAt(i, t) /\ Grouped(t, i)
  BY DEF GroupsInv
<1>2. LastMention(t) = i /\ i \in Nat /\ Len(args) \in Nat
  BY <1>1, LastMentionIs, LenProperties DEF FlagsTypeOK
<1>3. t \in DOMAIN groups <=> i > 0
  BY <1>1 DEF Grouped, Current
<1>4. i > 0 <=> \E j \in 1..Len(args) : Mentions(j, t)
  <2>1. ASSUME NEW j \in 1..Len(args), Mentions(j, t) PROVE i > 0
    BY <1>1, <1>2, <2>1 DEF LastAt
  <2>2. ASSUME i > 0 PROVE i \in 1..Len(args) /\ Mentions(i, t)
    BY <1>1, <1>2, <2>2 DEF LastAt
  <2>3. QED BY <2>1, <2>2
<1>5. ASSUME t \in DOMAIN groups PROVE groups[t] = Following(i)
  <2>1. PICK e \in 1..Len(args) + 1 : StoredUpTo(t, i, e)
    BY <1>1, <1>3, <1>5 DEF Grouped, Current
  <2>2. QED BY <1>2, <2>1, FollowingIs DEF StoredUpTo
<1>6. QED BY <1>2, <1>3, <1>4, <1>5

LEMMA GroupsFollow == FlagsTypeOK /\ GroupsInv => FlagsFollowTheirTask
<1>1. FlagsTypeOK => DOMAIN groups \subseteq Tasks
  BY DEF FlagsTypeOK
<1>2. QED BY <1>1, GroupedIs DEF FlagsFollowTheirTask

\* An unknown word is remembered.
WordsInv ==
  /\ foundInvalidTasks \in BOOLEAN
  /\ foundInvalidTasks <=> \E i \in 1..Len(args) : ~ IsFlag(args[i]) /\ args[i].word \notin Tasks

LEMMA WordsStep == FlagsTypeOK /\ WordsInv /\ [FlagsNext]_vars => WordsInv'
<1> SUFFICES ASSUME FlagsTypeOK, WordsInv, [FlagsNext]_vars PROVE WordsInv'
  OBVIOUS
<1>1. CASE UNCHANGED <<args, foundInvalidTasks>>
  BY <1>1 DEF WordsInv
<1>2. ASSUME NEW arg \in Args, args' = Append(args, arg),
             foundInvalidTasks' = (foundInvalidTasks \/ (~ IsFlag(arg) /\ arg.word \notin Tasks))
      PROVE  WordsInv'
  <2>1. /\ Len(args) \in Nat /\ Len(args') = Len(args) + 1 /\ args'[Len(args) + 1] = arg
        /\ \A j \in 1..Len(args) : args'[j] = args[j]
    BY <1>2, ArgAppended
  <2> DEFINE Unknown(a) == ~ IsFlag(a) /\ a.word \notin Tasks
  <2>2. (\E i \in 1..Len(args') : Unknown(args'[i]))
          <=> ((\E i \in 1..Len(args) : Unknown(args[i])) \/ Unknown(arg))
    <3> HIDE DEF Unknown
    <3>1. \A i \in 1..Len(args') : i \in 1..Len(args) \/ i = Len(args) + 1
      BY <2>1
    <3>2. \A i \in 1..Len(args) : i \in 1..Len(args')
      BY <2>1
    <3>3. Len(args) + 1 \in 1..Len(args')
      BY <2>1
    <3>4. QED BY <2>1, <3>1, <3>2, <3>3
  <2>3. QED BY <1>2, <2>2 DEF WordsInv
<1>3. ASSUME NEW arg \in Args, FlagArg(arg) PROVE WordsInv'
  BY <1>2, <1>3 DEF FlagArg, WordsInv
<1>4. ASSUME NEW arg \in Args, TaskArg(arg) PROVE WordsInv'
  BY <1>2, <1>4 DEF TaskArg
<1>5. QED BY <1>1, <1>3, <1>4 DEF FlagsNext, AddFlag, Registered, EndOfArgs, vars

-----------------------------------------------------------------------------
(* parseTaskFlagsIntoMap *)

\* Induction: what is not so for some number is not so for a least one.
LEMMA LeastNatural ==
  ASSUME NEW S \in SUBSET Nat, S # {}
  PROVE  \E m \in S : \A k \in S : m <= k
<1>1. PICK R : R = OpToRel(<, Nat)
  BY Zenon
<1>2. IsWellFoundedOn(R, Nat)
  BY <1>1, NatLessThanWellFounded, Zenon
<1>3. PICK m \in S : \A k \in S : ~ (<<k, m>> \in R)
  BY <1>2, WFMin
<1>4. R = {ss \in Nat \X Nat : ss[1] < ss[2]}
  BY <1>1, Zenon DEF OpToRel
<1>5. \A k \in S : ~ (k < m)
  BY <1>3, <1>4
<1>6. QED BY <1>5

\* g is the maps after the first n flags of the list of t.
MapOf(t, g, n) ==
  g = [i \in 0..n |-> IF i = 0 THEN DefaultArgs(t) ELSE Applied(t, g[i - 1], groups[t][i])]

LEMMA ParsedIs ==
  ASSUME NEW t, Len(groups[t]) \in Nat
  PROVE  MapOf(t, Parsed(t), Len(groups[t]))
<1> DEFINE L == Len(groups[t])
           T == {n \in 0..L : ~ \E g : MapOf(t, g, n)}
<1>1. T = {}
  <2> SUFFICES ASSUME T # {} PROVE FALSE
    OBVIOUS
  <2>1. T \in SUBSET Nat
    OBVIOUS
  <2>2. PICK n \in T : \A k \in T : n <= k
    BY <2>1, LeastNatural
  <2>3. n \in 0..L /\ n \in Nat
    OBVIOUS
  <2>4. CASE n = 0
    <3>1. MapOf(t, [i \in 0..0 |-> DefaultArgs(t)], 0)
      BY DEF MapOf
    <3>2. QED BY <2>4, <3>1
  <2>5. CASE n # 0
    <3>1. n - 1 \in 0..L /\ n - 1 \notin T
      BY <2>2, <2>3, <2>5
    <3>2. PICK g : MapOf(t, g, n - 1)
      BY <3>1
    <3>3. PICK v : v = Applied(t, g[n - 1], groups[t][n])
      OBVIOUS
    <3>4. PICK h : h = [i \in 0..n |-> IF i = n THEN v ELSE g[i]]
      OBVIOUS
    <3>5. ASSUME NEW i \in 0..n
          PROVE  h[i] = IF i = 0 THEN DefaultArgs(t) ELSE Applied(t, h[i - 1], groups[t][i])
      <4>1. CASE i = n
        <5>1. h[i - 1] = g[n - 1]
          BY <2>3, <2>5, <3>4, <4>1
        <5>2. QED BY <2>5, <3>3, <3>4, <4>1, <5>1
      <4>2. CASE i # n
        <5>1. i \in 0..n - 1
          BY <2>3, <4>2
        <5>2. g[i] = IF i = 0 THEN DefaultArgs(t) ELSE Applied(t, g[i - 1], groups[t][i])
          BY <3>2, <5>1 DEF MapOf
        <5>3. h[i] = g[i] /\ (i # 0 => h[i - 1] = g[i - 1])
          BY <2>3, <3>4, <4>2, <5>1
        <5>4. QED BY <5>2, <5>3
      <4>3. QED BY <4>1, <4>2
    <3>6. MapOf(t, h, n)
      BY <3>4, <3>5 DEF MapOf
    <3>7. QED BY <3>6
  <2>6. QED BY <2>4, <2>5
<1>2. L \in 0..L
  OBVIOUS
<1>3. \E g : MapOf(t, g, L)
  BY <1>1, <1>2
<1>4. Parsed(t) = CHOOSE g : MapOf(t, g, L)
  BY DEF Parsed, MapOf
<1>5. MapOf(t, CHOOSE g : MapOf(t, g, L), L)
  BY <1>3, Zenon
<1>6. QED BY <1>4, <1>5

LEMMA OtherNameIs ==
  ASSUME NEW f \in Flags, NamesByLength(f), NEW key \in Names(f)
  PROVE  {key} \cup OtherName(f, key) = Names(f)
<1> USE DEF Names, NamesByLength
<1>1. CASE f.long = None \/ f.short = None
  <2>1. OtherName(f, key) = {}
    BY <1>1 DEF OtherName
  <2>2. QED BY <1>1, <2>1
<1>2. CASE f.long # None /\ f.short # None /\ key = f.long
  BY <1>2 DEF OtherName
<1>3. CASE f.long # None /\ f.short # None /\ key # f.long
  BY <1>3 DEF OtherName
<1>4. QED BY <1>1, <1>2, <1>3

\* No flag writes under a name of another.
LEMMA OtherNameIsOwn ==
  ASSUME NEW f, NEW key \in Names(f)
  PROVE  {key} \cup OtherName(f, key) \subseteq Names(f)
  BY DEF OtherName, Names

\* v is what the first n flags of the list of t give flag f.
ValueUpTo(t, n, f, v) ==
  \/ v = f.default /\ \A i \in 1..n : ~ Gives(t, i, f)
  \/ \E i \in 1..n : /\ v = groups[t][i].val /\ Gives(t, i, f)
                    /\ \A j \in i + 1..n : ~ Gives(t, j, f)

LEMMA ValueIsLast ==
  ASSUME NEW t, NEW f, NEW v, Len(groups[t]) \in Nat, ValueUpTo(t, Len(groups[t]), f, v)
  PROVE  v = LastValue(t, f)
<1> DEFINE S == {i \in 1..Len(groups[t]) : Gives(t, i, f)}
<1>1. LastValue(t, f) = IF S = {} THEN f.default ELSE groups[t][Max(S)].val
  BY DEF LastValue
<1>2. CASE S = {}
  BY <1>1, <1>2 DEF ValueUpTo
<1>3. CASE S # {}
  <2>1. PICK i \in S : /\ v = groups[t][i].val
                      /\ \A j \in i + 1..Len(groups[t]) : ~ Gives(t, j, f)
    BY <1>3 DEF ValueUpTo
  <2>2. S \subseteq Nat /\ \A j \in S : i >= j
    BY <2>1
  <2> HIDE DEF S
  <2>3. Max(S) = i
    BY <2>2, MaxIs
  <2>4. QED BY <1>1, <1>3, <2>1, <2>3
<1>4. QED BY <1>2, <1>3

\* The map m has the value of each flag under its names.
MapUpTo(t, n, m) ==
  /\ DOMAIN m = DOMAIN flagsByTask[t]
  /\ \A k \in DOMAIN flagsByTask[t] :
       /\ m[k].type = flagsByTask[t][k].type
       /\ NamesByLength(flagsByTask[t][k]) => ValueUpTo(t, n, flagsByTask[t][k], m[k].value)

LEMMA ValueGoesOn ==
  ASSUME NEW t, NEW n \in Nat \ {0}, NEW f, NEW v, ValueUpTo(t, n - 1, f, v), ~ Gives(t, n, f)
  PROVE  ValueUpTo(t, n, f, v)
<1>1. \A i \in 1..n : i # n => i \in 1..n - 1
  OBVIOUS
<1>2. \A i \in 1..n - 1 : i \in 1..n /\ \A j \in i + 1..n : j # n => j \in i + 1..n - 1
  OBVIOUS
<1>3. QED BY <1>1, <1>2 DEF ValueUpTo

LEMMA AppliedStep ==
  ASSUME KeysAreUnambiguous, DeclaredInv, NEW t \in Tasks,
         NEW n \in Nat \ {0}, NEW m, MapUpTo(t, n - 1, m), Verified(t, groups[t][n])
  PROVE  MapUpTo(t, n, Applied(t, m, groups[t][n]))
<1>1. PICK arg, f : arg = groups[t][n] /\ f = flagsByTask[t][arg.name]
  OBVIOUS
<1>2. PICK new : new = [passed |-> TRUE, value |-> arg.val, type |-> f.type]
  OBVIOUS
<1>3. /\ new.value = arg.val /\ new.type = f.type
       /\ Applied(t, m, arg) =
            IF arg.val = None THEN m
            ELSE [k \in DOMAIN m |->
                    IF k \in {arg.name} \cup OtherName(f, arg.name) THEN new ELSE m[k]]
  BY <1>1, <1>2 DEF Applied
<1>4. /\ arg.name \in DOMAIN flagsByTask[t] /\ f \in Flags /\ arg.name \in Names(f)
      /\ \A k \in Names(f) : k \in DOMAIN flagsByTask[t] /\ flagsByTask[t][k] = f
  BY <1>1 DEF Verified, DeclaredInv, KeysAreUnambiguous
<1>5. CASE arg.val = None
  <2>1. \A g : ~ Gives(t, n, g)
    BY <1>1, <1>5 DEF Gives
  <2>2. Applied(t, m, arg) = m
    BY <1>3, <1>5
  <2>3. QED BY <1>1, <2>1, <2>2, ValueGoesOn DEF MapUpTo
<1>6. CASE arg.val # None
  <2>1. PICK W : W = {arg.name} \cup OtherName(f, arg.name)
    OBVIOUS
  <2>2. W \subseteq Names(f) /\ (NamesByLength(f) => W = Names(f))
    BY <1>4, <2>1, OtherNameIs, OtherNameIsOwn
  <2>3. PICK h : h = Applied(t, m, arg)
    OBVIOUS
  <2>4. h = [k \in DOMAIN flagsByTask[t] |-> IF k \in W THEN new ELSE m[k]]
    BY <1>3, <1>6, <2>1, <2>3 DEF MapUpTo
  <2>5. ASSUME NEW k \in DOMAIN flagsByTask[t]
        PROVE  /\ h[k].type = flagsByTask[t][k].type
               /\ NamesByLength(flagsByTask[t][k])
                    => ValueUpTo(t, n, flagsByTask[t][k], h[k].value)
    <3>1. CASE k \in W
      <4>1. flagsByTask[t][k] = f /\ h[k] = new
        BY <1>4, <2>2, <2>4, <3>1
      <4>2. Gives(t, n, f) /\ n \in 1..n /\ n + 1..n = {}
        BY <1>1, <1>4, <1>6 DEF Gives
      <4>3. ValueUpTo(t, n, f, arg.val)
        BY <1>1, <4>2 DEF ValueUpTo
      <4>4. QED BY <1>3, <4>1, <4>3
    <3>2. CASE k \in Names(f) \ W
      <4>1. flagsByTask[t][k] = f /\ h[k] = m[k] /\ ~ NamesByLength(f)
        BY <1>4, <2>2, <2>4, <3>2
      <4>2. QED BY <4>1 DEF MapUpTo
    <3>3. CASE k \notin Names(f)
      <4>1. h[k] = m[k]
        BY <2>2, <2>4, <3>3
      <4>2. arg.name \notin Names(flagsByTask[t][k])
        BY <1>1, <3>3 DEF KeysAreUnambiguous
      <4>3. ~ Gives(t, n, flagsByTask[t][k])
        BY <1>1, <4>2 DEF Gives
      <4>4. QED BY <4>1, <4>3, ValueGoesOn DEF MapUpTo
    <3>4. QED BY <3>1, <3>2, <3>3
  <2>6. DOMAIN h = DOMAIN flagsByTask[t]
    BY <2>4
  <2>7. QED BY <1>1, <2>3, <2>5, <2>6 DEF MapUpTo
<1>7. QED BY <1>5, <1>6

\* By the least number of flags after which it would not be so.
LEMMA ParsedUpTo ==
  ASSUME KeysAreUnambiguous, DeclaredInv, NEW t \in Tasks,
         groups[t] \in Seq(Args), t \in DOMAIN groups, ~ ParsePanics(t)
  PROVE  MapUpTo(t, Len(groups[t]), Parsed(t)[Len(groups[t])])
<1> DEFINE L == Len(groups[t])
           T == {n \in 0..L : ~ MapUpTo(t, n, Parsed(t)[n])}
<1>1. L \in Nat
  BY LenProperties
<1>2. \A n \in 0..L : Parsed(t)[n] = IF n = 0 THEN DefaultArgs(t)
                                     ELSE Applied(t, Parsed(t)[n - 1], groups[t][n])
  BY <1>1, ParsedIs DEF MapOf
<1>3. SUFFICES ASSUME T # {} PROVE FALSE
  BY <1>1
<1>4. PICK n \in T : \A k \in T : n <= k
  <2>1. T \in SUBSET Nat
    BY <1>1
  <2> HIDE DEF T
  <2>2. QED BY <1>3, <2>1, LeastNatural
<1>5. CASE n = 0
  <2>1. MapUpTo(t, 0, DefaultArgs(t))
    BY DEF MapUpTo, DefaultArgs, ValueUpTo
  <2>2. QED BY <1>2, <1>5, <2>1
<1>6. CASE n # 0
  <2>1. n \in 1..L /\ n \in Nat \ {0} /\ n - 1 \in 0..L /\ n - 1 \notin T
    BY <1>1, <1>4, <1>6
  <2>2. MapUpTo(t, n - 1, Parsed(t)[n - 1])
    BY <2>1
  <2>3. Verified(t, groups[t][n])
    BY <2>1 DEF ParsePanics, WellFormed, ToSet
  <2>4. MapUpTo(t, n, Applied(t, Parsed(t)[n - 1], groups[t][n]))
    BY <2>1, <2>2, <2>3, AppliedStep
  <2>5. QED BY <1>2, <1>6, <2>1, <2>4
<1>7. QED BY <1>5, <1>6

LEMMA ValuesFollow ==
  ASSUME KeysAreUnambiguous, DeclaredInv,
         groups \in [DOMAIN groups -> Seq(Args)], DOMAIN groups \subseteq Tasks
  PROVE  LastValueUnderBothNames
<1> SUFFICES ASSUME NEW t \in DOMAIN groups, ~ ParsePanics(t), NEW k \in DOMAIN FlagMap(t),
                    NEW f, f = flagsByTask[t][k], NamesByLength(f)
             PROVE  Get(FlagMap(t)[k], f.type) =
                      Get([passed |-> TRUE, value |-> LastValue(t, f), type |-> f.type], f.type)
  BY DEF LastValueUnderBothNames, ReadsLastValue
<1>1. groups[t] \in Seq(Args) /\ t \in Tasks /\ Len(groups[t]) \in Nat
  BY LenProperties
<1>2. MapUpTo(t, Len(groups[t]), FlagMap(t))
  BY <1>1, ParsedUpTo DEF FlagMap
<1>3. FlagMap(t)[k].type = f.type /\ FlagMap(t)[k].value = LastValue(t, f)
  BY <1>1, <1>2, ValueIsLast DEF MapUpTo
<1>4. QED BY <1>3 DEF Get

-----------------------------------------------------------------------------
(* ReadConfig *)

ConfigTypeOK ==
  /\ reading \in {"idle", "down", "up", "done", "failed"}
  /\ \E S : chain \in Seq(S)
  /\ \A f \in DOMAIN disk : disk[f] \in Contents \cup {Missing, Broken}

\* The file at i was read, and is no error.
IsRead(i) == chain[i] \in DOMAIN disk /\ disk[chain[i]] \in Contents

\* n is the first file from i on that names a directory.
Nearest(i, n) ==
  /\ n \in i..Len(chain)
  /\ disk[chain[n]].path # None
  /\ \A j \in i..n - 1 : disk[chain[j]].path = None

\* The Config is that of the files from i on.
Merged(i) ==
  /\ config.configPath = chain[i]
  /\ \E n \in i..Len(chain) :
       /\ Nearest(i, n)
       /\ config.workingDir = C!WorkingDir(chain[n], disk[chain[n]].path)
  /\ config.desired = UNION {C!Desired(disk[chain[j]]) : j \in i..Len(chain)}

ConfigInv ==
  /\ reading = "idle" => chain = <<>>
  /\ reading \in {"down", "up", "done"} => at \in 1..Len(chain)
  /\ reading = "down" => at = Len(chain) /\ \A i \in 1..at - 1 : IsRead(i)
  /\ reading \in {"up", "done"} => (\A i \in 1..Len(chain) : IsRead(i)) /\ Merged(at)
  /\ reading = "done" => at = 1

\* A file that was read stays as it was.
LEMMA ReadKeeps ==
  ASSUME ConfigTypeOK, NEW f, NEW c \in C!CouldBe(f), C!Read(f, c)
  PROVE  /\ f \in DOMAIN disk' /\ disk'[f] = c
         /\ \A g \in DOMAIN disk : g \in DOMAIN disk' /\ disk'[g] = disk[g]
         /\ c \in Contents \cup {Missing, Broken}
         /\ \A g \in DOMAIN disk' : disk'[g] \in Contents \cup {Missing, Broken}
<1>1. c \in Contents \cup {Missing, Broken} /\ (f \in DOMAIN disk => c = disk[f])
  BY DEF C!CouldBe, ConfigTypeOK
<1>2. disk' = [g \in DOMAIN disk \cup {f} |-> IF g = f THEN c ELSE disk[g]]
  BY DEF C!Read
<1>3. QED BY <1>1, <1>2 DEF ConfigTypeOK

LEMMA ConfigBegin ==
  ASSUME ConfigTypeOK, ConfigInv, NEW asked, C!Begin(asked)
  PROVE  ConfigTypeOK' /\ ConfigInv'
<1>1. ASSUME NEW f, C!From(f) PROVE (\E S : chain' \in Seq(S)) /\ reading' = "down" /\ ConfigInv'
  <2>1. chain' = <<f>> /\ at' = 1 /\ reading' = "down"
    BY <1>1 DEF C!From
  <2>2. <<f>> \in Seq({f}) /\ Len(<<f>>) = 1
    OBVIOUS
  <2>3. \E S : chain' \in Seq(S)
    BY <2>1, <2>2
  <2>4. at' \in 1..Len(chain') /\ at' = Len(chain') /\ \A i \in 1..at' - 1 : FALSE
    BY <2>1, <2>2
  <2>5. ConfigInv'
    BY <2>1, <2>4 DEF ConfigInv
  <2>6. QED BY <2>1, <2>3, <2>5
<1>2. CASE asked = None
  <2>1. PICK c \in C!CouldBe(User) :
          C!Read(User, c) /\ C!From(IF c = Missing THEN Workspace ELSE User)
    BY <1>2 DEF C!Begin, C!Default
  <2>2. QED BY <1>1, <2>1, ReadKeeps DEF ConfigTypeOK
<1>3. CASE asked # None
  BY <1>1, <1>3 DEF C!Begin, ConfigTypeOK
<1>4. QED BY <1>2, <1>3

LEMMA ConfigRead ==
  ASSUME ConfigTypeOK, ConfigInv, C!ReadConfig
  PROVE  ConfigTypeOK' /\ ConfigInv'
<1>1. PICK S : chain \in Seq(S)
  BY DEF ConfigTypeOK
<1>2. Len(chain) \in Nat /\ at = Len(chain) /\ at \in 1..Len(chain) /\ \A i \in 1..at - 1 : IsRead(i)
  BY <1>1, LenProperties DEF C!ReadConfig, ConfigInv
<1>3. PICK c \in C!CouldBe(chain[at]) :
        /\ C!Read(chain[at], c)
        /\ CASE c \in {Missing, Broken} -> reading' = "failed" /\ UNCHANGED <<chain, at, config>>
             [] c \in Contents /\ c.extends = None -> C!ToConfig(chain[at], c)
             [] OTHER -> C!Extend(chain[at], c)
  BY DEF C!ReadConfig
<1>4. /\ chain[at] \in DOMAIN disk' /\ disk'[chain[at]] = c
      /\ \A g \in DOMAIN disk : g \in DOMAIN disk' /\ disk'[g] = disk[g]
      /\ c \in Contents \cup {Missing, Broken}
      /\ \A g \in DOMAIN disk' : disk'[g] \in Contents \cup {Missing, Broken}
  BY <1>3, ReadKeeps
<1>5. CASE reading' = "failed" /\ UNCHANGED <<chain, at, config>>
  BY <1>4, <1>5 DEF ConfigTypeOK, ConfigInv
<1>6. CASE c \in Contents /\ C!ToConfig(chain[at], c) /\ c.path # None
  <2>1. /\ chain' = chain /\ at' = at /\ reading' = "up"
        /\ config' = [workingDir |-> C!WorkingDir(chain[at], c.path), desired |-> C!Desired(c),
                      configPath |-> chain[at]]
    BY <1>6 DEF C!ToConfig
  <2>2. \A i \in 1..Len(chain) : IsRead(i)'
    BY <1>2, <1>4, <1>6, <2>1 DEF IsRead
  <2>3. Nearest(at, at)'
    BY <1>2, <1>4, <1>6, <2>1 DEF Nearest
  <2>4. at..Len(chain) = {at}
    BY <1>2
  <2>5. UNION {C!Desired(disk'[chain[j]]) : j \in at..Len(chain)} = C!Desired(c)
    BY <1>4, <2>4
  <2>6. /\ config'.configPath = chain[at]
        /\ config'.workingDir = C!WorkingDir(chain[at], disk'[chain[at]].path)
        /\ config'.desired = UNION {C!Desired(disk'[chain[j]]) : j \in at..Len(chain)}
    BY <1>4, <2>1, <2>5
  <2>7. Merged(at)'
    BY <1>2, <2>1, <2>3, <2>6 DEF Merged
  <2>8. QED BY <1>1, <1>2, <1>4, <2>1, <2>2, <2>7 DEF ConfigTypeOK, ConfigInv
<1>7. CASE C!Extend(chain[at], c) /\ c \in Contents
  <2>1. PICK x : chain' = Append(chain, x)
    BY <1>7 DEF C!Extend
  <2>2. chain \in Seq(S \cup {x})
    BY <1>1, SeqMonotonic
  <2>3. PICK n \in Nat : n = at
    BY <1>2
  <2>4. /\ chain' \in Seq(S \cup {x}) /\ Len(chain') = n + 1
        /\ \A j \in 1..n : chain'[j] = chain[j]
    BY <1>2, <2>1, <2>2, <2>3, AppendProperties
  <2>5. at' = n + 1 /\ reading' = "down"
    BY <1>7, <1>2, <2>3 DEF C!Extend, C!ReadConfig
  <2>6. \A i \in 1..n : IsRead(i)'
    BY <1>2, <1>4, <1>7, <2>3, <2>4 DEF IsRead
  <2>7. QED BY <1>4, <2>4, <2>5, <2>6 DEF ConfigTypeOK, ConfigInv
<1>8. QED
  <2>1. CASE c \in {Missing, Broken} /\ reading' = "failed" /\ UNCHANGED <<chain, at, config>>
    BY <2>1, <1>5
  <2>2. CASE c \in Contents /\ C!ToConfig(chain[at], c) /\ c.path = None
    BY <2>2, <1>5 DEF C!ToConfig
  <2>3. \/ c \in {Missing, Broken} /\ reading' = "failed" /\ UNCHANGED <<chain, at, config>>
        \/ c \in Contents /\ C!ToConfig(chain[at], c)
        \/ c \in Contents /\ C!Extend(chain[at], c)
    BY <1>3, <1>4
  <2>4. QED BY <2>1, <2>2, <2>3, <1>6, <1>7

LEMMA ConfigMerge ==
  ASSUME ConfigTypeOK, ConfigInv, C!Merge
  PROVE  ConfigTypeOK' /\ ConfigInv'
<1>1. PICK S : chain \in Seq(S)
  BY DEF ConfigTypeOK
<1>2. PICK n \in Nat : n = at /\ n \in 1..Len(chain)
  BY <1>1, LenProperties DEF C!Merge, ConfigInv
<1>3. /\ disk' = disk /\ chain' = chain /\ reading = "up" /\ Len(chain) \in Nat
      /\ \A i \in 1..Len(chain) : IsRead(i)
      /\ Merged(n)
  BY <1>1, <1>2, LenProperties DEF C!Merge, ConfigInv
<1>4. ConfigTypeOK'
  BY <1>3 DEF C!Merge, ConfigTypeOK
<1>5. \A i \in 1..Len(chain) : IsRead(i)'
  BY <1>3 DEF IsRead
<1>6. CASE at = 1
  <2>1. at' = 1 /\ config' = config /\ reading' = "done"
    BY <1>6 DEF C!Merge
  <2>2. \A i : Merged(i) => Merged(i)'
    BY <1>3, <2>1 DEF Merged, Nearest
  <2>3. QED BY <1>2, <1>3, <1>4, <1>5, <1>6, <2>1, <2>2 DEF ConfigInv
<1>7. CASE at # 1
  <2>1. PICK m \in Nat : m = n - 1 /\ m \in 1..Len(chain) /\ at' = m
    BY <1>2, <1>3, <1>7 DEF C!Merge
  <2> DEFINE f == chain[m]
             c == disk[f]
  <2>2. reading' = "up" /\ config' = C!With(config, f, c)
    BY <1>2, <1>7, <2>1 DEF C!Merge
  <2>3. config' = [workingDir |-> IF c.path = None THEN config.workingDir
                                  ELSE C!WorkingDir(f, c.path),
                   desired |-> config.desired \cup C!Desired(c),
                   configPath |-> f]
    BY <2>2 DEF C!With
  <2>4. config'.desired = UNION {C!Desired(disk[chain[j]]) : j \in m..Len(chain)}
    <3>1. config'.desired = config.desired \cup C!Desired(c)
      BY <2>3
    <3>2. config.desired = UNION {C!Desired(disk[chain[j]]) : j \in n..Len(chain)}
      BY <1>3 DEF Merged
    <3>3. m..Len(chain) = {m} \cup n..Len(chain)
      BY <1>2, <1>3, <2>1
    <3>4. QED BY <3>1, <3>2, <3>3
  <2>5. \E k \in m..Len(chain) :
          /\ Nearest(m, k)
          /\ config'.workingDir = C!WorkingDir(chain[k], disk[chain[k]].path)
    <3>1. CASE c.path = None
      <4>1. PICK k \in n..Len(chain) :
              /\ Nearest(n, k)
              /\ config.workingDir = C!WorkingDir(chain[k], disk[chain[k]].path)
        BY <1>3 DEF Merged
      <4>2. k \in m..Len(chain) /\ Nearest(m, k)
        BY <1>2, <1>3, <2>1, <3>1, <4>1 DEF Nearest
      <4>3. config'.workingDir = config.workingDir
        BY <2>3, <3>1
      <4>4. QED BY <4>1, <4>2, <4>3
    <3>2. CASE c.path # None
      <4>1. m \in m..Len(chain) /\ Nearest(m, m)
        BY <1>3, <2>1, <3>2 DEF Nearest
      <4>2. config'.workingDir = C!WorkingDir(f, c.path)
        BY <2>3, <3>2
      <4>3. QED BY <4>1, <4>2
    <3>3. QED BY <3>1, <3>2
  <2>6. config'.configPath = chain[m]
    BY <2>3
  <2>7. Merged(m)'
    <3>1. \A k : Nearest(m, k) => Nearest(m, k)'
      BY <1>3 DEF Nearest
    <3>2. QED BY <1>3, <2>4, <2>5, <2>6, <3>1 DEF Merged
  <2>8. Merged(at)'
    BY <2>1, <2>7 DEF Merged, Nearest
  <2>9. QED BY <1>3, <1>4, <1>5, <2>1, <2>2, <2>8 DEF ConfigInv
<1>8. QED BY <1>6, <1>7

LEMMA ConfigStep ==
  ConfigTypeOK /\ ConfigInv /\ [ConfigNext]_configVars => ConfigTypeOK' /\ ConfigInv'
<1> SUFFICES ASSUME ConfigTypeOK, ConfigInv, [ConfigNext]_configVars
             PROVE  ConfigTypeOK' /\ ConfigInv'
  OBVIOUS
<1>1. CASE UNCHANGED configVars
  BY <1>1 DEF configVars, ConfigTypeOK, ConfigInv, IsRead, Merged, Nearest
<1>2. QED BY <1>1, ConfigBegin, ConfigRead, ConfigMerge DEF ConfigNext, C!Step

LEMMA ConfigFollows ==
  ASSUME ConfigTypeOK, ConfigInv, reading = "done"
  PROVE  /\ Merged(1) /\ Len(chain) \in Nat /\ DOMAIN chain = 1..Len(chain)
         /\ \A i \in 1..Len(chain) : IsRead(i)
<1>1. PICK T : chain \in Seq(T)
  BY DEF ConfigTypeOK
<1>2. QED BY <1>1, LenProperties DEF ConfigInv

LEMMA MergedIsNearest == ConfigTypeOK /\ ConfigInv => NearestPathAllTasks
<1> DEFINE way == [i \in DOMAIN chain |-> disk[chain[i]]]
           S == {i \in DOMAIN way : way[i].path # None}
<1> SUFFICES ASSUME ConfigTypeOK, ConfigInv, reading = "done"
             PROVE  /\ config.configPath = chain[1]
                    /\ config.workingDir = C!WorkingDir(chain[C!Min(S)], way[C!Min(S)].path)
                    /\ config.desired = UNION {C!Desired(way[i]) : i \in DOMAIN way}
  BY DEF NearestPathAllTasks, C!NearestPathAllTasks
<1>1. Merged(1) /\ Len(chain) \in Nat /\ DOMAIN chain = 1..Len(chain)
  BY ConfigFollows
<1>2. PICK n \in 1..Len(chain) :
        /\ Nearest(1, n)
        /\ config.workingDir = C!WorkingDir(chain[n], disk[chain[n]].path)
  BY <1>1 DEF Merged
<1>3. n \in S /\ S \subseteq Nat /\ \A y \in S : n =< y
  <2>1. S = {i \in 1..Len(chain) : disk[chain[i]].path # None}
    BY <1>1
  <2>2. \A j \in 1..n - 1 : disk[chain[j]].path = None
    BY <1>2 DEF Nearest
  <2>3. disk[chain[n]].path # None
    BY <1>2 DEF Nearest
  <2> HIDE DEF S
  <2>4. QED BY <1>1, <2>1, <2>2, <2>3
<1>4. C!Min(S) = n
  <2> HIDE DEF S
  <2>1. C!Min(S) = Min(S)
    BY DEF C!Min, Min
  <2>2. QED BY <1>3, <2>1, MinIs
<1>5. way[n] = disk[chain[n]]
  BY <1>1
<1>6. config.desired = UNION {C!Desired(way[i]) : i \in DOMAIN way}
  BY <1>1 DEF Merged
<1>7. QED BY <1>1, <1>2, <1>4, <1>5, <1>6 DEF Merged

-----------------------------------------------------------------------------
(* taskSet.add.  The lemmas are about values, those before a step and those  *)
(* after it: d is definition, a is added, st is stack and s is set.          *)

\* Direct and Closure, for definition d.
Deps(d, t) == ToSet(d[t])
Reach(d, S) ==
  {t \in Registry : \A T \in SUBSET Registry :
     (S \subseteq T /\ \A u \in T : Deps(d, u) \subseteq T) => t \in T}

LEMMA ReachIs == (\A t : Direct(t) = Deps(definition, t)) /\ (\A S : Closure(S) = Reach(definition, S))
  BY DEF Direct, Deps, Closure, ClosedUnder, Reach

LEMMA DepsType ==
  ASSUME NEW d \in Definitions, NEW t \in Registry
  PROVE  d[t] \in Seq(Registry) /\ Deps(d, t) \subseteq Registry
<1>1. d[t] \in Seq(Registry)
  BY DefinitionsAssumption
<1>2. \A i \in DOMAIN d[t] : d[t][i] \in Registry
  BY <1>1, LenProperties, ElementOfSeq
<1>3. QED BY <1>1, <1>2 DEF Deps, ToSet

LEMMA ReachHas ==
  ASSUME NEW d \in Definitions, NEW S \in SUBSET Registry
  PROVE  S \subseteq Reach(d, S) /\ Reach(d, S) \subseteq Registry
  BY DEF Reach

LEMMA ReachClosed ==
  ASSUME NEW d \in Definitions, NEW S \in SUBSET Registry, NEW t \in Reach(d, S)
  PROVE  Deps(d, t) \subseteq Reach(d, S)
<1>1. Deps(d, t) \subseteq Registry
  BY DepsType DEF Reach
<1>2. QED BY <1>1 DEF Reach

LEMMA ReachLeast ==
  ASSUME NEW d \in Definitions, NEW S, NEW T \in SUBSET Registry, S \subseteq T,
         \A u \in T : Deps(d, u) \subseteq T
  PROVE  Reach(d, S) \subseteq T
  BY DEF Reach

LEMMA ReachBelow ==
  ASSUME NEW d \in Definitions, NEW S \in SUBSET Registry, NEW T \in SUBSET Reach(d, S)
  PROVE  Reach(d, T) \subseteq Reach(d, S)
  BY ReachHas, ReachClosed, ReachLeast

\* The tasks below t and above it again would all have a dependency among them.
LEMMA NotBelowItself ==
  ASSUME NEW d \in Definitions, NEW t \in Registry
  PROVE  t \notin Reach(d, Deps(d, t))
<1> SUFFICES ASSUME t \in Reach(d, Deps(d, t)) PROVE FALSE
  OBVIOUS
<1> DEFINE Above == {u \in Registry : t \in Reach(d, Deps(d, u))}
<1>1. PICK u \in Above : ToSet(d[u]) \cap Above = {}
  BY DefinitionsAssumption
<1>2. \A v \in Deps(d, u) : v \in Registry /\ v # t /\ t \notin Reach(d, Deps(d, v))
  BY <1>1, DepsType DEF Deps
<1> DEFINE T == {v \in Registry : v # t /\ t \notin Reach(d, Deps(d, v))}
<1>3. Deps(d, u) \subseteq T
  BY <1>2
<1>4. \A v \in T : Deps(d, v) \subseteq T
  <2> SUFFICES ASSUME NEW v \in T, NEW w \in Deps(d, v) PROVE w \in T
    OBVIOUS
  <2>1. w \in Registry /\ Deps(d, v) \subseteq Reach(d, Deps(d, v))
    BY DepsType, ReachHas
  <2>2. w # t
    BY <2>1
  <2>3. Deps(d, w) \subseteq Reach(d, Deps(d, v))
    BY <2>1, DepsType, ReachClosed
  <2>4. Reach(d, Deps(d, w)) \subseteq Reach(d, Deps(d, v))
    BY <2>1, <2>3, DepsType, ReachBelow
  <2>5. QED BY <2>1, <2>2, <2>4
<1>5. Reach(d, Deps(d, u)) \subseteq T
  BY <1>3, <1>4, ReachLeast
<1>6. QED BY <1>1, <1>5

-----------------------------------------------------------------------------
Frames == [task : Registry, ctxParent : Registry \cup {NoTask}, left : Seq(Registry),
           dependencies : SUBSET Registry]
Executions == [ctxParent : Registry \cup {NoTask}, dependencies : SUBSET Registry,
               dependents : SUBSET Registry]

\* A context is that of Run for a task that was asked for, or that of a dependent.
FromAbove(d, a, ctxParent, t) ==
  IF ctxParent = NoTask THEN t \in a ELSE t \in Deps(d, ctxParent)

\* A call of add with a added and s in the set.
FrameOK(d, a, s, f) ==
  /\ f \in Frames
  /\ f.task \in Reach(d, a) /\ f.task \notin DOMAIN s
  /\ FromAbove(d, a, f.ctxParent, f.task)
  /\ ToSet(f.left) \subseteq Deps(d, f.task)
  /\ \A t \in Deps(d, f.task) :
       \/ t \in ToSet(f.left)
       \/ t \in f.dependencies /\ t \in DOMAIN s /\ f.task \in s[t].dependents
  /\ f.dependencies \subseteq Reach(d, Deps(d, f.task))
  /\ \A t \in f.dependencies : Deps(d, t) \subseteq f.dependencies

\* An execution in the set, with the tasks of calls still to come.
ExecutionOK(d, a, s, calls, t) ==
  /\ s[t] \in Executions
  /\ t \in Reach(d, a)
  /\ FromAbove(d, a, s[t].ctxParent, t)
  /\ Deps(d, t) \subseteq DOMAIN s
  /\ s[t].dependencies = Reach(d, Deps(d, t))
  /\ \A u \in DOMAIN s : t \in Deps(d, u) => u \in s[t].dependents
  /\ \A u \in s[t].dependents : t \in Deps(d, u) /\ u \in DOMAIN s \cup calls

Calls(st) == {st[i].task : i \in 1..Len(st)}

DagOK(d, a, st, s) ==
  /\ d \in Definitions
  /\ a \subseteq Registry
  /\ st \in Seq(Frames)
  /\ s = [t \in DOMAIN s |-> s[t]] /\ DOMAIN s \subseteq Registry
  /\ \A i \in 1..Len(st) : FrameOK(d, a, s, st[i])
  /\ \A i \in 1..Len(st) : \A j \in i + 1..Len(st) : st[i].task \in Reach(d, Deps(d, st[j].task))
  /\ \A t \in DOMAIN s : ExecutionOK(d, a, s, Calls(st), t)
  /\ a \subseteq DOMAIN s \cup Calls(st)

\* A call of add that has just been made, for t.
Entered(d, context, t) ==
  [task |-> t, ctxParent |-> context, left |-> d[t], dependencies |-> {}]

\* r is s with x before it, or s with x for its head.
IsPushed(r, x, s) ==
  /\ Len(s) \in Nat /\ Len(r) = Len(s) + 1
  /\ r[1] = x
  /\ \A i \in 1..Len(s) : r[i + 1] = s[i]

IsReplaced(r, x, s) ==
  /\ Len(s) \in Nat \ {0} /\ Len(r) = Len(s)
  /\ r[1] = x
  /\ \A i \in 2..Len(s) : r[i] = s[i]

LEMMA Pushed ==
  ASSUME NEW S, NEW s \in Seq(S), NEW x \in S
  PROVE  Cons(x, s) \in Seq(S) /\ IsPushed(Cons(x, s), x, s)
<1>1. PICK r : r = Cons(x, s) /\ r = <<x>> \o s
  BY DEF Cons
<1>2. <<x>> \in Seq(S) /\ Len(<<x>>) = 1 /\ <<x>>[1] = x /\ Len(s) \in Nat
  BY LenProperties
<1>3. /\ r \in Seq(S) /\ Len(r) = 1 + Len(s)
      /\ \A i \in 1..1 + Len(s) : r[i] = IF i <= 1 THEN <<x>>[i] ELSE s[i - 1]
  BY <1>1, <1>2, ConcatProperties
<1>4. r[1] = x
  BY <1>2, <1>3
<1>5. ASSUME NEW i \in 1..Len(s) PROVE r[i + 1] = s[i]
  <2>1. i + 1 \in 1..1 + Len(s) /\ ~ (i + 1 <= 1) /\ (i + 1) - 1 = i
    BY <1>2
  <2>2. r[i + 1] = IF i + 1 <= 1 THEN <<x>>[i + 1] ELSE s[(i + 1) - 1]
    BY <1>3, <2>1
  <2>3. QED BY <2>1, <2>2
<1>6. QED BY <1>1, <1>2, <1>3, <1>4, <1>5 DEF IsPushed

LEMMA Replaced ==
  ASSUME NEW S, NEW s \in Seq(S), NEW x \in S, s # <<>>
  PROVE  Cons(x, Tail(s)) \in Seq(S) /\ IsReplaced(Cons(x, Tail(s)), x, s)
<1>1. PICK u \in Seq(S) : u = Tail(s)
  BY HeadTailProperties
<1>2. Len(s) \in Nat \ {0} /\ Len(u) = Len(s) - 1 /\ \A i \in 1..Len(u) : u[i] = s[i + 1]
  BY <1>1, EmptySeq, HeadTailProperties
<1>3. PICK r \in Seq(S) : r = Cons(x, u) /\ IsPushed(r, x, u)
  BY Pushed
<1>4. ASSUME NEW i \in 2..Len(s) PROVE r[i] = s[i]
  <2>1. i - 1 \in 1..Len(u) /\ i = (i - 1) + 1
    BY <1>2
  <2>2. r[(i - 1) + 1] = u[i - 1] /\ u[i - 1] = s[(i - 1) + 1]
    BY <1>2, <1>3, <2>1 DEF IsPushed
  <2>3. QED BY <2>1, <2>2
<1>5. Len(r) = Len(s) /\ r[1] = x
  BY <1>2, <1>3 DEF IsPushed
<1>6. IsReplaced(r, x, s)
  BY <1>2, <1>4, <1>5 DEF IsReplaced
<1>7. QED BY <1>1, <1>3, <1>6

LEMMA EnteredOK ==
  ASSUME NEW d \in Definitions, NEW a \in SUBSET Registry, NEW s, NEW t \in Registry,
         t \notin DOMAIN s, t \in Reach(d, a),
         NEW context \in Registry \cup {NoTask}, FromAbove(d, a, context, t)
  PROVE  FrameOK(d, a, s, Entered(d, context, t))
  BY DepsType DEF FrameOK, Entered, Frames, Deps

LEMMA MoreAdded ==
  ASSUME NEW d \in Definitions, NEW a, NEW b \in SUBSET Registry, a \subseteq b
  PROVE  /\ Reach(d, a) \subseteq Reach(d, b)
         /\ \A s, f : FrameOK(d, a, s, f) => FrameOK(d, b, s, f)
         /\ \A s, calls, t : ExecutionOK(d, a, s, calls, t) => ExecutionOK(d, b, s, calls, t)
<1>1. Reach(d, a) \subseteq Reach(d, b)
  BY ReachHas, ReachBelow
<1>2. QED BY <1>1 DEF FrameOK, ExecutionOK, FromAbove

\* Run calls add.
LEMMA DagAdd ==
  ASSUME NEW d, NEW a, NEW s, NEW t \in Registry, DagOK(d, a, <<>>, s),
         NEW st, st = IF t \in DOMAIN s THEN <<>> ELSE Cons(Entered(d, NoTask, t), <<>>)
  PROVE  DagOK(d, a \cup {t}, st, s)
<1> DEFINE f == Entered(d, NoTask, t)
<1>0. PICK b : b = a \cup {t}
  OBVIOUS
<1>1. d \in Definitions /\ b \in SUBSET Registry /\ a \subseteq b /\ t \in b
  BY <1>0 DEF DagOK
<1>2. \A u \in DOMAIN s : ExecutionOK(d, b, s, {}, u)
  <2>1. Calls(<<>>) = {}
    BY DEF Calls
  <2>2. \A u \in DOMAIN s : ExecutionOK(d, a, s, {}, u)
    BY <2>1 DEF DagOK
  <2>3. QED BY <1>1, <2>2, MoreAdded
<1>3. /\ s = [u \in DOMAIN s |-> s[u]] /\ DOMAIN s \subseteq Registry
      /\ a \subseteq DOMAIN s
  BY DEF DagOK, Calls
<1>4. CASE t \in DOMAIN s
  <2>1. st = <<>>
    BY <1>4
  <2>2. Len(st) = 0 /\ st \in Seq(Frames)
    BY <2>1, EmptySeq
  <2>a. Calls(st) = {}
    BY <2>1 DEF Calls
  <2>3. b \subseteq DOMAIN s
    BY <1>0, <1>3, <1>4
  <2>b. \A i \in 1..Len(st) : FALSE
    BY <2>2
  <2>4. DagOK(d, b, st, s)
    BY <1>1, <1>2, <1>3, <2>2, <2>a, <2>b, <2>3 DEF DagOK
  <2>5. QED BY <1>0, <2>4
<1>5. CASE t \notin DOMAIN s
  <2>1. t \in Reach(d, b)
    BY <1>1, ReachHas
  <2>2. FrameOK(d, b, s, f)
    BY <1>1, <1>5, <2>1, EnteredOK DEF FromAbove
  <2>3. f \in Frames /\ f.task = t
    BY <2>2 DEF FrameOK, Entered
  <2> HIDE DEF f
  <2>4. st = <<f>>
    <3>1. st = <<f>> \o <<>>
      BY <1>5 DEF f, Cons
    <3>2. <<f>> \in Seq({f})
      OBVIOUS
    <3>3. QED BY <3>1, <3>2, ConcatEmptySeq
  <2>5. st \in Seq(Frames) /\ Len(st) = 1 /\ st[1] = f
    <3>1. <<f>> \in Seq(Frames) /\ Len(<<f>>) = 1 /\ <<f>>[1] = f
      BY <2>3
    <3>2. QED BY <2>4, <3>1
  <2>6. Calls(st) = {t}
    BY <2>3, <2>5 DEF Calls
  <2>7. \A u \in DOMAIN s : ExecutionOK(d, b, s, Calls(st), u)
    BY <1>2 DEF ExecutionOK
  <2>8. b \subseteq DOMAIN s \cup Calls(st)
    BY <1>0, <1>3, <2>6
  <2>9. \A i \in 1..Len(st) : FrameOK(d, b, s, st[i])
    BY <2>2, <2>5
  <2>10. \A i \in 1..Len(st) : \A j \in i + 1..Len(st) : st[i].task \in Reach(d, Deps(d, st[j].task))
    BY <2>5
  <2>11. DagOK(d, b, st, s)
    BY <1>1, <1>3, <2>5, <2>7, <2>8, <2>9, <2>10 DEF DagOK
  <2>12. QED BY <1>0, <2>11
<1>6. QED BY <1>4, <1>5

\* add calls itself, for a dependency that is not in the set.
LEMMA DagCall ==
  ASSUME NEW d, NEW a, NEW s, NEW st, DagOK(d, a, st, s), st # <<>>,
         NEW f, f = Head(st), f.left # <<>>, Head(f.left) \notin DOMAIN s,
         NEW st2, st2 = Cons(Entered(d, f.task, Head(f.left)), st)
  PROVE  DagOK(d, a, st2, s)
<1> DEFINE t == Head(f.left)
           g == Entered(d, f.task, t)
<1>1. /\ d \in Definitions /\ a \in SUBSET Registry /\ st \in Seq(Frames)
      /\ Len(st) \in Nat \ {0} /\ f = st[1] /\ FrameOK(d, a, s, f)
  BY EmptySeq, HeadTailProperties DEF DagOK
<1>2. t \in Deps(d, f.task) /\ f.task \in Registry /\ Deps(d, f.task) \subseteq Registry
  <2>1. f.left \in Seq(Registry) /\ f.task \in Registry
    BY <1>1 DEF FrameOK, Frames
  <2>2. t = f.left[1] /\ 1 \in DOMAIN f.left
    BY <2>1, EmptySeq, LenProperties
  <2>3. t \in ToSet(f.left)
    BY <2>2 DEF ToSet
  <2>4. QED BY <1>1, <2>1, <2>3, DepsType DEF FrameOK
<1>3. t \in Reach(d, a)
  BY <1>1, <1>2, ReachClosed DEF FrameOK
<1>4. FrameOK(d, a, s, g)
  BY <1>1, <1>2, <1>3, DefinitionsAssumption, EnteredOK DEF FromAbove
<1>5. g \in Frames /\ g.task = t /\ st2 = Cons(g, st)
  BY <1>4 DEF FrameOK, Entered
<1> HIDE DEF g, t
<1>0. PICK n \in Nat \ {0} : n = Len(st)
  BY <1>1
<1>6. /\ st2 \in Seq(Frames) /\ Len(st2) = n + 1 /\ st2[1] = g
      /\ \A i \in 1..n : st2[i + 1] = st[i]
  <2>1. st \in Seq(Frames) /\ g \in Frames /\ st2 = Cons(g, st)
    BY <1>1, <1>5
  <2>2. st2 \in Seq(Frames) /\ IsPushed(st2, g, st)
    BY <2>1, Pushed
  <2>3. QED BY <1>0, <2>2 DEF IsPushed
<1>7. \A i \in 2..n + 1 : i - 1 \in 1..n /\ st2[i] = st[i - 1]
  BY <1>6
<1>8. \A j \in 1..n : t \in Reach(d, Deps(d, st[j].task))
  <2> SUFFICES ASSUME NEW j \in 1..n PROVE t \in Reach(d, Deps(d, st[j].task))
    OBVIOUS
  <2>1. Deps(d, st[j].task) \subseteq Registry
    <3>1. st[j] \in Frames
      BY <1>1, <1>0, ElementOfSeq
    <3>2. st[j].task \in Registry
      BY <3>1 DEF Frames
    <3>3. QED BY <1>1, <3>2, DepsType
  <2>2. CASE j = 1
    BY <1>1, <1>2, <2>1, <2>2, ReachHas
  <2>3. CASE j # 1
    <3>1. f.task \in Reach(d, Deps(d, st[j].task))
      BY <1>1, <1>0, <2>3 DEF DagOK
    <3>2. QED BY <1>1, <1>2, <2>1, <3>1, ReachClosed
  <2>4. QED BY <2>2, <2>3
<1>9. Calls(st2) = {t} \cup Calls(st)
  <2>1. Calls(st2) = {st2[i].task : i \in 1..n + 1} /\ Calls(st) = {st[i].task : i \in 1..n}
    BY <1>0, <1>6 DEF Calls
  <2>2. st2[1].task = t /\ \A i \in 1..n : st2[i + 1].task = st[i].task
    BY <1>5, <1>6
  <2>3. \A i \in 2..n + 1 : st2[i].task = st[i - 1].task /\ i - 1 \in 1..n
    BY <1>7
  <2>4. \A i \in 1..n : i + 1 \in 1..n + 1
    OBVIOUS
  <2>5. \A i \in 1..n + 1 : i = 1 \/ i \in 2..n + 1
    OBVIOUS
  <2>6. 1 \in 1..n + 1
    OBVIOUS
  <2>7. {st2[i].task : i \in 1..n + 1} \subseteq {t} \cup {st[i].task : i \in 1..n}
    BY <2>2, <2>3, <2>5
  <2>8. {t} \cup {st[i].task : i \in 1..n} \subseteq {st2[i].task : i \in 1..n + 1}
    BY <2>2, <2>4, <2>6
  <2>9. QED BY <2>1, <2>7, <2>8
<1>10. \A i \in 1..n + 1 : FrameOK(d, a, s, st2[i])
  BY <1>0, <1>4, <1>6, <1>7 DEF DagOK
<1>11. \A i \in 1..n + 1 : \A j \in i + 1..n + 1 :
         st2[i].task \in Reach(d, Deps(d, st2[j].task))
  <2> SUFFICES ASSUME NEW i \in 1..n + 1, NEW j \in i + 1..n + 1
               PROVE  st2[i].task \in Reach(d, Deps(d, st2[j].task))
    OBVIOUS
  <2>1. j - 1 \in 1..n /\ st2[j] = st[j - 1]
    BY <1>7
  <2>2. CASE i = 1
    BY <1>5, <1>6, <1>8, <2>1, <2>2
  <2>3. CASE i # 1
    <3>1. i - 1 \in 1..n /\ st2[i] = st[i - 1] /\ j - 1 \in (i - 1) + 1..n
      BY <1>7, <2>3
    <3>2. QED BY <1>0, <2>1, <3>1 DEF DagOK
  <2>4. QED BY <2>2, <2>3
<1>12. \A u \in DOMAIN s : ExecutionOK(d, a, s, Calls(st2), u)
  BY <1>9 DEF DagOK, ExecutionOK
<1>13. a \subseteq DOMAIN s \cup Calls(st2)
  BY <1>9 DEF DagOK
<1>14. QED BY <1>1, <1>0, <1>6, <1>10, <1>11, <1>12, <1>13 DEF DagOK

\* A dependency is in the set: the two lists.
LEMMA DagLink ==
  ASSUME NEW d, NEW a, NEW s, NEW st, DagOK(d, a, st, s), st # <<>>,
         NEW f, f = Head(st), f.left # <<>>, NEW t, t = Head(f.left), t \in DOMAIN s,
         NEW s2, s2 = [s EXCEPT ![t].dependents = @ \cup {f.task}],
         NEW g, g = [f EXCEPT !.left = Tail(@),
                              !.dependencies = Below(@, s[t].dependencies, t)],
         NEW st2, st2 = Cons(g, Tail(st))
  PROVE  DagOK(d, a, st2, s2)
<1>1. /\ d \in Definitions /\ a \in SUBSET Registry /\ st \in Seq(Frames)
      /\ Len(st) \in Nat \ {0} /\ f = st[1] /\ FrameOK(d, a, s, f)
      /\ s = [u \in DOMAIN s |-> s[u]] /\ DOMAIN s \subseteq Registry
      /\ ExecutionOK(d, a, s, Calls(st), t)
  BY EmptySeq, HeadTailProperties DEF DagOK
<1>2. /\ f \in Frames /\ f.task \in Registry /\ f.left \in Seq(Registry)
      /\ f.dependencies \in SUBSET Registry
  BY <1>1 DEF FrameOK, Frames
<1>3. /\ Tail(f.left) \in Seq(Registry)
      /\ ToSet(f.left) = {t} \cup ToSet(Tail(f.left))
  <2>1. /\ Len(f.left) \in Nat \ {0} /\ t = f.left[1] /\ Tail(f.left) \in Seq(Registry)
        /\ Len(Tail(f.left)) = Len(f.left) - 1
        /\ \A i \in 1..Len(f.left) - 1 : Tail(f.left)[i] = f.left[i + 1]
    BY <1>2, EmptySeq, HeadTailProperties
  <2>2. DOMAIN f.left = 1..Len(f.left) /\ DOMAIN Tail(f.left) = 1..Len(f.left) - 1
    BY <1>2, <2>1, LenProperties
  <2>3. \A i \in 1..Len(f.left) : i = 1 \/ (i - 1 \in 1..Len(f.left) - 1 /\ i = (i - 1) + 1)
    BY <2>1
  <2>4. \A i \in 1..Len(f.left) - 1 : i + 1 \in 1..Len(f.left)
    BY <2>1
  <2>5. 1 \in 1..Len(f.left)
    BY <2>1
  <2>6. ToSet(f.left) \subseteq {t} \cup ToSet(Tail(f.left))
    <3>1. SUFFICES ASSUME NEW i \in 1..Len(f.left)
                   PROVE  f.left[i] \in {t} \cup ToSet(Tail(f.left))
      BY <2>2 DEF ToSet
    <3>2. CASE i = 1
      BY <2>1, <3>2
    <3>3. CASE i # 1
      <4>1. i - 1 \in 1..Len(f.left) - 1 /\ f.left[i] = Tail(f.left)[i - 1]
        BY <2>1, <2>3, <3>3
      <4>2. QED BY <2>2, <4>1 DEF ToSet
    <3>4. QED BY <3>2, <3>3
  <2>7. {t} \cup ToSet(Tail(f.left)) \subseteq ToSet(f.left)
    BY <2>1, <2>2, <2>4, <2>5 DEF ToSet
  <2>8. QED BY <2>1, <2>6, <2>7
<1>4. /\ s[t] \in Executions /\ s[t].dependencies = Reach(d, Deps(d, t))
      /\ s[t].dependencies \subseteq Registry
  BY <1>1 DEF ExecutionOK, Executions
<1>5. /\ g.task = f.task /\ g.ctxParent = f.ctxParent /\ g.left = Tail(f.left)
      /\ g.dependencies = f.dependencies \cup Reach(d, Deps(d, t)) \cup {t}
      /\ g \in Frames
  BY <1>1, <1>2, <1>3, <1>4 DEF Frames, Below
<1>6. /\ DOMAIN s2 = DOMAIN s /\ s2 = [u \in DOMAIN s2 |-> s2[u]]
      /\ s2[t] = [s[t] EXCEPT !.dependents = @ \cup {f.task}]
      /\ \A u \in DOMAIN s : u # t => s2[u] = s[u]
  BY <1>1
<1>7. /\ s2[t] \in Executions /\ s2[t].ctxParent = s[t].ctxParent
      /\ s2[t].dependencies = s[t].dependencies
      /\ s2[t].dependents = s[t].dependents \cup {f.task}
  BY <1>2, <1>4, <1>6 DEF Executions
<1>8. /\ st2 \in Seq(Frames) /\ Len(st2) = Len(st) /\ st2[1] = g
      /\ \A i \in 2..Len(st) : st2[i] = st[i]
  <2>1. st \in Seq(Frames) /\ st # <<>> /\ g \in Frames
    BY <1>1, <1>5
  <2>2. st2 \in Seq(Frames) /\ IsReplaced(st2, g, st)
    BY <2>1, Replaced
  <2>3. QED BY <2>2 DEF IsReplaced
<1>0. PICK n \in Nat \ {0} : n = Len(st)
  BY <1>1
<1>9. 1 \in 1..n /\ \A i \in 1..n : i = 1 \/ i \in 2..n
  OBVIOUS
<1>10. \A i \in 1..n : st2[i].task = st[i].task
  BY <1>1, <1>5, <1>8, <1>9, <1>0
<1>11. Calls(st2) = Calls(st) /\ f.task \in Calls(st)
  <2>1. Calls(st2) = {st2[i].task : i \in 1..n} /\ Calls(st) = {st[i].task : i \in 1..n}
    BY <1>8, <1>0 DEF Calls
  <2>2. QED BY <1>1, <1>9, <1>10, <2>1
<1>12. t \in Deps(d, f.task)
  BY <1>1, <1>3 DEF FrameOK
<1>13. Deps(d, f.task) \subseteq Registry /\ t \in Registry /\ Deps(d, t) \subseteq Registry
  BY <1>1, <1>2, DepsType
<1>14. FrameOK(d, a, s2, g)
  <2>1. Deps(d, t) \subseteq Reach(d, Deps(d, f.task))
    BY <1>1, <1>12, <1>13, ReachHas, ReachClosed
  <2>2. Reach(d, Deps(d, t)) \subseteq Reach(d, Deps(d, f.task)) /\ t \in Reach(d, Deps(d, f.task))
    BY <1>1, <1>12, <1>13, <2>1, ReachHas, ReachBelow
  <2>3. \A u \in g.dependencies : Deps(d, u) \subseteq g.dependencies
    <3>1. \A u \in f.dependencies : Deps(d, u) \subseteq f.dependencies
      BY <1>1 DEF FrameOK
    <3>2. \A u \in Reach(d, Deps(d, t)) : Deps(d, u) \subseteq Reach(d, Deps(d, t))
      BY <1>1, <1>13, ReachClosed
    <3>3. Deps(d, t) \subseteq Reach(d, Deps(d, t))
      BY <1>1, <1>13, ReachHas
    <3>4. QED BY <1>5, <3>1, <3>2, <3>3
  <2>4. ASSUME NEW u \in Deps(d, f.task)
        PROVE  \/ u \in ToSet(g.left)
               \/ u \in g.dependencies /\ u \in DOMAIN s2 /\ f.task \in s2[u].dependents
    <3>1. CASE u = t
      BY <3>1, <1>5, <1>6, <1>7
    <3>2. CASE u # t
      BY <3>2, <1>1, <1>3, <1>5, <1>6 DEF FrameOK
    <3>3. QED BY <3>1, <3>2
  <2>5. ToSet(g.left) \subseteq Deps(d, f.task) /\ g.dependencies \subseteq Reach(d, Deps(d, f.task))
    BY <1>1, <1>3, <1>5, <2>2 DEF FrameOK
  <2>6. QED BY <1>1, <1>5, <1>6, <2>3, <2>4, <2>5 DEF FrameOK
<1>15. ASSUME NEW h, FrameOK(d, a, s, h) PROVE FrameOK(d, a, s2, h)
  <2>1. \A u \in DOMAIN s : s[u].dependents \subseteq s2[u].dependents
    BY <1>6, <1>7
  <2>2. QED BY <1>6, <1>15, <2>1 DEF FrameOK
<1>16. \A i \in 1..Len(st2) : FrameOK(d, a, s2, st2[i])
  <2>1. \A i \in 1..n : FrameOK(d, a, s, st[i])
    BY <1>0 DEF DagOK
  <2>2. \A i \in 2..n : st2[i] = st[i]
    BY <1>8, <1>0
  <2>3. ASSUME NEW i \in 1..n PROVE FrameOK(d, a, s2, st2[i])
    <3>1. CASE i = 1
      BY <3>1, <1>8, <1>14
    <3>2. CASE i # 1
      <4>1. st2[i] = st[i] /\ FrameOK(d, a, s, st[i])
        BY <3>2, <1>9, <2>1, <2>2
      <4>2. QED BY <4>1, <1>15
    <3>3. QED BY <3>1, <3>2
  <2>4. QED BY <1>8, <1>0, <2>3
<1>17. \A i \in 1..Len(st2) : \A j \in i + 1..Len(st2) :
         st2[i].task \in Reach(d, Deps(d, st2[j].task))
  <2>1. \A i \in 1..n : \A j \in i + 1..n : j \in 1..n
    OBVIOUS
  <2>2. \A i \in 1..n : \A j \in i + 1..n : st[i].task \in Reach(d, Deps(d, st[j].task))
    BY <1>0 DEF DagOK
  <2>3. \A i \in 1..n : \A j \in i + 1..n : st2[i].task \in Reach(d, Deps(d, st2[j].task))
    BY <1>10, <2>1, <2>2
  <2>4. Len(st2) = n
    BY <1>8, <1>0
  <2>5. QED BY <2>3, <2>4
<1>18. ASSUME NEW u \in DOMAIN s2 PROVE ExecutionOK(d, a, s2, Calls(st2), u)
  <2>1. ExecutionOK(d, a, s, Calls(st), u)
    BY <1>6 DEF DagOK
  <2>2. CASE u = t
    BY <2>1, <2>2, <1>6, <1>7, <1>11, <1>12 DEF ExecutionOK
  <2>3. CASE u # t
    BY <2>1, <2>3, <1>6, <1>11 DEF ExecutionOK
  <2>4. QED BY <2>2, <2>3
<1>19. a \subseteq DOMAIN s2 \cup Calls(st2)
  BY <1>6, <1>11 DEF DagOK
<1>20. QED BY <1>1, <1>6, <1>8, <1>16, <1>17, <1>18, <1>19 DEF DagOK

\* add returns: the task is in the set.
Returned(s, f) ==
  [t \in DOMAIN s \cup {f.task} |->
     IF t = f.task
     THEN [ctxParent |-> f.ctxParent, dependencies |-> f.dependencies, dependents |-> {}]
     ELSE s[t]]

LEMMA DagReturn ==
  ASSUME NEW d, NEW a, NEW s, NEW st, DagOK(d, a, st, s), st # <<>>,
         NEW f, f = Head(st), f.left = <<>>,
         NEW s2, s2 = Returned(s, f), NEW st2, st2 = Tail(st)
  PROVE  DagOK(d, a, st2, s2)
<1>1. /\ d \in Definitions /\ a \in SUBSET Registry /\ st \in Seq(Frames)
      /\ Len(st) \in Nat \ {0} /\ f = st[1] /\ FrameOK(d, a, s, f)
      /\ s = [u \in DOMAIN s |-> s[u]] /\ DOMAIN s \subseteq Registry
  BY EmptySeq, HeadTailProperties DEF DagOK
<1>2. PICK t : t = f.task
  OBVIOUS
<1>3. /\ t \in Registry /\ t \notin DOMAIN s /\ f.dependencies \in SUBSET Registry
      /\ f.ctxParent \in Registry \cup {NoTask} /\ ToSet(f.left) = {}
  <2>1. ToSet(<<>>) = {}
    BY DEF ToSet
  <2>2. QED BY <1>1, <1>2, <2>1 DEF FrameOK, Frames
<1>4. /\ DOMAIN s2 = DOMAIN s \cup {t} /\ s2 = [u \in DOMAIN s2 |-> s2[u]]
      /\ s2[t] = [ctxParent |-> f.ctxParent, dependencies |-> f.dependencies, dependents |-> {}]
      /\ \A u \in DOMAIN s : s2[u] = s[u]
  BY <1>2, <1>3 DEF Returned
<1>5. PICK n \in Nat \ {0} : n = Len(st)
  BY <1>1
<1>6. /\ st2 \in Seq(Frames) /\ Len(st2) = n - 1
      /\ \A i \in 1..n - 1 : st2[i] = st[i + 1] /\ i + 1 \in 1..n
  BY <1>1, <1>5, HeadTailProperties
<1>7. Calls(st) = Calls(st2) \cup {t}
  <2>1. Calls(st) = {st[i].task : i \in 1..n} /\ Calls(st2) = {st2[i].task : i \in 1..n - 1}
    BY <1>5, <1>6 DEF Calls
  <2>2. \A i \in 1..n : i = 1 \/ (i - 1 \in 1..n - 1 /\ (i - 1) + 1 = i)
    OBVIOUS
  <2>3. \A i \in 1..n : i = 1 \/ (i - 1 \in 1..n - 1 /\ st[i] = st2[i - 1])
    BY <1>6, <2>2
  <2>4. 1 \in 1..n
    OBVIOUS
  <2>5. {st[i].task : i \in 1..n} \subseteq {t} \cup {st2[i].task : i \in 1..n - 1}
    <3>1. \A i \in 1..n : st[i].task \in {t} \cup {st2[j].task : j \in 1..n - 1}
      BY <1>1, <1>2, <2>3
    <3>2. QED BY <3>1
  <2>6. {t} \cup {st2[i].task : i \in 1..n - 1} \subseteq {st[i].task : i \in 1..n}
    BY <1>1, <1>2, <1>6, <2>4
  <2>7. QED BY <2>1, <2>5, <2>6
<1>8. \A i \in 1..n - 1 : t \in Reach(d, Deps(d, st2[i].task)) /\ st2[i].task \in Registry
  <2> SUFFICES ASSUME NEW i \in 1..n - 1
               PROVE  t \in Reach(d, Deps(d, st2[i].task)) /\ st2[i].task \in Registry
    OBVIOUS
  <2>1. st2[i] = st[i + 1] /\ i + 1 \in 1 + 1..n /\ 1 \in 1..n
    BY <1>6
  <2>2. st[1].task \in Reach(d, Deps(d, st[i + 1].task))
    BY <1>5, <2>1 DEF DagOK
  <2>3. st2[i] \in Frames
    BY <1>6, ElementOfSeq
  <2>4. QED BY <1>1, <1>2, <2>1, <2>2, <2>3 DEF Frames
<1>9. \A i \in 1..n - 1 : FrameOK(d, a, s2, st2[i])
  <2> SUFFICES ASSUME NEW i \in 1..n - 1 PROVE FrameOK(d, a, s2, st2[i])
    OBVIOUS
  <2>1. FrameOK(d, a, s, st2[i])
    BY <1>5, <1>6 DEF DagOK
  <2>2. st2[i].task # t
    BY <1>1, <1>8, NotBelowItself
  <2>3. QED BY <1>4, <2>1, <2>2 DEF FrameOK
<1>10. \A i \in 1..n - 1 : \A j \in i + 1..n - 1 : st2[i].task \in Reach(d, Deps(d, st2[j].task))
  <2> SUFFICES ASSUME NEW i \in 1..n - 1, NEW j \in i + 1..n - 1
               PROVE  st2[i].task \in Reach(d, Deps(d, st2[j].task))
    OBVIOUS
  <2>1. j \in 1..n - 1 /\ i + 1 \in 1..n /\ j + 1 \in (i + 1) + 1..n
    OBVIOUS
  <2>2. st[i + 1].task \in Reach(d, Deps(d, st[j + 1].task))
    BY <1>5, <2>1 DEF DagOK
  <2>3. QED BY <1>6, <2>1, <2>2
<1>11. Deps(d, t) \subseteq f.dependencies /\ Deps(d, t) \subseteq DOMAIN s
  BY <1>1, <1>2, <1>3 DEF FrameOK
<1>12. ExecutionOK(d, a, s2, Calls(st2), t)
  <2>1. s2[t].dependencies = Reach(d, Deps(d, t))
    <3>1. Reach(d, Deps(d, t)) \subseteq f.dependencies
      BY <1>1, <1>3, <1>11, ReachLeast DEF FrameOK
    <3>2. f.dependencies \subseteq Reach(d, Deps(d, t))
      BY <1>1, <1>2 DEF FrameOK
    <3>3. s2[t].dependencies = f.dependencies
      BY <1>4
    <3>4. QED BY <3>1, <3>2, <3>3
  <2>2. \A u \in DOMAIN s2 : t \notin Deps(d, u)
    <3>1. \A u \in DOMAIN s : Deps(d, u) \subseteq DOMAIN s
      BY DEF DagOK, ExecutionOK
    <3>2. t \notin Deps(d, t)
      BY <1>3, <1>11
    <3>3. QED BY <1>3, <1>4, <3>1, <3>2
  <2>3. s2[t] \in Executions /\ s2[t].ctxParent = f.ctxParent /\ s2[t].dependents = {}
    BY <1>3, <1>4 DEF Executions
  <2>4. t \in Reach(d, a) /\ FromAbove(d, a, f.ctxParent, t)
    BY <1>1, <1>2 DEF FrameOK
  <2>5. QED BY <1>4, <1>11, <2>1, <2>2, <2>3, <2>4 DEF ExecutionOK
<1>13. ASSUME NEW u \in DOMAIN s PROVE ExecutionOK(d, a, s2, Calls(st2), u)
  <2>1. ExecutionOK(d, a, s, Calls(st), u)
    BY DEF DagOK
  <2>2. u \in Deps(d, t) => t \in s[u].dependents
    BY <1>1, <1>2, <1>3 DEF FrameOK
  <2>3. QED BY <1>4, <1>7, <2>1, <2>2 DEF ExecutionOK
<1>14. DOMAIN s2 \subseteq Registry /\ a \subseteq DOMAIN s2 \cup Calls(st2)
  BY <1>1, <1>3, <1>4, <1>7 DEF DagOK
<1>15. \A u \in DOMAIN s2 : ExecutionOK(d, a, s2, Calls(st2), u)
  BY <1>4, <1>12, <1>13
<1>16. QED BY <1>1, <1>4, <1>6, <1>9, <1>10, <1>14, <1>15 DEF DagOK

DagInv == DagOK(definition, added, stack, set)

LEMMA DagStep == DagInv /\ [DagNext]_<<definition, added, stack, set>> => DagInv'
<1> SUFFICES ASSUME DagInv, [DagNext]_<<definition, added, stack, set>> PROVE DagInv'
  OBVIOUS
<1>1. CASE UNCHANGED <<definition, added, stack, set>>
  BY <1>1 DEF DagInv
<1>2. CASE AddName /\ Head(names) \in Registry
  <2>1. DagOK(definition, added, <<>>, set) /\ stack = <<>>
    BY <1>2 DEF DagInv, AddName
  <2>2. stack' = IF Head(names) \in DOMAIN set THEN <<>>
                 ELSE Cons(Entered(definition, NoTask, Head(names)), <<>>)
    BY <1>2, <2>1 DEF AddName, Call, Entered
  <2>3. DagOK(definition, added \cup {Head(names)}, stack', set)
    BY <1>2, <2>1, <2>2, DagAdd
  <2>4. QED BY <1>2, <2>3 DEF DagInv, AddName
<1>3. CASE AddDependency
  <2>1. PICK f : f = Head(stack)
    OBVIOUS
  <2>2. PICK t : t = Head(f.left)
    OBVIOUS
  <2>3. stack # <<>> /\ f.left # <<>> /\ definition' = definition /\ added' = added
    BY <1>3, <2>1 DEF AddDependency
  <2>4. CASE t \in DOMAIN set
    <3>1. /\ set' = [set EXCEPT ![t].dependents = @ \cup {f.task}]
          /\ stack' = Cons([f EXCEPT !.left = Tail(@),
                              !.dependencies = Below(@, set[t].dependencies, t)], Tail(stack))
      BY <1>3, <2>1, <2>2, <2>4 DEF AddDependency
    <3>2. DagOK(definition, added, stack', set')
      BY <2>1, <2>2, <2>3, <2>4, <3>1, DagLink DEF DagInv
    <3>3. QED BY <2>3, <3>2 DEF DagInv
  <2>5. CASE t \notin DOMAIN set
    <3>1. /\ set' = set
          /\ stack' = Cons(Entered(definition, f.task, t), stack)
      BY <1>3, <2>1, <2>2, <2>5 DEF AddDependency, Call, Context, Entered
    <3>2. DagOK(definition, added, stack', set)
      BY <2>1, <2>2, <2>3, <2>5, <3>1, DagCall DEF DagInv
    <3>3. QED BY <2>3, <3>1, <3>2 DEF DagInv
  <2>6. QED BY <2>4, <2>5
<1>4. CASE Return
  <2>1. PICK f : f = Head(stack)
    OBVIOUS
  <2>2. /\ stack # <<>> /\ f.left = <<>> /\ definition' = definition /\ added' = added
        /\ set' = Returned(set, f)
        /\ stack' = Tail(stack)
    BY <1>4, <2>1 DEF Return, Returned
  <2>3. DagOK(definition, added, stack', set')
    BY <2>1, <2>2, DagReturn DEF DagInv
  <2>4. QED BY <2>2, <2>3 DEF DagInv
<1>5. QED BY <1>1, <1>2, <1>3, <1>4 DEF DagNext

LEMMA DagFollows == DagInv => DagIsComplete
<1> SUFFICES ASSUME DagInv, stack = <<>>
             PROVE  /\ DOMAIN set = Reach(definition, added)
                    /\ \A t \in DOMAIN set :
                         /\ set[t].dependencies = Reach(definition, Deps(definition, t))
                         /\ set[t].dependents = {u \in DOMAIN set : t \in Deps(definition, u)}
  BY ReachIs DEF DagIsComplete
<1>1. Calls(<<>>) = {}
  BY DEF Calls
<1>2. /\ definition \in Definitions /\ added \subseteq DOMAIN set /\ DOMAIN set \subseteq Registry
      /\ \A t \in DOMAIN set : ExecutionOK(definition, added, set, {}, t)
  BY <1>1 DEF DagInv, DagOK
<1>3. Reach(definition, added) \subseteq DOMAIN set
  BY <1>2, ReachLeast DEF ExecutionOK
<1>4. QED BY <1>2, <1>3 DEF ExecutionOK

LEMMA ContextsFollow == DagInv => ContextsFollowDependents
<1> SUFFICES ASSUME DagInv, NEW t \in DOMAIN set
             PROVE  IF set[t].ctxParent = NoTask THEN t \in added
                    ELSE t \in Deps(definition, set[t].ctxParent)
  BY ReachIs DEF ContextsFollowDependents
<1>1. ExecutionOK(definition, added, set, Calls(stack), t)
  BY DEF DagInv, DagOK
<1>2. QED BY <1>1 DEF ExecutionOK, FromAbove

-----------------------------------------------------------------------------
(* Run of runner.go *)

LEMMA SetToSeqsIs ==
  ASSUME NEW S, IsFiniteSet(S), NEW f \in SetToSeqs(S)
  PROVE  f \in Seq(S) /\ ToSet(f) = S
<1>1. PICK n \in Nat : n = Cardinality(S)
  BY FS_CardinalityType
<1>2. f \in [1..n -> S] /\ \A i, j \in 1..n : i # j => f[i] # f[j]
  BY <1>1 DEF SetToSeqs
<1>3. f \in Injection(1..n, S)
  BY <1>2 DEF Injection, IsInjective
<1>4. Cardinality(1..n) = n
  BY FS_Interval
<1>5. f \in Surjection(1..n, S)
  BY <1>1, <1>3, <1>4, FS_Injection
<1>6. \A t \in S : \E i \in 1..n : f[i] = t
  BY <1>5 DEF Surjection
<1>7. f \in Seq(S)
  BY <1>2
<1>8. DOMAIN f = 1..n /\ \A i \in 1..n : f[i] \in S
  BY <1>2
<1>9. ToSet(f) = S
  BY <1>6, <1>8 DEF ToSet
<1>10. QED BY <1>7, <1>9

LEMMA ToSetIs ==
  ASSUME NEW S, NEW s \in Seq(S), s # <<>>
  PROVE  Tail(s) \in Seq(S) /\ ToSet(s) = {Head(s)} \cup ToSet(Tail(s))
<1>1. PICK n \in Nat \ {0} : n = Len(s) /\ DOMAIN s = 1..n /\ Head(s) = s[1]
  BY EmptySeq, HeadTailProperties, LenProperties
<1>2. PICK u \in Seq(S) : u = Tail(s)
  BY HeadTailProperties
<1>3. DOMAIN u = 1..n - 1 /\ \A i \in 1..n - 1 : u[i] = s[i + 1]
  <2>1. Len(u) = n - 1 /\ \A i \in 1..Len(u) : u[i] = s[i + 1]
    BY <1>1, <1>2, HeadTailProperties
  <2>2. QED BY <2>1, LenProperties
<1>4. ASSUME NEW i \in 1..n PROVE s[i] \in {s[1]} \cup {u[j] : j \in 1..n - 1}
  <2>1. CASE i = 1
    BY <2>1
  <2>2. CASE i # 1
    <3>1. PICK j \in 1..n - 1 : i = j + 1
      BY <2>2
    <3>2. QED BY <1>3, <3>1
  <2>3. QED BY <2>1, <2>2
<1>5. ASSUME NEW i \in 1..n - 1 PROVE u[i] \in {s[j] : j \in 1..n}
  <2>1. PICK j \in 1..n : j = i + 1
    OBVIOUS
  <2>2. QED BY <1>3, <2>1
<1>6. s[1] \in {s[j] : j \in 1..n}
  <2>1. 1 \in 1..n
    OBVIOUS
  <2>2. QED BY <2>1
<1>7. {s[i] : i \in 1..n} = {s[1]} \cup {u[i] : i \in 1..n - 1}
  BY <1>4, <1>5, <1>6
<1>8. ToSet(s) = {s[i] : i \in 1..n} /\ ToSet(u) = {u[i] : i \in 1..n - 1}
  BY <1>1, <1>3 DEF ToSet
<1>9. QED BY <1>1, <1>2, <1>7, <1>8

\* Any number of files that were read want finitely many tasks.
LEMMA DesiredIsFinite ==
  ASSUME ConfigTypeOK, ConfigInv, reading = "done"
  PROVE  IsFiniteSet(config.desired)
<1>1. PICK n \in Nat : n = Len(chain)
  BY ConfigFollows
<1> DEFINE g == [j \in 1..n |-> C!Desired(disk[chain[j]])]
           S == {C!Desired(disk[chain[j]]) : j \in 1..n}
<1>2. config.desired = UNION S
  BY <1>1, ConfigFollows DEF Merged
<1>3. g \in Surjection(1..n, S)
  BY DEF Surjection
<1>4. IsFiniteSet(1..n)
  BY FS_Interval
<1>5. IsFiniteSet(S)
  BY <1>3, <1>4, FS_Surjection
<1>6. \A T \in S : IsFiniteSet(T)
  <2>1. ASSUME NEW j \in 1..n PROVE IsFiniteSet(C!Desired(disk[chain[j]]))
    <3>1. disk[chain[j]] \in Contents
      BY <1>1, ConfigFollows DEF IsRead
    <3>2. QED BY <3>1, StartupAssumption, FS_EmptySet DEF C!Desired
  <2>2. QED BY <2>1
<1>7. IsFiniteSet(UNION S)
  BY <1>5, <1>6, FS_UNION
<1>8. QED BY <1>2, <1>7

\* The part of a step that each of the three is concerned with.
LEMMA StartIsFlags == [StartNext]_allVars => [FlagsNext]_vars
<1> SUFFICES ASSUME [StartNext]_allVars PROVE [FlagsNext]_vars
  OBVIOUS
<1>1. CASE Register
  BY <1>1 DEF Register, FlagsNext
<1>2. CASE GroupArgs
  BY <1>2 DEF GroupArgs, FlagsNext
<1>3. CASE UNCHANGED vars
  BY <1>3
<1>4. UNCHANGED allVars => UNCHANGED vars
  BY DEF allVars
<1>5. ParseOptions \/ ReadConfig \/ UseConfig \/ ChooseTasks \/ AddTask \/ VisitDependencies
        \/ StartTasks => UNCHANGED vars
  BY DEF ParseOptions, ReadConfig, UseConfig, ChooseTasks, AddTask, VisitDependencies, StartTasks
<1>6. QED BY <1>1, <1>2, <1>3, <1>4, <1>5 DEF StartNext

LEMMA StartIsConfig == [StartNext]_allVars => [ConfigNext]_configVars
<1> SUFFICES ASSUME [StartNext]_allVars PROVE [ConfigNext]_configVars
  OBVIOUS
<1>1. CASE ParseOptions
  <2>1. UNCHANGED configVars \/ C!Begin(options'.config)
    BY <1>1 DEF ParseOptions
  <2>2. QED BY <2>1 DEF ConfigNext
<1>2. CASE ReadConfig
  BY <1>2 DEF ReadConfig, ConfigNext
<1>3. UNCHANGED allVars => UNCHANGED configVars
  BY DEF allVars
<1>4. Register \/ UseConfig \/ GroupArgs \/ ChooseTasks \/ AddTask \/ VisitDependencies
        \/ StartTasks => UNCHANGED configVars
  BY DEF Register, UseConfig, GroupArgs, ChooseTasks, AddTask, VisitDependencies, StartTasks
<1>5. QED BY <1>1, <1>2, <1>3, <1>4 DEF StartNext

LEMMA StartIsDag == [StartNext]_allVars => [DagNext]_<<definition, added, stack, set>>
<1> SUFFICES ASSUME [StartNext]_allVars PROVE [DagNext]_<<definition, added, stack, set>>
  OBVIOUS
<1>1. CASE AddTask
  BY <1>1, StartupAssumption DEF AddTask, DagNext, dagVars
<1>2. CASE VisitDependencies
  BY <1>2 DEF VisitDependencies, DagNext
<1>3. UNCHANGED allVars => UNCHANGED <<definition, added, stack, set>>
  BY DEF allVars, dagVars
<1>4. Register \/ ParseOptions \/ ReadConfig \/ UseConfig \/ GroupArgs \/ ChooseTasks
        \/ StartTasks => UNCHANGED <<definition, added, stack, set>>
  BY DEF Register, ParseOptions, ReadConfig, UseConfig, GroupArgs, ChooseTasks, StartTasks, dagVars
<1>5. QED BY <1>1, <1>2, <1>3, <1>4 DEF StartNext

-----------------------------------------------------------------------------
\* What Run knows when it comes to each of its stages.
ChoiceInv ==
  /\ phase = "done" /\ ~ Refused
  /\ names \in Seq(Chosen)
  /\ Chosen = added \cup ToSet(names)
  /\ watchMode = IF DOMAIN groups # {} THEN options.watch ELSE ~ options.nonInteractive

StageInv ==
  /\ stage \in {"args", "dag", "running", "help"} => reading = "done"
  /\ stage \in {"options", "config", "args"} => added = {} /\ stack = <<>> /\ names = <<>>
  /\ stage \in {"dag", "running"} => ChoiceInv
  /\ stage = "running" =>
       /\ names = <<>> /\ stack = <<>>
       /\ \A t \in DOMAIN set : ~ AsksForHelp(t)

StartInv ==
  /\ FlagsTypeOK /\ KeysAreUnambiguous /\ DeclaredInv /\ BlankInv /\ GroupsInv /\ WordsInv
  /\ ConfigTypeOK /\ ConfigInv
  /\ DagInv
  /\ StageInv

LEMMA InitStart == StartInit => StartInv
<1> SUFFICES ASSUME StartInit PROVE StartInv
  OBVIOUS
<1> USE DEF StartInit
<1>1. FlagsTypeOK /\ KeysAreUnambiguous /\ DeclaredInv
  BY InitFlagsType DEF Init, KeysAreUnambiguous, DeclaredInv
<1>2. BlankInv /\ GroupsInv
  <2>1. args = <<>> /\ currTaskName = None /\ groups = <<>> /\ Len(args) = 0
    BY DEF Init
  <2>2. \A t \in Tasks : LastAt(0, t) /\ Grouped(t, 0)
    BY <2>1, FlagsAssumption DEF LastAt, Grouped, Current
  <2>3. QED BY <2>1, <2>2 DEF BlankInv, GroupsInv
<1>3. WordsInv
  <2>1. args = <<>> /\ foundInvalidTasks = FALSE
    BY DEF Init
  <2>2. ~ \E i \in 1..Len(args) : ~ IsFlag(args[i]) /\ args[i].word \notin Tasks
    BY <2>1
  <2>3. QED BY <2>1, <2>2, Zenon DEF WordsInv
<1>4. ConfigTypeOK /\ ConfigInv
  <2>1. chain \in Seq({}) /\ disk = <<>>
    BY DEF C!Init
  <2>2. QED BY <2>1 DEF C!Init, ConfigTypeOK, ConfigInv
<1>5. DagInv
  <2>1. definition \in Definitions /\ added = {} /\ stack = <<>> /\ set = <<>>
    BY DEF DagInit
  <2>2. DOMAIN set = {} /\ Len(stack) = 0 /\ stack \in Seq(Frames) /\ set = [t \in DOMAIN set |-> set[t]]
    BY <2>1
  <2>3. QED BY <2>1, <2>2 DEF DagInv, DagOK
<1>6. StageInv
  BY DEF StageInv, DagInit
<1>7. QED BY <1>1, <1>2, <1>3, <1>4, <1>5, <1>6 DEF StartInv

LEMMA StageStep == StartInv /\ [StartNext]_allVars => StageInv'
<1> SUFFICES ASSUME StartInv, [StartNext]_allVars PROVE StageInv'
  OBVIOUS
<1>0. StageInv
  BY DEF StartInv
<1>1. CASE Register
  <2>2. UNCHANGED <<dagVars, configVars, stage, options, watchMode>> /\ phase = "register"
    BY <1>1 DEF Register, AddFlag, Registered
  <2>3. stage \notin {"dag", "running"}
    BY <1>0, <2>2 DEF StageInv, ChoiceInv
  <2>4. QED BY <1>0, <2>2, <2>3 DEF StageInv, dagVars, configVars
<1>2. CASE ParseOptions
  BY <1>0, <1>2 DEF ParseOptions, StageInv, dagVars
<1>3. CASE ReadConfig
  BY <1>0, <1>3 DEF ReadConfig, StageInv, dagVars
<1>4. CASE UseConfig
  BY <1>0, <1>4 DEF UseConfig, AfterConfig, StageInv, dagVars, configVars
<1>5. CASE GroupArgs
  BY <1>0, <1>5 DEF GroupArgs, StageInv, dagVars, configVars
<1>6. CASE ChooseTasks
  <2>1. stage = "args" /\ phase = "done" /\ UNCHANGED <<vars, configVars, options>>
    BY <1>6 DEF ChooseTasks
  <2>2. reading = "done" /\ added = {} /\ stack = <<>>
    BY <1>0, <2>1 DEF StageInv
  <2>3. CASE Refused
    BY <1>0, <1>6, <2>1, <2>3 DEF ChooseTasks, StageInv
  <2>4. CASE ~ Refused
    <3>1. /\ stage' = "dag" /\ names' \in SetToSeqs(Chosen) /\ added' = added
          /\ watchMode' = IF DOMAIN groups # {} THEN options.watch ELSE ~ options.nonInteractive
      BY <1>6, <2>4 DEF ChooseTasks
    <3>2. IsFiniteSet(Chosen)
      <4>1. IsFiniteSet(DOMAIN groups)
        BY StartupAssumption, FS_Subset DEF StartInv, FlagsTypeOK
      <4>2. QED BY <2>2, <4>1, DesiredIsFinite DEF Chosen, StartInv
    <3>3. PICK s : s = names'
      OBVIOUS
    <3>4. s \in Seq(Chosen) /\ ToSet(s) = Chosen
      BY <3>1, <3>2, <3>3, SetToSeqsIs
    <3>5. Chosen' = Chosen /\ Refused' = Refused /\ groups' = groups /\ options' = options
            /\ phase' = phase /\ reading' = reading
      BY <2>1 DEF Chosen, Refused, vars, configVars
    <3>6. ToSet(names') = ToSet(s) /\ ToSet(names)' = ToSet(names')
      BY <3>3 DEF ToSet
    <3>7. ChoiceInv'
      BY <2>1, <2>2, <2>4, <3>1, <3>3, <3>4, <3>5, <3>6 DEF ChoiceInv
    <3>8. QED BY <2>2, <3>1, <3>5, <3>7 DEF StageInv
  <2>5. QED BY <2>3, <2>4
<1>7. CASE AddTask
  <2>1. /\ stage = "dag" /\ stack = <<>> /\ names # <<>>
        /\ UNCHANGED <<vars, configVars, options, watchMode>>
    BY <1>7 DEF AddTask
  <2>2. CASE stage' = "fatal"
    BY <2>2 DEF StageInv
  <2>3. CASE AddName /\ UNCHANGED stage
    <3>1. ChoiceInv /\ reading = "done"
      BY <1>0, <2>1 DEF StageInv
    <3>2. added' = added \cup {Head(names)} /\ names' = Tail(names)
      BY <2>3 DEF AddName
    <3>3. PICK s : s = names'
      OBVIOUS
    <3>4. s \in Seq(Chosen) /\ ToSet(names) = {Head(names)} \cup ToSet(s)
      BY <2>1, <3>1, <3>2, <3>3, ToSetIs DEF ChoiceInv
    <3>5. Chosen' = Chosen /\ Refused' = Refused /\ groups' = groups /\ options' = options
            /\ phase' = phase /\ reading' = reading /\ watchMode' = watchMode
      BY <2>1 DEF Chosen, Refused, vars, configVars
    <3>6. ToSet(names)' = ToSet(s)
      BY <3>3 DEF ToSet
    <3>7. ChoiceInv'
      BY <3>1, <3>2, <3>3, <3>4, <3>5, <3>6 DEF ChoiceInv
    <3>8. QED BY <2>1, <2>3, <3>1, <3>5, <3>7 DEF StageInv
  <2>4. QED BY <1>7, <2>2, <2>3 DEF AddTask
<1>8. CASE VisitDependencies
  <2>1. /\ stage = "dag" /\ stage' = stage
        /\ UNCHANGED <<vars, configVars, options, watchMode, added, names>>
    BY <1>8 DEF VisitDependencies, AddDependency, Return
  <2>2. ChoiceInv'
    BY <1>0, <2>1 DEF StageInv, ChoiceInv, Chosen, Refused, ToSet, vars, configVars
  <2>3. QED BY <1>0, <2>1, <2>2 DEF StageInv, configVars
<1>9. CASE StartTasks
  <2>1. /\ stage = "dag" /\ stack = <<>> /\ names = <<>>
        /\ stage' = IF \E t \in DOMAIN set : AsksForHelp(t) THEN "help" ELSE "running"
        /\ UNCHANGED <<vars, dagVars, configVars, options, watchMode>>
    BY <1>9 DEF StartTasks
  <2>2. ChoiceInv'
    BY <1>0, <2>1 DEF StageInv, ChoiceInv, Chosen, Refused, ToSet, vars, configVars, dagVars
  <2>3. \A t : AsksForHelp(t)' = AsksForHelp(t)
    BY <2>1 DEF AsksForHelp, vars
  <2>4. QED BY <1>0, <2>1, <2>2, <2>3 DEF StageInv, configVars, dagVars
<1>10. CASE UNCHANGED allVars
  <2>1. \A t : AsksForHelp(t)' = AsksForHelp(t)
    BY <1>10 DEF AsksForHelp, vars, allVars
  <2>2. ChoiceInv => ChoiceInv'
    BY <1>10 DEF ChoiceInv, Chosen, Refused, ToSet, vars, configVars, dagVars, allVars
  <2>3. QED BY <1>0, <1>10, <2>1, <2>2 DEF StageInv, configVars, dagVars, allVars
<1>11. QED BY <1>1, <1>2, <1>3, <1>4, <1>5, <1>6, <1>7, <1>8, <1>9, <1>10 DEF StartNext

\* The invariants of the parts hold throughout, and each stage of Run begins when the
\* one before it has done its work.
THEOREM StartInvariant == StartSpec => []StartInv
<1>1. StartInv /\ [StartNext]_allVars => StartInv'
  BY StartIsFlags, StartIsConfig, StartIsDag, FlagsTypeStep, KeysStep, DeclaredStep, GroupsStep,
     WordsStep, ConfigStep, DagStep, StageStep DEF StartInv
<1>2. QED BY InitStart, <1>1, PTL DEF StartSpec

\* Registry.Add panics rather than let a flag of a task take a name of another:
\* each key names one flag, which is found under all its names.
THEOREM NoFlagIsShadowed == StartSpec => []KeysAreUnambiguous
<1>1. StartInv => KeysAreUnambiguous
  BY DEF StartInv
<1>2. QED BY <1>1, StartInvariant, PTL

\* Each task that is named gets the flags that follow its last mention, and no
\* others, however often it is named and wherever unknown words stand
\* (groupTaskAndFlagArgs).
THEOREM FlagsGoWhereTheyStand == StartSpec => []FlagsFollowTheirTask
<1>1. StartInv => FlagsFollowTheirTask
  BY GroupsFollow DEF StartInv
<1>2. QED BY <1>1, StartInvariant, PTL

\* Unless a flag has two names and its short one has several bytes or its long
\* one has one, a task reads under each name of it the value that was passed last
\* under any, or else the default (parseTaskFlagsIntoMap).
THEOREM BothNamesReadTheLastValue == StartSpec => []LastValueUnderBothNames
<1>1. StartInv => LastValueUnderBothNames
  BY ValuesFollow DEF StartInv, FlagsTypeOK
<1>2. QED BY <1>1, StartInvariant, PTL

\* The Config is made from all files on the way, each as it was read: it names
\* the first, has the tasks of all, and the directory of the nearest that names
\* one (ReadConfig and With).
THEOREM ConfigsAreMerged == StartSpec => []NearestPathAllTasks
<1>1. StartInv => NearestPathAllTasks
  BY MergedIsNearest DEF StartInv
<1>2. QED BY <1>1, StartInvariant, PTL

\* Whenever no call of taskSet.add is running, the set is closed: it has the
\* tasks that were added and all below them, each with all its dependencies and
\* its direct dependents, in whatever order add was called and went.
THEOREM TheDagIsComplete == StartSpec => []DagIsComplete
<1>1. StartInv => DagIsComplete
  BY DagFollows DEF StartInv
<1>2. QED BY <1>1, StartInvariant, PTL

\* The first context of an execution is Run's, for a task that was added, or
\* made from that of a direct dependent (taskSet.add).
THEOREM ContextsAreFromAbove == StartSpec => []ContextsFollowDependents
<1>1. StartInv => ContextsFollowDependents
  BY ContextsFollow DEF StartInv
<1>2. QED BY <1>1, StartInvariant, PTL

\* Executor.Run is reached with the tasks of the command line and --watch, whatever
\* other words are on it, or, when no word is on it, with those of all configuration
\* files and --non-interactive; never past a --help of a task that is named, nor when
\* there are words and none is a task (Run of runner.go).
THEOREM RunsWhatWasChosen == StartSpec => []RunsWhatWasAsked
<1>1. StartInv => RunsWhatWasAsked
  <2> SUFFICES ASSUME StartInv, stage = "running"
               PROVE  /\ \A t \in Named :
                           ~ \E arg \in ToSet(Following(LastMention(t))) : IsHelp(arg)
                      /\ IF Named # {}
                         THEN added = Named /\ watchMode = options.watch
                         ELSE /\ Words = {} /\ watchMode = ~ options.nonInteractive
                              /\ added = UNION {C!Desired(disk[chain[i]]) : i \in DOMAIN chain}
    BY DEF RunsWhatWasAsked
  <2>1. /\ ChoiceInv /\ reading = "done" /\ names = <<>> /\ stack = <<>>
        /\ \A t \in DOMAIN set : ~ AsksForHelp(t)
    BY DEF StartInv, StageInv
  <2>2. FlagsTypeOK /\ GroupsInv /\ phase = "done" /\ DOMAIN groups \subseteq Tasks
    BY <2>1 DEF StartInv, ChoiceInv, FlagsTypeOK
  <2>3. DOMAIN args = 1..Len(args)
    BY <2>2, LenProperties DEF FlagsTypeOK
  <2>4. Named = DOMAIN groups
    <3>1. \A t \in Tasks : t \in DOMAIN groups <=> \E i \in 1..Len(args) : Mentions(i, t)
      BY <2>2, GroupedIs
    <3>2. QED BY <2>2, <2>3, <3>1 DEF Named, Words, Mentions
  <2>5. added = Chosen /\ added \subseteq DOMAIN set
    <3>1. Chosen = added
      BY <2>1 DEF ChoiceInv, ToSet
    <3>2. Calls(stack) = {}
      BY <2>1 DEF Calls
    <3>3. QED BY <3>1, <3>2 DEF StartInv, DagInv, DagOK
  <2>6. ASSUME NEW t \in Named
        PROVE  ~ \E arg \in ToSet(Following(LastMention(t))) : IsHelp(arg)
    <3>1. t \in Tasks /\ t \in DOMAIN groups /\ t \in DOMAIN set
      BY <2>2, <2>4, <2>5, <2>6 DEF Chosen
    <3>2. groups[t] = Following(LastMention(t))
      BY <2>2, <3>1, GroupedIs
    <3>3. QED BY <2>1, <3>1, <3>2 DEF AsksForHelp
  <2>7. CASE Named # {}
    BY <2>1, <2>4, <2>5, <2>6, <2>7 DEF ChoiceInv, Chosen
  <2>8. CASE Named = {}
    <3>1. Words = {}
      <4>1. ~ foundInvalidTasks
        BY <2>1, <2>4, <2>8 DEF ChoiceInv, Refused
      <4>2. \A i \in 1..Len(args) : ~ IsFlag(args[i]) => args[i].word \in Tasks
        BY <4>1 DEF StartInv, WordsInv
      <4>3. QED BY <2>3, <2>8, <4>2 DEF Named, Words
    <3>2. added = config.desired /\ watchMode = ~ options.nonInteractive
      BY <2>1, <2>4, <2>5, <2>8 DEF ChoiceInv, Chosen
    <3>3. config.desired = UNION {C!Desired(disk[chain[i]]) : i \in DOMAIN chain}
      BY <2>1, ConfigFollows DEF StartInv, Merged
    <3>4. QED BY <2>8, <3>1, <3>2, <3>3
  <2>9. QED BY <2>6, <2>7, <2>8
<1>2. QED BY <1>1, StartInvariant, PTL
=============================================================================
