----------------------------- MODULE GoBuilder -----------------------------
(***************************************************************************)
(* goextensions.GoBuilder: tasks that run at the same time have their go   *)
(* packages built by one `go install`.  Every caller of Build is a         *)
(* process; the batcher is the goroutine that NewGoBuilder starts.         *)
(***************************************************************************)
EXTENDS Naturals, FiniteSets

CONSTANTS
  Builders,     \* goroutines that call Build
  Repeats,      \* those that do so again and again (a bound)
  Package,      \* [Builders -> packages], what each asks for
  Capacity,     \* of the requests channel, 128 in the code
  Prompt,       \* timing: a goroutine's next statement beats half a second
  Batcher, NoOne

ASSUME BuilderAssumption ==
  /\ IsFiniteSet(Builders)
  /\ Repeats \subseteq Builders
  /\ Capacity \in Nat \ {0}
  /\ Prompt \in BOOLEAN
  /\ Batcher \notin Builders
  /\ NoOne \notin Builders \cup {Batcher}

VARIABLES
  requests,     \* callers whose request is in the channel
  packages,     \* GoBuilder.packages
  timer,        \* GoBuilder.timer
  mu,           \* who holds GoBuilder.mu
  doneCh,       \* GoBuilder.doneCh is open, and not nil
  ctx,          \* GoBuilder.ctx: the call it belongs to, while that goes on
  canceled,     \* callers inside Build whose context is cancelled
  built,        \* what the last `go install` was given
  err,          \* GoBuilder.err is not nil
  batcher,      \* where the batcher is
  pc,           \* where each caller is
  result        \* what each caller's Build returned: an error or not

vars == <<requests, packages, timer, mu, doneCh, ctx, canceled, built, err,
          batcher, pc, result>>
callVars == <<pc, result, canceled>>
batchVars == <<packages, built, err, batcher>>

TypeOK ==
  /\ requests \subseteq Builders
  /\ packages \subseteq {Package[b] : b \in Builders}
  /\ timer \in {"stopped", "armed", "fired"}
  /\ mu \in Builders \cup {Batcher, NoOne}
  /\ doneCh \in BOOLEAN
  /\ ctx \in Builders \cup {NoOne}
  /\ built \subseteq {Package[b] : b \in Builders}
  /\ err \in BOOLEAN
  /\ batcher \in {"select", "lock", "install", "panicked"}
  /\ pc \in [Builders -> {"idle", "sent", "locked", "registered", "waiting",
                          "stuck", "released", "returned"}]
  /\ result \in [Builders -> BOOLEAN]
  /\ canceled \subseteq {b \in Builders : pc[b] \notin {"idle", "returned"}}

Init ==
  /\ requests = {}
  /\ packages = {}
  /\ timer = "stopped"
  /\ mu = NoOne
  /\ doneCh = FALSE
  /\ ctx = NoOne
  /\ built = {}
  /\ err = FALSE
  /\ batcher = "select"
  /\ pc = [b \in Builders |-> "idle"]
  /\ result = [b \in Builders |-> FALSE]
  /\ canceled = {}

Alive == batcher # "panicked"

-----------------------------------------------------------------------------
(* Build *)

\* request{Package: pkg, ...}
Request_Package(b) == Package[b]
Request(b) == b

\* b.requests <- request{...}: blocks while the channel is full.  The context of
\* the call may be cancelled by now.
SendRequest(b) ==
  /\ Alive /\ pc[b] = "idle"
  /\ Cardinality(requests) < Capacity
  /\ requests' = requests \cup {Request(b)}
  /\ pc' = [pc EXCEPT ![b] = "sent"]
  /\ canceled' \in {canceled, canceled \cup {b}}
  /\ UNCHANGED <<batchVars, timer, mu, doneCh, ctx, result>>

Lock(b) ==
  /\ Alive /\ pc[b] = "sent"
  /\ mu = NoOne
  /\ mu' = b
  /\ pc' = [pc EXCEPT ![b] = "locked"]
  /\ UNCHANGED <<batchVars, requests, timer, doneCh, ctx, canceled, result>>

\* The context of the build is the last caller's; the channel is shared.
Register(b) ==
  /\ Alive /\ pc[b] = "locked"
  /\ ctx' = b
  /\ doneCh' = TRUE
  /\ mu' = NoOne
  /\ pc' = [pc EXCEPT ![b] = "registered"]
  /\ UNCHANGED <<batchVars, requests, timer, canceled, result>>

\* b.doneCh is read without the lock; a nil channel is never received from.
Wait(b) ==
  /\ Alive /\ pc[b] = "registered"
  /\ pc' = [pc EXCEPT ![b] = IF doneCh THEN "waiting" ELSE "stuck"]
  /\ UNCHANGED <<batchVars, requests, timer, mu, doneCh, ctx, canceled, result>>

\* return b.err, without the lock.  If GoBuilder.ctx is still the context of
\* this call, it is from now on that of a run that may be cancelled at any time.
Return(b) ==
  /\ Alive /\ pc[b] = "released"
  /\ result' = [result EXCEPT ![b] = err]
  /\ pc' = [pc EXCEPT ![b] = "returned"]
  /\ canceled' = canceled \ {b}
  /\ ctx' = IF ctx = b THEN NoOne ELSE ctx
  /\ UNCHANGED <<batchVars, requests, timer, mu, doneCh>>

\* Tasks of callers are invalidated, or taskrunner is interrupted.
InBuild == {b \in Builders : pc[b] \notin {"idle", "returned"}}

Cancel ==
  /\ \E S \in SUBSET InBuild : S \ canceled # {} /\ canceled' = canceled \cup S
  /\ UNCHANGED <<batchVars, requests, timer, mu, doneCh, ctx, pc, result>>

\* The task of the caller ends, and can be run again.
Again(b) ==
  /\ b \in Repeats
  /\ pc[b] = "returned"
  /\ pc' = [pc EXCEPT ![b] = "idle"]
  /\ UNCHANGED <<batchVars, requests, timer, mu, doneCh, ctx, canceled, result>>

-----------------------------------------------------------------------------
(* The batcher and build *)

\* timer.Reset(time.Millisecond * 500)
Rearmed_Never == timer
Rearmed == "armed"

BatchReceive ==
  /\ batcher = "select"
  /\ \E b \in requests :
       /\ requests' = requests \ {b}
       /\ packages' = packages \cup {Package[b]}
  /\ timer' = Rearmed
  /\ UNCHANGED <<callVars, mu, doneCh, ctx, built, err, batcher>>

\* Callers between two statements, on their way to the channel or back from it.
Between == {b \in Builders : pc[b] \in {"sent", "locked", "registered", "released"}}

\* No request for half a second.  Whoever is Prompt has registered by then, and
\* the batcher has received every request.
TimerFires ==
  /\ Alive /\ timer = "armed"
  /\ Prompt => requests = {} /\ Between = {}
  /\ timer' = "fired"
  /\ UNCHANGED <<batchVars, callVars, requests, mu, doneCh, ctx>>

BatchTimer ==
  /\ batcher = "select"
  /\ timer = "fired"
  /\ timer' = "stopped"
  /\ batcher' = "lock"
  /\ UNCHANGED <<callVars, requests, packages, mu, doneCh, ctx, built, err>>

BuildLock ==
  /\ batcher = "lock"
  /\ mu = NoOne
  /\ mu' = Batcher
  /\ batcher' = "install"
  /\ UNCHANGED <<callVars, requests, packages, timer, doneCh, ctx, built, err>>

\* close(b.doneCh) lets everybody who waits on it go.
Released_One ==
  [b \in Builders |-> IF pc[b] = "waiting" /\ b = ctx THEN "released" ELSE pc[b]]
Released == [b \in Builders |-> IF pc[b] = "waiting" THEN "released" ELSE pc[b]]

\* pkgList, the packages of the batch.
PkgList_Last == {Package[b] : b \in Builders \cap {ctx}}
PkgList == packages

\* go install ends, with an error for sure when its context is cancelled, and
\* doneCh is closed: closing a nil channel panics, which ends the program.
BuildEnds ==
  /\ batcher = "install"
  /\ Prompt => \A b \in Builders : pc[b] # "registered"
  /\ err' \in {e \in BOOLEAN : ctx \in canceled => e}
  /\ built' = PkgList
  /\ batcher' = IF doneCh THEN "select" ELSE "panicked"
  /\ doneCh' = FALSE
  /\ packages' = {}
  /\ pc' = Released
  /\ mu' = NoOne
  /\ UNCHANGED <<requests, timer, ctx, canceled, result>>

-----------------------------------------------------------------------------
Build(b) == SendRequest(b) \/ Lock(b) \/ Register(b) \/ Wait(b) \/ Return(b)

Batch == BatchReceive \/ BatchTimer \/ BuildLock \/ BuildEnds

Next ==
  \/ \E b \in Builders : Build(b) \/ Again(b)
  \/ Cancel
  \/ Batch
  \/ TimerFires

Spec == Init /\ [][Next]_vars

\* The goroutines are scheduled, and go install ends.
FairSpec ==
  /\ Spec
  /\ \A b \in Builders : WF_vars(Build(b))
  /\ WF_vars(Batch)
  /\ WF_vars(TimerFires)

-----------------------------------------------------------------------------
\* No lost build: while a caller waits, its request is in the channel or its
\* package among those the next build takes, and that build is coming.
NoLostBuild ==
  \A b \in Builders : pc[b] = "waiting" =>
    \/ b \in requests
    \/ /\ Package[b] \in packages
       /\ timer # "stopped" \/ batcher \in {"lock", "install"}

\* A caller is let go by a batch that holds its package, unless its request
\* has not left the channel yet.
AnswersItsBatch ==
  [][\A b \in Builders \ requests :
       pc[b] = "waiting" /\ pc'[b] = "released" => Package[b] \in built']_vars

\* Build returns, whoever's context is cancelled meanwhile.
BuildReturns ==
  \A b \in Builders : pc[b] = "sent" ~> pc[b] = "returned" \/ ~ Alive

\* builder.go:136: "Build schedules a go build and waits for its completion."
WaitsForItsBuild ==
  \A b \in Builders : pc[b] = "released" => Package[b] \in built
=============================================================================
