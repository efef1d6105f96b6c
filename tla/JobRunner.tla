------------------------------ MODULE JobRunner ------------------------------
(***************************************************************************)
(* The durable queue of background work: Store and Runner of internal/jobs *)
(* with the pipeline engine as their executor.                             *)
(*                                                                         *)
(* The threads are the goroutines of the server: the workers that run      *)
(* steps, the loop of Runner.Start that claims them and ends expired       *)
(* waits, and the callers, the goroutines of requests that submit, cancel  *)
(* and resume runs.  run, step and attempt are the jobs database and       *)
(* survive a crash; all the rest is memory.                                *)
(*                                                                         *)
(* A run's changes are made under its lock (Runner.runLock), except the    *)
(* claim, which only takes Store.mu.  So advance is two actions here, one  *)
(* that takes the lock and reads the run, one that applies what was        *)
(* decided from that reading; between them a worker may claim a step.      *)
(*                                                                         *)
(* Time is left out: a step queued for a later retry may be claimed at     *)
(* any time after, and a wait may expire at any time.                      *)
(***************************************************************************)
EXTENDS PipelineNext, FiniteSets

CONSTANTS
    Runs,        \* the runs that may be submitted
    Workers,     \* the workers' slots, of both lanes
    Callers,     \* the goroutines of requests
    Loop,        \* the goroutine of Runner.Start
    None,        \* no thread, no run, no step
    Resources,   \* what the gate counts
    Uses,        \* Uses[n]: the resources a step of node n takes a place in
    PluginUses,  \* the resources of an agent's call of a plugin's tool
    Limit,       \* Limit[x]: the places of resource x, 0 for no limit
    Tries,       \* node.Retry.Attempts
    MayWait,     \* the nodes whose step may answer WaitFor
    MayRunAgain, \* those that RunAgain puts back (pipeline.run in an each)
    MaxAgain,    \* bound: how many times a step is run again
    MaxCrashes   \* bound: how many times the server crashes

Threads == Workers \cup Callers \cup {Loop}

ASSUME StepsAssumption ==
    /\ IsFiniteSet(Steps)
    /\ After \in [Steps -> SUBSET Steps]
    \* The specification of a pipeline is refused when it has a cycle.
    /\ \A S \in SUBSET Steps : S # {} => \E n \in S : After[n] \cap S = {}
    /\ Continues \subseteq Steps /\ Conditional \subseteq Steps
    /\ MayWait \subseteq Steps /\ MayRunAgain \subseteq Steps

ASSUME ThreadsAssumption ==
    /\ IsFiniteSet(Workers) /\ IsFiniteSet(Callers)
    /\ Workers \cap Callers = {} /\ Loop \notin Workers \cup Callers
    /\ None \notin Threads /\ None \notin Runs /\ None \notin Steps

ASSUME GateAssumption ==
    /\ Uses \in [Steps -> SUBSET Resources] /\ PluginUses \subseteq Resources
    /\ Limit \in [Resources -> Nat]

ASSUME BoundsAssumption == Tries \in Nat /\ MaxAgain \in Nat /\ MaxCrashes \in Nat

VARIABLES
    run,      \* run[r]: the status of r's row, "absent" before it is stored
    step,     \* step[r][n]: the status of the row of a step
    attempt,  \* attempt[r][n]: its attempt
    again,    \* again[r][n]: how many times RunAgain put it back
    lock,     \* lock[r]: the thread inside advance that holds r's lock
    view,     \* view[r]: what that thread read of r
    pc,       \* pc[t]: where a thread is
    onRun,    \* onRun[t]: the run it works on
    onStep,   \* onStep[w]: the step a worker claimed
    outcome,  \* outcome[w]: what the executor answered
    ctx,      \* ctx[w]: the context of the step w runs, "none" when there is none
    used,     \* used[x]: the places taken in resource x (Gate.used)
    expired,  \* the expired waits the loop read and has not ended yet
    server,   \* whether the process is starting, running or stopping
    executor, \* the executor of the runs, "none" until it is registered (Runner.execs)
    told,     \* told[r]: how often Executor.Ended was called for r
    crashes   \* how often the server crashed

database == <<run, step, attempt, again>>
threads  == <<pc, onRun, onStep, outcome, ctx>>
locks    == <<lock, view>>
vars     == <<database, threads, locks, used, expired, server, executor, told, crashes>>

RunStatus == {"absent", "queued", "running", "waiting", "done", "failed", "canceled", "pruned"}
RunEnds   == {"done", "failed", "canceled"}
Live(r)   == run[r] \in {"queued", "running", "waiting"}

\* Where a thread stands.  "decide" is inside advance, "ended" inside Runner.ended,
\* "expire" inside expireWaits, "plugin" inside an agent's call of a plugin's tool; a worker
\* is "orphan" when it found no executor for its step.
Places == {"idle", "claimed", "exec", "save", "orphan", "advance", "decide", "ended", "release",
           "expire", "plugin"}

TypeOK ==
    /\ run \in [Runs -> RunStatus]
    /\ step \in [Runs -> [Steps -> StepStatus]]
    /\ attempt \in [Runs -> [Steps -> Nat]]
    /\ again \in [Runs -> [Steps -> Nat]]
    /\ lock \in [Runs -> Threads \cup {None}]
    /\ view \in [Runs -> [run : RunStatus, steps : [Steps -> StepStatus]]]
    /\ pc \in [Threads -> Places]
    /\ onRun \in [Threads -> Runs \cup {None}]
    /\ onStep \in [Workers -> Steps \cup {None}]
    /\ outcome \in [Workers -> {"none", "done", "failed", "queued", "waiting"}]
    /\ ctx \in [Workers -> {"none", "live", "canceled"}]
    /\ used \in [Resources -> Nat]
    /\ expired \subseteq Runs \X Steps
    /\ server \in {"starting", "running", "stopping"}
    /\ executor \in {"none", "engine"}
    /\ told \in [Runs -> Nat]
    /\ crashes \in Nat

-----------------------------------------------------------------------------
NoView == [run |-> "absent", steps |-> [n \in Steps |-> "pending"]]

Init ==
    /\ run = [r \in Runs |-> "absent"]
    /\ step = [r \in Runs |-> [n \in Steps |-> "pending"]]
    /\ attempt = [r \in Runs |-> [n \in Steps |-> 0]]
    /\ again = [r \in Runs |-> [n \in Steps |-> 0]]
    /\ lock = [r \in Runs |-> None]
    /\ view = [r \in Runs |-> NoView]
    /\ pc = [t \in Threads |-> "idle"]
    /\ onRun = [t \in Threads |-> None]
    /\ onStep = [w \in Workers |-> None]
    /\ outcome = [w \in Workers |-> "none"]
    /\ ctx = [w \in Workers |-> "none"]
    /\ used = [x \in Resources |-> 0]
    /\ expired = {}
    /\ server = "starting"
    /\ executor = "none"
    /\ told = [r \in Runs |-> 0]
    /\ crashes = 0

\* Thread t goes to place p, on run r.
Go(t, p, r) == pc' = [pc EXCEPT ![t] = p] /\ onRun' = [onRun EXCEPT ![t] = r]

\* Where a thread goes when it is done with a run: a worker gives its places back, the
\* loop takes the next expired wait, a caller answers.
Return(t) ==
    IF t \in Workers THEN Go(t, "release", onRun[t])
    ELSE IF t = Loop THEN Go(t, "expire", None)
    ELSE Go(t, "idle", None)

\* A bug: the update of a step without its "status NOT IN (ends)".
AppliedOverEnds(r, n, s) == [step EXCEPT ![r][n] = s]

\* Store.apply on one step: a step that ended keeps its end.
Applied(r, n, s) ==
    [step EXCEPT ![r][n] = IF step[r][n] \in Terminal THEN step[r][n] ELSE s]

\* The workers that run a step of r and have its cancel function in Runner.running.
Registered(r) == {w \in Workers : pc[w] = "exec" /\ onRun[w] = r}

-----------------------------------------------------------------------------
(* The calls *)

\* Runner.Submit up to its advance: Store.CreateRun in one transaction.
Submit(c, r) ==
    /\ pc[c] = "idle" /\ run[r] = "absent"
    /\ run' = [run EXCEPT ![r] = "queued"]
    /\ Go(c, "advance", r)
    /\ UNCHANGED <<step, attempt, again, onStep, outcome, ctx, locks, used, expired, server, executor, told, crashes>>

\* Runner.EndWait up to its advance: a call ends a waiting step, well or not.
EndWait(c, r, n, s) ==
    /\ pc[c] = "idle" /\ lock[r] = None
    /\ step[r][n] = "waiting"
    /\ step' = Applied(r, n, s)
    /\ Go(c, "advance", r)
    /\ UNCHANGED <<run, attempt, again, onStep, outcome, ctx, locks, used, expired, server, executor, told, crashes>>

\* Runner.RunAgain up to its advance: the waiting step is queued again, in its attempt.
RunAgain(c, r, n) ==
    /\ pc[c] = "idle" /\ lock[r] = None
    /\ step[r][n] = "waiting"
    /\ again[r][n] < MaxAgain
    /\ step' = [step EXCEPT ![r][n] = "queued"]
    /\ attempt' = [attempt EXCEPT ![r][n] = IF @ > 0 THEN @ - 1 ELSE 0]
    /\ again' = [again EXCEPT ![r][n] = @ + 1]
    /\ Go(c, "advance", r)
    /\ UNCHANGED <<run, onStep, outcome, ctx, locks, used, expired, server, executor, told, crashes>>

\* Runner.CancelFor up to ended: every step not ended is canceled, and the contexts of the
\* steps registered as running.
Cancel(c, r) ==
    /\ pc[c] = "idle" /\ lock[r] = None
    /\ Live(r)
    /\ run' = [run EXCEPT ![r] = "canceled"]
    /\ step' = [step EXCEPT ![r] = Closed(step[r])]
    /\ ctx' = [w \in Workers |-> IF w \in Registered(r) THEN "canceled" ELSE ctx[w]]
    /\ Go(c, "ended", r)
    /\ UNCHANGED <<attempt, again, onStep, outcome, locks, used, expired, server, executor, told, crashes>>

\* A bug: one place too many.
RoomOffByOne(X) == \A x \in X : Limit[x] = 0 \/ used[x] <= Limit[x]

\* Room for one more in each resource of X, all or none (Gate.fullLocked).
Room(X) == \A x \in X : Limit[x] = 0 \/ used[x] < Limit[x]

Taken(X)    == [x \in Resources |-> IF x \in X THEN used[x] + 1 ELSE used[x]]
Released(X) == [x \in Resources |-> IF x \in X /\ used[x] > 0 THEN used[x] - 1 ELSE used[x]]

\* Gate.Take and Release by an agent's call of a plugin's tool.
PluginTake(c) ==
    /\ pc[c] = "idle" /\ Room(PluginUses)
    /\ used' = Taken(PluginUses)
    /\ Go(c, "plugin", None)
    /\ UNCHANGED <<database, onStep, outcome, ctx, locks, expired, server, executor, told, crashes>>

PluginRelease(c) ==
    /\ pc[c] = "plugin"
    /\ used' = Released(PluginUses)
    /\ Go(c, "idle", None)
    /\ UNCHANGED <<database, onStep, outcome, ctx, locks, expired, server, executor, told, crashes>>

-----------------------------------------------------------------------------
(* What every thread does after a change: advance and ended *)

\* A bug: the thread that finds the run ended tells the executor once more.
AdvanceNothingTells(t) ==
    /\ pc[t] = "advance" /\ lock[onRun[t]] = None
    /\ ~ Live(onRun[t])
    /\ IF run[onRun[t]] = "pruned" THEN Return(t) ELSE Go(t, "ended", onRun[t])
    /\ UNCHANGED <<database, onStep, outcome, ctx, locks, used, expired, server, executor, told, crashes>>

\* advance finds the run ended, or pruned: nothing to do.  Or it finds no executor to ask,
\* and leaves the run as it is.
AdvanceNothing(t) ==
    /\ pc[t] = "advance" /\ lock[onRun[t]] = None
    /\ ~ Live(onRun[t]) \/ executor = "none"
    /\ Return(t)
    /\ UNCHANGED <<database, onStep, outcome, ctx, locks, used, expired, server, executor, told, crashes>>

\* A bug: the run is read without its lock.
AdvanceReadUnlocked(t) ==
    LET r == onRun[t] IN
    /\ pc[t] = "advance"
    /\ Live(r) /\ executor # "none"
    /\ view' = [view EXCEPT ![r] = [run |-> run[r], steps |-> step[r]]]
    /\ Go(t, "decide", r)
    /\ UNCHANGED <<database, onStep, outcome, ctx, lock, used, expired, server, executor, told, crashes>>

\* advance takes the lock and reads the run and its steps.
AdvanceRead(t) ==
    LET r == onRun[t] IN
    /\ pc[t] = "advance" /\ lock[r] = None
    /\ Live(r) /\ executor # "none"
    /\ lock' = [lock EXCEPT ![r] = t]
    /\ view' = [view EXCEPT ![r] = [run |-> run[r], steps |-> step[r]]]
    /\ Go(t, "decide", r)
    /\ UNCHANGED <<database, onStep, outcome, ctx, used, expired, server, executor, told, crashes>>

\* advance applies what Next decided from the view, and gives the lock back.
AdvanceWrite(t) ==
    LET r == onRun[t]
        v == view[r] IN
    /\ pc[t] = "decide"
    /\ \E f \in NextSteps(v.steps) :
         LET status == RunAfter(v.run, f)
             after  == IF status \in RunEnds THEN Closed(f) ELSE f IN
         /\ step' = [step EXCEPT ![r] = [n \in Steps |->
                IF after[n] = v.steps[n] \/ step[r][n] \in Terminal THEN step[r][n] ELSE after[n]]]
         /\ run' = [run EXCEPT ![r] = IF status = v.run \/ run[r] \in RunEnds THEN run[r] ELSE status]
         /\ IF status \in RunEnds THEN Go(t, "ended", r) ELSE Return(t)
    /\ lock' = [lock EXCEPT ![r] = None]
    /\ view' = [view EXCEPT ![r] = NoView]
    /\ UNCHANGED <<attempt, again, onStep, outcome, ctx, used, expired, server, executor, told, crashes>>

\* A bug: the executor is not told of the runs that were canceled.
TellEndedUnlessCanceled(t) ==
    /\ pc[t] = "ended"
    /\ told' = [told EXCEPT ![onRun[t]] = IF run[onRun[t]] = "canceled" THEN @ ELSE @ + 1]
    /\ Return(t)
    /\ UNCHANGED <<database, onStep, outcome, ctx, locks, used, expired, server, executor, crashes>>

\* Runner.ended: the executor is told, and the run is forgotten.
TellEnded(t) ==
    /\ pc[t] = "ended"
    /\ told' = [told EXCEPT ![onRun[t]] = @ + 1]
    /\ Return(t)
    /\ UNCHANGED <<database, onStep, outcome, ctx, locks, used, expired, server, executor, crashes>>

-----------------------------------------------------------------------------
(* The loop of Runner.Start *)

\* recoverRunning: the steps a previous process left running are queued again.
Recover ==
    /\ server = "starting"
    /\ server' = "running"
    /\ step' = [r \in Runs |-> [n \in Steps |->
            IF step[r][n] = "running" THEN "queued" ELSE step[r][n]]]
    /\ UNCHANGED <<run, attempt, again, threads, locks, used, expired, executor, told, crashes>>

Waits == {x \in Runs \X Steps : step[x[1]][x[2]] = "waiting"}

\* expireWaits reads the waits whose time is up.
ExpireRead ==
    /\ server # "starting" /\ pc[Loop] = "idle"
    /\ \E S \in SUBSET Waits : S # {} /\ expired' = S
    /\ Go(Loop, "expire", None)
    /\ UNCHANGED <<database, onStep, outcome, ctx, locks, used, server, executor, told, crashes>>

\* expireWaits fails one of them, under its run's lock, whatever it became meanwhile.
ExpireApply(r, n) ==
    /\ pc[Loop] = "expire" /\ <<r, n>> \in expired
    /\ lock[r] = None
    /\ expired' = expired \ {<<r, n>>}
    /\ step' = Applied(r, n, "failed")
    /\ Go(Loop, "advance", r)
    /\ UNCHANGED <<run, attempt, again, onStep, outcome, ctx, locks, used, server, executor, told, crashes>>

ExpireDone ==
    /\ pc[Loop] = "expire" /\ expired = {}
    /\ Go(Loop, "idle", None)
    /\ UNCHANGED <<database, onStep, outcome, ctx, locks, used, expired, server, executor, told, crashes>>

\* Prune deletes a run that ended long ago: no thread is still at it.
Prune(r) ==
    /\ server # "starting" /\ pc[Loop] = "idle"
    /\ run[r] \in RunEnds
    /\ \A t \in Threads : onRun[t] # r
    /\ run' = [run EXCEPT ![r] = "pruned"]
    /\ UNCHANGED <<step, attempt, again, threads, locks, used, expired, server, executor, told, crashes>>

(***************************************************************************)
(* Store.claim, and the launch of the worker that takes the step.  A claim *)
(* of several steps is one Claim for each: Store.mu is held all along.     *)
(***************************************************************************)
Claim(w, r, n) ==
    /\ server # "starting" /\ pc[Loop] = "idle"
    /\ pc[w] = "idle"
    /\ step[r][n] = "queued"
    /\ Room(Uses[n])
    /\ step' = [step EXCEPT ![r][n] = "running"]
    /\ attempt' = [attempt EXCEPT ![r][n] = @ + 1]
    /\ run' = [run EXCEPT ![r] = IF @ \in {"queued", "waiting"} THEN "running" ELSE @]
    /\ used' = Taken(Uses[n])
    /\ Go(w, "claimed", r)
    /\ onStep' = [onStep EXCEPT ![w] = n]
    /\ UNCHANGED <<again, outcome, ctx, locks, expired, server, executor, told, crashes>>

-----------------------------------------------------------------------------
(* A worker: runStep *)

\* runStep loads the run and registers the cancel function of the step's context.
Begin(w) ==
    /\ pc[w] = "claimed" /\ executor # "none"
    /\ ctx' = [ctx EXCEPT ![w] = "live"]
    /\ Go(w, "exec", onRun[w])
    /\ UNCHANGED <<database, onStep, outcome, locks, used, expired, server, executor, told, crashes>>

\* runStep finds no executor for the step's run.
Orphan(w) ==
    /\ pc[w] = "claimed" /\ executor = "none"
    /\ Go(w, "orphan", onRun[w])
    /\ UNCHANGED <<database, onStep, outcome, ctx, locks, used, expired, server, executor, told, crashes>>

\* It fails the step, without the run's lock, and goes on to advance.
FailOrphan(w) ==
    LET r == onRun[w] IN
    /\ pc[w] = "orphan"
    /\ step' = Applied(r, onStep[w], "failed")
    /\ Go(w, "advance", r)
    /\ UNCHANGED <<run, attempt, again, onStep, outcome, ctx, locks, used, expired, server, executor, told, crashes>>

\* What Engine.Step may answer: an error is tried again while tries are left, but some
\* fail at once (an output too large, a node type the server does not have).
Outcomes(r, n) ==
    {"done", "failed"} \cup (IF attempt[r][n] < Tries THEN {"queued"} ELSE {})
                       \cup (IF n \in MayWait THEN {"waiting"} ELSE {})

(***************************************************************************)
(* The executor answers.  While the server stops, a step that is not done  *)
(* is left running, for the next process.                                  *)
(***************************************************************************)
StepEnds(w) ==
    LET r == onRun[w] IN
    /\ pc[w] = "exec"
    /\ ctx' = [ctx EXCEPT ![w] = "none"]
    /\ \E s \in Outcomes(r, onStep[w]) :
         IF server = "stopping" /\ s # "done"
         THEN Go(w, "release", r) /\ UNCHANGED outcome
         ELSE Go(w, "save", r) /\ outcome' = [outcome EXCEPT ![w] = s]
    /\ UNCHANGED <<database, onStep, locks, used, expired, server, executor, told, crashes>>

\* A bug: the outcome is applied, and the run is not advanced.
SaveOnly(w) ==
    LET r == onRun[w] IN
    /\ pc[w] = "save" /\ lock[r] = None
    /\ step' = Applied(r, onStep[w], outcome[w])
    /\ outcome' = [outcome EXCEPT ![w] = "none"]
    /\ Go(w, "release", r)
    /\ UNCHANGED <<run, attempt, again, onStep, ctx, locks, used, expired, server, executor, told, crashes>>

\* runStep applies the outcome under the run's lock, and goes on to advance.
Save(w) ==
    LET r == onRun[w] IN
    /\ pc[w] = "save" /\ lock[r] = None
    /\ step' = Applied(r, onStep[w], outcome[w])
    /\ outcome' = [outcome EXCEPT ![w] = "none"]
    /\ Go(w, "advance", r)
    /\ UNCHANGED <<run, attempt, again, onStep, ctx, locks, used, expired, server, executor, told, crashes>>

\* A bug: the places of the step are kept.
ReleaseSlotOnly(w) ==
    /\ pc[w] = "release"
    /\ Go(w, "idle", None)
    /\ onStep' = [onStep EXCEPT ![w] = None]
    /\ UNCHANGED <<database, outcome, ctx, locks, used, expired, server, executor, told, crashes>>

\* The places of the step, and the worker's slot, are given back.
Release(w) ==
    /\ pc[w] = "release"
    /\ used' = Released(Uses[onStep[w]])
    /\ Go(w, "idle", None)
    /\ onStep' = [onStep EXCEPT ![w] = None]
    /\ UNCHANGED <<database, outcome, ctx, locks, expired, server, executor, told, crashes>>

-----------------------------------------------------------------------------
(* The process *)

\* The engine is built and registered, by the main goroutine: the loop runs already
\* (startRunner comes first in main.go).
Register ==
    /\ executor = "none"
    /\ executor' = "engine"
    /\ UNCHANGED <<database, threads, locks, used, expired, server, told, crashes>>

\* The context of Runner.Start ends.  The loop sees it at its next select, which may
\* still choose the ticker or the wake channel when they are ready too.
Stop ==
    /\ server = "running"
    /\ server' = "stopping"
    /\ UNCHANGED <<database, threads, locks, used, expired, executor, told, crashes>>

\* The process dies, or exits: all but the database is lost.
Crash ==
    /\ crashes < MaxCrashes
    /\ crashes' = crashes + 1
    /\ server' = "starting" /\ executor' = "none"
    /\ lock' = [r \in Runs |-> None]
    /\ view' = [r \in Runs |-> NoView]
    /\ pc' = [t \in Threads |-> "idle"]
    /\ onRun' = [t \in Threads |-> None]
    /\ onStep' = [w \in Workers |-> None]
    /\ outcome' = [w \in Workers |-> "none"]
    /\ ctx' = [w \in Workers |-> "none"]
    /\ used' = [x \in Resources |-> 0]
    /\ expired' = {}
    /\ UNCHANGED <<database, told>>

-----------------------------------------------------------------------------
\* Calls come through the engine, or from a step it runs.
Call(c) ==
    /\ executor # "none"
    /\ \/ \E r \in Runs : Submit(c, r) \/ Cancel(c, r)
       \/ \E r \in Runs, n \in Steps, s \in {"done", "failed"} : EndWait(c, r, n, s)
       \/ \E r \in Runs, n \in MayRunAgain : RunAgain(c, r, n)
       \/ PluginTake(c)

\* What a thread at work on a run does next.
GoOn(t) == AdvanceNothing(t) \/ AdvanceRead(t) \/ AdvanceWrite(t) \/ TellEnded(t)

Work(w) == Begin(w) \/ Orphan(w) \/ FailOrphan(w) \/ StepEnds(w) \/ Save(w) \/ Release(w)

Expire == ExpireRead \/ ExpireDone \/ \E r \in Runs, n \in Steps : ExpireApply(r, n)

ClaimSome == \E w \in Workers, r \in Runs, n \in Steps : Claim(w, r, n)

Next ==
    \/ \E c \in Callers : Call(c) \/ PluginRelease(c)
    \/ \E t \in Threads : GoOn(t)
    \/ \E w \in Workers : Work(w)
    \/ Expire \/ ClaimSome \/ Recover
    \/ \E r \in Runs : Prune(r)
    \/ Register \/ Stop \/ Crash

Spec == Init /\ [][Next]_vars

(***************************************************************************)
(* The goroutines go on while they can: a worker's step ends at the latest *)
(* with its lease, an agent's call of a tool with its timeout, every wait  *)
(* has a time after which it expires, and the loop reads the queue at      *)
(* every poll.  Nothing obliges a caller to call, or the server to stop.   *)
(***************************************************************************)
Fairness ==
    /\ \A t \in Threads : WF_vars(GoOn(t))
    /\ \A w \in Workers : WF_vars(Work(w))
    /\ \A c \in Callers : WF_vars(PluginRelease(c))
    /\ WF_vars(Expire) /\ WF_vars(ClaimSome) /\ WF_vars(Recover)

FairSpec == Spec /\ Fairness

-----------------------------------------------------------------------------
(* Properties *)

Executing(w) == pc[w] \in {"claimed", "exec", "save", "orphan"}

\* No thread works on r.
AtRest(r) == \A t \in Threads : onRun[t] # r

(***************************************************************************)
(* A step never runs twice at once: no two workers hold the same step, and *)
(* the row of a step that a worker holds is running, or was ended under    *)
(* it, never back in a state from which it would be claimed again.  It is  *)
(* what Runner.runLock is for: advance writes "queued" over any status     *)
(* that is not an end.                                                     *)
(***************************************************************************)
SingleExecution ==
    \A w \in Workers : Executing(w) =>
        /\ step[onRun[w]][onStep[w]] \in {"running"} \cup Terminal
        /\ \A v \in Workers \ {w} : Executing(v) =>
              <<onRun[v], onStep[v]>> # <<onRun[w], onStep[w]>>

(***************************************************************************)
(* A node waits until every node in its after ended, and goes on only when *)
(* none of them ended badly (docs/pipelines.md, Engine.decide): whatever   *)
(* the order in which the steps of a run ended, expired, were resumed,     *)
(* retried or taken back after a crash.                                    *)
(***************************************************************************)
DependenciesHold ==
    \A r \in Runs, n \in Steps :
        step[r][n] \in {"queued", "running", "waiting", "done"} =>
            Ready(step[r], n) /\ ~ Blocked(step[r], n)

\* A run that ended leaves no step that could still be claimed, resumed or decided
\* (Runner.advance and CancelFor close the steps in the transaction that ends the run).
EndedRunsAreClosed ==
    \A r \in Runs : run[r] \in RunEnds \cup {"pruned"} => AllEnded(step[r])

(***************************************************************************)
(* A run ends done when every node ended and none failed but those that    *)
(* continue on error, and failed only because of a node that failed and    *)
(* does not continue: never with a step left that could not start.         *)
(***************************************************************************)
EndsForItsSteps ==
    \A r \in Runs :
        /\ run[r] = "done" => \A n \in Steps : ~ EndedBadly(step[r], n)
        /\ run[r] = "failed" => \E n \in Steps : step[r][n] = "failed" /\ n \notin Continues

\* A late result never overwrites a step that ended, and the end of a run is final
\* (Store.apply).
EndsAreFinal ==
    [][\A r \in Runs :
          /\ run[r] \in RunEnds => run'[r] \in {run[r], "pruned"}
          /\ \A n \in Steps : step[r][n] \in Terminal => step'[r][n] = step[r][n]]_vars

Holders(x) ==
    {w \in Workers : pc[w] # "idle" /\ x \in Uses[onStep[w]]}
      \cup {c \in Callers : pc[c] = "plugin" /\ x \in PluginUses}

\* The count in memory is the count (gate.go): the places taken in a resource are those of
\* the steps and calls under way, and never more than its limit.
GateIsExact ==
    \A x \in Resources :
        /\ used[x] = Cardinality(Holders(x))
        /\ Limit[x] > 0 => used[x] <= Limit[x]

\* The executor is told of the end of a run once, and only of a run that ended: a second
\* Ended would call the callback, and resume the parent, again.
ToldOnce ==
    \A r \in Runs : told[r] <= 1 /\ (told[r] = 1 => run[r] \in RunEnds \cup {"pruned"})

\* A step of a run fails because its executor said so, or its wait expired: the server
\* takes its steps up again after a restart (docs/vault/databases.md, recoverRunning).
FailsByItsExecutor ==
    [][\A r \in Runs, n \in Steps :
          step[r][n] = "running" /\ step'[r][n] = "failed" =>
             \/ \E w \in Workers : /\ <<onRun[w], onStep[w]>> = <<r, n>>
                                   /\ pc[w] = "save" /\ outcome[w] = "failed"
             \/ <<r, n>> \in expired \ expired']_vars

\* Every run submitted ends, and its executor is told, while the server stays up: no step
\* is forgotten in the queue, in a worker, in a wait or between two of them.
RunsEnd ==
    \A r \in Runs : Live(r) ~> (run[r] \in RunEnds \cup {"pruned"} /\ told[r] = 1) \/ server = "stopping"

-----------------------------------------------------------------------------
(* The promise made to those who start a run, RunLifecycle *)

Phase(r) == CASE run[r] = "absent" -> "none"
              [] run[r] = "pruned" -> "gone"
              [] Live(r)           -> "open"
              [] OTHER             -> run[r]

Part(s) == CASE s = "pending"                          -> "held"
             [] s \in {"queued", "running", "waiting"} -> "open"
             [] OTHER                                  -> s

Lifecycle == INSTANCE RunLifecycle WITH
    phase <- [r \in Runs |-> Phase(r)],
    part  <- [r \in Runs |-> [n \in Steps |-> Part(step[r][n])]]

\* Whatever the threads do, and whatever a crash leaves, a run goes through the lifecycle
\* its users are promised.
LifecycleSpec == Lifecycle!Spec
=============================================================================
