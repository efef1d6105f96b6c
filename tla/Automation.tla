------------------------------ MODULE Automation ------------------------------
(***************************************************************************)
(* The automations (internal/automation): rules of database notes that     *)
(* hand off the rows that come to their date, or do something at a slot.   *)
(*                                                                         *)
(* The engine remembers in a state file which rows and slots, the keys of  *)
(* a rule, it fired, and which have an action queued on the job runner;    *)
(* the actions' runs are in the jobs database.  The two are written one    *)
(* after the other, and the end of a run is told on a goroutine of its own *)
(* that a crash loses.                                                     *)
(*                                                                         *)
(* Of the job runner this module knows the promise only, RunLifecycle,     *)
(* which JobRunner is proved to keep.                                      *)
(***************************************************************************)
EXTENDS Naturals

CONSTANTS
    Rules,      \* the rules of the databases
    Keys,       \* the rows with their dates, and the slots
    RuleOf,     \* RuleOf[k]: the rule of key k
    Jobs,       \* the runs of actions
    None,       \* no run
    MaxCrashes  \* bound: how many times the server crashes

ASSUME KeysAssumption == RuleOf \in [Keys -> Rules]
ASSUME NoneAssumption == None \notin Jobs
ASSUME CrashesAssumption == MaxCrashes \in Nat

VARIABLES
    phase, part,  \* the runs of the actions, as RunLifecycle has them
    keys,         \* keys[j]: what the run's input says it fires (actionInput.Keys)
    fired,        \* RuleState.Fired, in memory
    pending,      \* RuleState.Pending: the run of a key, or None
    saved,        \* the state file: fired and pending when it was written
    come,         \* the keys whose time came
    tick,         \* "idle", or where Tick is, which holds Engine.mu
    left,         \* the rules it has still to fire
    untold,       \* the runs whose Ended waits for Engine.mu
    crashes,      \* how often the server crashed
    lost          \* history: the keys whose action a crash made the engine forget

jobs == <<phase, part, keys>>
vars == <<jobs, fired, pending, saved, come, tick, left, untold, crashes, lost>>

\* An action is a run of one step (actionStep).
ActionStep == "action"

Job == INSTANCE RunLifecycle WITH
    Runs <- Jobs, Steps <- {ActionStep}, After <- [n \in {ActionStep} |-> {}], Continues <- {}

Phases == {"none", "open", "done", "failed", "canceled", "gone"}
Over(j) == phase[j] \in {"done", "failed", "canceled"}

TypeOK ==
    /\ phase \in [Jobs -> Phases]
    /\ part \in [Jobs -> [{ActionStep} -> Job!StepEnds \cup {"held", "open"}]]
    /\ keys \in [Jobs -> SUBSET Keys]
    /\ fired \subseteq Keys
    /\ pending \in [Keys -> Jobs \cup {None}]
    /\ saved \in [fired : SUBSET Keys, pending : [Keys -> Jobs \cup {None}]]
    /\ come \subseteq Keys
    /\ tick \in {"idle", "rules"}
    /\ left \subseteq Rules
    /\ untold \subseteq Jobs
    /\ crashes \in Nat
    /\ lost \subseteq Keys

Init ==
    /\ Job!Init
    /\ keys = [j \in Jobs |-> {}]
    /\ fired = {} /\ pending = [k \in Keys |-> None]
    /\ saved = [fired |-> fired, pending |-> pending]
    /\ come = {} /\ tick = "idle" /\ left = {}
    /\ untold = {} /\ crashes = 0 /\ lost = {}

-----------------------------------------------------------------------------
(* What the end of a run changes *)

\* A bug: whoever the keys wait for.
MineWhoever(j) == keys[j]

\* The keys of j that still wait for it, and not for a later run (settle's mine).
Mine(j) == {k \in keys[j] : pending[k] = j}

\* A bug: every end fires the keys.
SettledAlways(ended, gone) ==
    LET settled == UNION {Mine(j) : j \in ended} IN
    /\ fired' = fired \cup settled
    /\ pending' = [k \in Keys |-> IF k \in settled \/ pending[k] \in gone THEN None ELSE pending[k]]

\* A bug: every end frees the keys.
SettledNever(ended, gone) ==
    LET settled == UNION {Mine(j) : j \in ended} IN
    /\ UNCHANGED fired
    /\ pending' = [k \in Keys |-> IF k \in settled \/ pending[k] \in gone THEN None ELSE pending[k]]

\* settle on every run of ended: done fires its keys, any other end frees them.  Those of
\* a run that is gone from the jobs database are freed.
Settled(ended, gone) ==
    LET settled == UNION {Mine(j) : j \in ended} IN
    /\ fired' = fired \cup UNION {Mine(j) : j \in {i \in ended : phase[i] = "done"}}
    /\ pending' = [k \in Keys |-> IF k \in settled \/ pending[k] \in gone THEN None ELSE pending[k]]

\* save writes the state, or fails, which is only logged.
Save == saved' = [fired |-> fired', pending |-> pending'] \/ UNCHANGED saved

-----------------------------------------------------------------------------
(* Tick *)

\* A bug: nothing settles the runs whose end was not told.
TickStartsOnly ==
    /\ tick = "idle"
    /\ tick' = "rules" /\ left' = Rules
    /\ UNCHANGED <<jobs, fired, pending, saved, come, untold, crashes, lost>>

\* Tick takes the engine and settles the pending runs that ended, and those that are gone
\* (reconcile).  When the databases do not list it goes no further, and saves nothing.
TickStarts ==
    /\ tick = "idle"
    /\ LET asked == {j \in Jobs : \E k \in Keys : pending[k] = j} IN
         Settled({j \in asked : Over(j)}, {j \in asked : phase[j] = "gone"})
    /\ \/ tick' = "rules" /\ left' = Rules
       \/ UNCHANGED <<tick, left>>
    /\ UNCHANGED <<jobs, saved, come, untold, crashes, lost>>

\* What of rule r may be due now: its time came, and it is neither fired nor queued.
Due(r) == {k \in come : RuleOf[k] = r /\ k \notin fired /\ pending[k] = None}

\* fire finds keys of the rule due, those of the rows that meet the rule now; queue submits
\* one run for all of them, and marks them.  The run may end before they are marked, but
\* nothing hears of it before the tick ends.
Fire(r, j) ==
    /\ tick = "rules" /\ r \in left
    /\ Job!Accept(j)
    /\ \E due \in SUBSET Due(r) \ {{}} :
         /\ keys' = [keys EXCEPT ![j] = due]
         /\ pending' = [k \in Keys |-> IF k \in due THEN j ELSE pending[k]]
    /\ left' = left \ {r}
    /\ UNCHANGED <<fired, saved, come, tick, untold, crashes, lost>>

\* Nothing of the rule is due, or its rows do not read, or Submit fails.
FireNothing(r) ==
    /\ tick = "rules" /\ r \in left
    /\ left' = left \ {r}
    /\ UNCHANGED <<jobs, fired, pending, saved, come, tick, untold, crashes, lost>>

TickEnds ==
    /\ tick = "rules" /\ left = {}
    /\ tick' = "idle"
    /\ UNCHANGED <<jobs, fired, pending, come, left, untold, crashes, lost>>
    /\ Save

-----------------------------------------------------------------------------
(* The runs, on the job runner *)

\* Next queues the step and nothing else; the step's end is the run's.
Advance(j) ==
    /\ Job!Decide(j)
    /\ part[j][ActionStep] = "held" => part'[j][ActionStep] = "open"
    /\ untold' = untold \cup {i \in Jobs : phase[i] = "open" /\ phase'[i] # "open"}
    /\ UNCHANGED <<keys, fired, pending, saved, come, tick, left, crashes, lost>>

\* The action wrote its note, or its last try failed (Step).
StepEnds(j) ==
    /\ Job!EndStep(j, ActionStep)
    /\ UNCHANGED <<keys, fired, pending, saved, come, tick, left, untold, crashes, lost>>

\* The web UI and the tools cancel a run of any kind.
Cancel(j) ==
    /\ Job!Cancel(j)
    /\ untold' = untold \cup {j}
    /\ UNCHANGED <<keys, fired, pending, saved, come, tick, left, crashes, lost>>

\* A run that ended long ago is pruned.
Prune(j) ==
    /\ Job!Forget(j) /\ j \notin untold
    /\ UNCHANGED <<keys, fired, pending, saved, come, tick, left, untold, crashes, lost>>

\* Ended, on its goroutine, once the tick let the engine go.
Ended(j) ==
    /\ j \in untold /\ tick = "idle"
    /\ untold' = untold \ {j}
    /\ Settled({j}, {})
    /\ IF Mine(j) # {} THEN Save ELSE UNCHANGED saved
    /\ UNCHANGED <<jobs, come, tick, left, crashes, lost>>

\* Await: a call that ran the rules reads the end of its run before Ended does.
Await(j) ==
    /\ Over(j) /\ tick = "idle"
    /\ Settled({j}, {})
    /\ IF Mine(j) # {} THEN Save ELSE UNCHANGED saved
    /\ UNCHANGED <<jobs, come, tick, left, untold, crashes, lost>>

-----------------------------------------------------------------------------
\* The date of a row, or a slot, comes.
Time(k) ==
    /\ k \notin come
    /\ come' = come \cup {k}
    /\ UNCHANGED <<jobs, fired, pending, saved, tick, left, untold, crashes, lost>>

\* The runs that did their action, or may still do it.
Acting(j) == phase[j] \in {"open", "done"}

\* The keys whose action the state file does not know of.
Unsaved == {k \in Keys : \E j \in Jobs :
    Acting(j) /\ k \in keys[j] /\ k \notin saved.fired /\ saved.pending[k] # j}

\* The state file and the jobs database are left, and New reads the file.
Crash ==
    /\ crashes < MaxCrashes
    /\ crashes' = crashes + 1
    /\ fired' = saved.fired /\ pending' = saved.pending
    /\ tick' = "idle" /\ left' = {} /\ untold' = {}
    /\ lost' = lost \cup Unsaved
    /\ UNCHANGED <<jobs, saved, come>>

Rule(r) == FireNothing(r) \/ \E j \in Jobs : Fire(r, j)

Next ==
    \/ TickStarts \/ TickEnds \/ Crash
    \/ \E r \in Rules : Rule(r)
    \/ \E j \in Jobs : Advance(j) \/ StepEnds(j) \/ Cancel(j) \/ Prune(j) \/ Ended(j) \/ Await(j)
    \/ \E k \in Keys : Time(k)

Spec == Init /\ [][Next]_vars

\* Start ticks at every interval, and a tick goes through the rules to its end.  Nothing
\* obliges a run to end, the goroutine of Ended to come before the next tick, or the server
\* to stay up.
Fairness == WF_vars(TickStarts) /\ WF_vars(TickEnds) /\ \A r \in Rules : WF_vars(Rule(r))

FairSpec == Spec /\ Fairness

-----------------------------------------------------------------------------
(* Properties *)

(***************************************************************************)
(* "Each action that is due happens once" (Tick): no key has two runs that *)
(* did its action or may still do it, however its ends are told, awaited,  *)
(* reconciled or pruned, whatever save fails and whenever the server       *)
(* crashes, but for the keys that a crash made the engine forget: those    *)
(* queued, or fired, since the state was last written.                     *)
(***************************************************************************)
OneAction ==
    \A i, j \in Jobs : Acting(i) /\ Acting(j) /\ i # j => keys[i] \cap keys[j] \subseteq lost

\* An action that was done, or may still be, is on record: its keys are fired, or wait for
\* its run and no other, but for those that a crash made the engine forget.
OnRecord ==
    \A j \in Jobs : Acting(j) => \A k \in keys[j] \ lost : k \in fired \/ pending[k] = j

\* A row or a slot is fired, in memory or in the file, only when a run did its action:
\* one that failed or was canceled leaves it to fire again (settle).
FiredWasDone ==
    \A k \in fired \cup saved.fired : \E j \in Jobs :
        k \in keys[j] /\ part[j][ActionStep] = "done" /\ phase[j] \in {"done", "gone"}

\* A key does not wait for ever for a run that ended, or is gone: what a crash kept from
\* being told is found by the next tick (reconcile).
Stale(k) == \E j \in Jobs : pending[k] = j /\ (Over(j) \/ phase[j] = "gone")
PendingSettles == \A k \in Keys : Stale(k) ~> ~Stale(k)
=============================================================================
