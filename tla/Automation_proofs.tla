-------------------------- MODULE Automation_proofs --------------------------
(***************************************************************************)
(* Proofs about Automation, for every set of rules, rows, runs, and any    *)
(* number of crashes.                                                      *)
(*                                                                         *)
(* OneAction is not inductive: that a key is due says nothing of the runs  *)
(* that have it, unless the runs that act are on record (OnRecord), which  *)
(* is inductive because only the end of a run takes its keys off it.       *)
(***************************************************************************)
EXTENDS Automation, TLAPS

\* A run under way has its step held, open or ended by itself; a run that is done has it
\* done.
PartInv ==
    \A j \in Jobs :
        /\ phase[j] \in {"none", "open"} => part[j][ActionStep] \in {"held", "open", "done", "failed"}
        /\ phase[j] = "done" => part[j][ActionStep] = "done"

\* The runs whose end is still to be told have ended.
UntoldInv == \A j \in untold : Over(j)

Inv == TypeOK /\ PartInv /\ UntoldInv /\ OnRecord /\ OneAction /\ FiredWasDone

-----------------------------------------------------------------------------
(* What the actions do to the runs and to the records *)

\* Nothing of the runs changes but that run j goes on: what is done stays done, and no run
\* but a new one starts to act.
OnlyMoves(j) ==
    /\ \A i \in Jobs \ {j} : phase'[i] = phase[i] /\ part'[i] = part[i]
    /\ keys' = keys
    /\ phase[j] \in {"done", "gone"} => phase'[j] \in {"done", "gone"} /\ part'[j] = part[j]
    /\ Acting(j)' => Acting(j)

\* Runs that end may have their keys fired, if they are done, or freed; those of the runs
\* that act stay on record.
LEMMA SettledFacts ==
    ASSUME TypeOK, PartInv, OnRecord, FiredWasDone, UNCHANGED jobs, UNCHANGED lost,
           NEW ended, NEW gone, ended \subseteq {j \in Jobs : Over(j)},
           gone \subseteq {j \in Jobs : phase[j] = "gone"}, Settled(ended, gone),
           saved' \in {saved, [fired |-> fired', pending |-> pending']}
    PROVE  /\ fired' \subseteq Keys /\ pending' \in [Keys -> Jobs \cup {None}]
           /\ saved' \in [fired : SUBSET Keys, pending : [Keys -> Jobs \cup {None}]]
           /\ OnRecord' /\ FiredWasDone'
<1> DEFINE settled == UNION {Mine(j) : j \in ended}
           done == UNION {Mine(j) : j \in {i \in ended : phase[i] = "done"}}
<1>1. /\ fired' = fired \cup done
      /\ pending' = [k \in Keys |-> IF k \in settled \/ pending[k] \in gone THEN None ELSE pending[k]]
  BY DEF Settled
<1>2. /\ phase' = phase /\ part' = part /\ keys' = keys /\ lost' = lost
  BY DEF jobs
<1>3. \A j \in Jobs : keys[j] \subseteq Keys
  BY DEF TypeOK
<1>4. \A j \in ended : j \in Jobs /\ Mine(j) \subseteq Keys
  BY <1>3 DEF Mine
<1>5. fired \subseteq Keys /\ pending \in [Keys -> Jobs \cup {None}]
      /\ saved \in [fired : SUBSET Keys, pending : [Keys -> Jobs \cup {None}]]
  BY DEF TypeOK
<1>6. fired' \subseteq Keys
  BY <1>1, <1>4, <1>5
<1>7. pending' \in [Keys -> Jobs \cup {None}]
  BY <1>1, <1>5
<1>8. saved' \in [fired : SUBSET Keys, pending : [Keys -> Jobs \cup {None}]]
  BY <1>5, <1>6, <1>7
<1>9. OnRecord'
  <2> SUFFICES ASSUME NEW j \in Jobs, Acting(j), NEW k \in keys[j] \ lost
               PROVE  k \in fired' \/ pending'[k] = j
    BY <1>2 DEF OnRecord, Acting
  <2>1. k \in fired \/ pending[k] = j
    BY DEF OnRecord
  <2>2. k \in Keys
    BY <1>3
  <2>3. CASE k \in fired
    BY <2>3, <1>1
  <2>4. CASE pending[k] = j /\ k \notin settled
    <3>1. j \notin gone
      BY DEF Acting
    <3> QED BY <3>1, <2>2, <2>4, <1>1
  <2>5. CASE pending[k] = j /\ k \in settled
    <3>1. PICK i \in ended : k \in Mine(i)
      BY <2>5
    <3>2. i = j
      BY <3>1, <2>5 DEF Mine
    <3>3. phase[j] = "done"
      BY <3>1, <3>2 DEF Acting, Over
    <3>4. k \in done
      BY <3>1, <3>2, <3>3
    <3> QED BY <3>4, <1>1
  <2> QED BY <2>1, <2>3, <2>4, <2>5
<1>10. FiredWasDone'
  <2> SUFFICES ASSUME NEW k \in fired' \cup saved'.fired
               PROVE  \E j \in Jobs :
                        k \in keys[j] /\ part[j][ActionStep] = "done" /\ phase[j] \in {"done", "gone"}
    BY <1>2 DEF FiredWasDone
  <2>1. k \in fired \cup saved.fired \cup done
    BY <1>1
  <2>2. CASE k \in fired \cup saved.fired
    BY <2>2 DEF FiredWasDone
  <2>3. CASE k \in done
    <3>1. PICK i \in ended : phase[i] = "done" /\ k \in Mine(i)
      BY <2>3
    <3>2. i \in Jobs /\ k \in keys[i]
      BY <3>1, <1>4 DEF Mine
    <3>3. part[i][ActionStep] = "done"
      BY <3>1, <3>2 DEF PartInv
    <3> QED BY <3>1, <3>2, <3>3
  <2> QED BY <2>1, <2>2, <2>3
<1> QED BY <1>6, <1>7, <1>8, <1>9, <1>10

\* A run that goes on, ends, is canceled or is pruned only moves.
LEMMA JobMoves ==
    ASSUME TypeOK, PartInv, NEW j \in Jobs, UNCHANGED keys,
           \/ Job!Decide(j) /\ (part[j][ActionStep] = "held" => part'[j][ActionStep] = "open")
           \/ Job!EndStep(j, ActionStep)
           \/ Job!Cancel(j)
           \/ Job!Forget(j)
    PROVE  /\ phase' \in [Jobs -> Phases]
           /\ part' \in [Jobs -> [{ActionStep} -> Job!StepEnds \cup {"held", "open"}]]
           /\ PartInv'
           /\ OnlyMoves(j)
           /\ phase'[j] = phase[j] \/ Over(j)' \/ Job!Forget(j)
<1> USE DEF TypeOK, Phases, Job!StepEnds
<1>1. CASE Job!Decide(j) /\ (part[j][ActionStep] = "held" => part'[j][ActionStep] = "open")
  <2>1. PICK f \in [{ActionStep} -> Job!StepEnds \cup {"held", "open"}] :
          /\ Job!Decided(part[j], f)
          /\ part' = [part EXCEPT ![j] = f]
          /\ \/ UNCHANGED phase
             \/ /\ Job!Over(f)
                /\ phase' = [phase EXCEPT ![j] =
                     IF \E n \in {ActionStep} : f[n] = "failed" /\ n \notin {} THEN "failed" ELSE "done"]
    BY <1>1 DEF Job!Decide
  <2>2. phase[j] = "open" /\ part[j][ActionStep] \in {"held", "open", "done", "failed"}
    BY <1>1 DEF Job!Decide, PartInv
  <2>3. f[ActionStep] = part[j][ActionStep] \/ f[ActionStep] = "open"
    <3>1. part'[j] = f
      BY <2>1
    <3>2. part[j][ActionStep] = "held" => f[ActionStep] = "open"
      BY <1>1, <3>1
    <3>3. f[ActionStep] = part[j][ActionStep] \/ part[j][ActionStep] = "held"
      BY <2>1 DEF Job!Decided
    <3> QED BY <3>2, <3>3
  <2>4. f[ActionStep] \in {"open", "done", "failed"}
    BY <1>1, <2>1, <2>2, <2>3
  <2>5. \/ phase' = phase
        \/ phase' = [phase EXCEPT ![j] = "failed"]
        \/ phase' = [phase EXCEPT ![j] = "done"] /\ f[ActionStep] = "done"
    BY <2>1, <2>4 DEF Job!Over
  <2>6. phase' \in [Jobs -> Phases]
        /\ part' \in [Jobs -> [{ActionStep} -> Job!StepEnds \cup {"held", "open"}]]
    BY <2>1, <2>5
  <2>7. PartInv'
    BY <2>1, <2>2, <2>4, <2>5 DEF PartInv
  <2>8. OnlyMoves(j) /\ (phase'[j] = phase[j] \/ Over(j)')
    BY <2>1, <2>2, <2>5 DEF OnlyMoves, Acting, Over
  <2> QED BY <2>6, <2>7, <2>8
<1>2. CASE Job!EndStep(j, ActionStep)
  <2>1. PICK end \in {"done", "failed"} : part' = [part EXCEPT ![j][ActionStep] = end]
    BY <1>2 DEF Job!EndStep
  <2>2. phase' = phase /\ phase[j] = "open"
    BY <1>2 DEF Job!EndStep
  <2> QED BY <2>1, <2>2 DEF PartInv, OnlyMoves, Acting
<1>3. CASE Job!Cancel(j)
  <2>1. part' \in [Jobs -> [{ActionStep} -> Job!StepEnds \cup {"held", "open"}]]
    BY <1>3 DEF Job!Cancel
  <2> QED BY <1>3, <2>1 DEF Job!Cancel, PartInv, OnlyMoves, Acting, Over
<1>4. CASE Job!Forget(j)
  BY <1>4 DEF Job!Forget, PartInv, OnlyMoves, Acting
<1> QED BY <1>1, <1>2, <1>3, <1>4

\* A run that only moves leaves what is on record true.
LEMMA MovesKeepRecords ==
    ASSUME OnRecord, OneAction, FiredWasDone, NEW j \in Jobs, OnlyMoves(j),
           UNCHANGED <<fired, pending, saved, lost>>
    PROVE  OnRecord' /\ OneAction' /\ FiredWasDone'
<1>1. \A i \in Jobs : Acting(i)' => Acting(i)
  BY DEF OnlyMoves, Acting
<1>2. \A i \in Jobs :
        part[i][ActionStep] = "done" /\ phase[i] \in {"done", "gone"}
        => part'[i][ActionStep] = "done" /\ phase'[i] \in {"done", "gone"}
  BY DEF OnlyMoves
<1>3. OnRecord'
  BY <1>1 DEF OnRecord, OnlyMoves
<1>4. OneAction'
  BY <1>1 DEF OneAction, OnlyMoves
<1>5. FiredWasDone'
  BY <1>2 DEF FiredWasDone, OnlyMoves
<1> QED BY <1>3, <1>4, <1>5

-----------------------------------------------------------------------------
(* The invariant *)

\* Nothing acted yet.
LEMMA InitInv == Init => Inv
<1> SUFFICES ASSUME Init PROVE Inv
  OBVIOUS
<1>1. /\ phase = [j \in Jobs |-> "none"]
      /\ part = [j \in Jobs |-> [n \in {ActionStep} |-> "held"]]
  BY DEF Init, Job!Init
<1>2. TypeOK
  BY <1>1, CrashesAssumption DEF Init, TypeOK, Phases, Job!StepEnds
<1>3. PartInv
  BY <1>1 DEF PartInv
<1>4. OnRecord /\ OneAction
  BY <1>1 DEF OnRecord, OneAction, Acting
<1>5. UntoldInv /\ FiredWasDone
  BY DEF Init, UntoldInv, FiredWasDone
<1> QED BY <1>2, <1>3, <1>4, <1>5 DEF Inv

\* Only the rows of one rule that no run has, or is on record to have, are queued.
LEMMA FireKeeps ==
    ASSUME Inv, NEW r \in Rules, NEW j \in Jobs, Fire(r, j)
    PROVE  Inv'
<1>0. PICK due \in SUBSET Due(r) \ {{}} :
        /\ keys' = [keys EXCEPT ![j] = due]
        /\ pending' = [k \in Keys |-> IF k \in due THEN j ELSE pending[k]]
  BY DEF Fire
<1>1. /\ phase[j] = "none" /\ phase' = [phase EXCEPT ![j] = "open"] /\ part' = part
      /\ keys' = [keys EXCEPT ![j] = due]
      /\ pending' = [k \in Keys |-> IF k \in due THEN j ELSE pending[k]]
      /\ left' = left \ {r}
      /\ UNCHANGED <<fired, saved, come, tick, untold, crashes, lost>>
  BY <1>0 DEF Fire, Job!Accept
<1>2. TypeOK /\ PartInv /\ UntoldInv /\ OnRecord /\ OneAction /\ FiredWasDone
  BY DEF Inv
<1>3. due \subseteq Keys /\ \A k \in due : k \notin fired /\ pending[k] = None
  BY <1>2 DEF Due, TypeOK
<1>4. TypeOK'
  BY <1>1, <1>2, <1>3 DEF TypeOK, Phases
<1>5. PartInv' /\ UntoldInv'
  BY <1>1, <1>2 DEF PartInv, UntoldInv, Over, TypeOK
<1>6. \A i \in Jobs \ {j} : (Acting(i)' <=> Acting(i)) /\ keys'[i] = keys[i]
  BY <1>1, <1>2 DEF Acting, TypeOK
<1>7. \A i \in Jobs \ {j} : Acting(i) => keys[i] \cap due \subseteq lost
  BY <1>2, <1>3, NoneAssumption DEF OnRecord
<1>8. keys'[j] = due
  BY <1>1, <1>2 DEF TypeOK
<1>9. OnRecord'
  <2> SUFFICES ASSUME NEW i \in Jobs, Acting(i)', NEW k \in keys'[i] \ lost
               PROVE  k \in fired \/ pending'[k] = i
    BY <1>1 DEF OnRecord
  <2>1. CASE i = j
    BY <2>1, <1>1, <1>3, <1>8
  <2>2. CASE i # j
    <3>1. k \notin due /\ k \in keys[i] /\ Acting(i)
      BY <2>2, <1>6, <1>7
    <3>2. k \in Keys
      BY <3>1, <1>2 DEF TypeOK
    <3> QED BY <3>1, <3>2, <1>1, <1>2 DEF OnRecord
  <2> QED BY <2>1, <2>2
<1>10. OneAction'
  <2> SUFFICES ASSUME NEW a \in Jobs, NEW b \in Jobs, Acting(a)', Acting(b)', a # b
               PROVE  keys'[a] \cap keys'[b] \subseteq lost
    BY <1>1 DEF OneAction
  <2>1. CASE a # j /\ b # j
    BY <2>1, <1>2, <1>6 DEF OneAction
  <2>2. CASE a = j \/ b = j
    BY <2>2, <1>6, <1>7, <1>8
  <2> QED BY <2>1, <2>2
<1>11. FiredWasDone'
  BY <1>1, <1>2 DEF FiredWasDone, TypeOK
<1> QED BY <1>4, <1>5, <1>9, <1>10, <1>11 DEF Inv

\* What a crash makes the engine forget is what no other state file said: the rest stays
\* on record.
LEMMA CrashKeeps ==
    ASSUME Inv, Crash
    PROVE  Inv'
<1>1. TypeOK /\ PartInv /\ UntoldInv /\ OnRecord /\ OneAction /\ FiredWasDone
  BY DEF Inv
<1>2. /\ fired' = saved.fired /\ pending' = saved.pending
      /\ lost' = lost \cup Unsaved
      /\ UNCHANGED <<phase, part, keys, saved, come>>
  BY DEF Crash, jobs
<1>3. TypeOK'
  <2>1. saved.fired \subseteq Keys /\ saved.pending \in [Keys -> Jobs \cup {None}]
    BY <1>1 DEF TypeOK
  <2>2. lost' \subseteq Keys
    BY <1>1, <1>2 DEF TypeOK, Unsaved
  <2>3. crashes' \in Nat /\ tick' = "idle" /\ left' = {} /\ untold' = {}
    BY <1>1 DEF Crash, TypeOK
  <2> QED BY <1>1, <1>2, <2>1, <2>2, <2>3 DEF TypeOK
<1>4. PartInv' /\ UntoldInv'
  BY <1>1, <1>2 DEF PartInv, UntoldInv, Crash
<1>5. OnRecord'
  <2> SUFFICES ASSUME NEW j \in Jobs, Acting(j), NEW k \in keys[j] \ lost'
               PROVE  k \in saved.fired \/ saved.pending[k] = j
    BY <1>2 DEF OnRecord, Acting
  <2>1. k \in Keys
    BY <1>1 DEF TypeOK
  <2>2. k \notin Unsaved
    BY <1>2
  <2> QED BY <2>1, <2>2 DEF Unsaved
<1>6. OneAction'
  BY <1>1, <1>2 DEF OneAction, Acting
<1>7. FiredWasDone'
  BY <1>1, <1>2 DEF FiredWasDone
<1> QED BY <1>3, <1>4, <1>5, <1>6, <1>7 DEF Inv

\* Every step keeps the invariant.
LEMMA StepInv == Inv /\ [Next]_vars => Inv'
<1> SUFFICES ASSUME Inv, [Next]_vars PROVE Inv'
  OBVIOUS
<1>0. TypeOK /\ PartInv /\ UntoldInv /\ OnRecord /\ OneAction /\ FiredWasDone
  BY DEF Inv
<1>1. CASE TickStarts
  <2> DEFINE asked == {j \in Jobs : \E k \in Keys : pending[k] = j}
             ended == {j \in asked : Over(j)}
             gone == {j \in asked : phase[j] = "gone"}
  <2>1. /\ Settled(ended, gone)
        /\ UNCHANGED jobs /\ UNCHANGED <<saved, come, untold, crashes, lost>>
        /\ tick' \in {tick, "rules"} /\ left' \in {left, Rules}
    BY <1>1 DEF TickStarts
  <2>2. ended \subseteq {j \in Jobs : Over(j)} /\ gone \subseteq {j \in Jobs : phase[j] = "gone"}
    OBVIOUS
  <2> HIDE DEF ended, gone
  <2>3. /\ fired' \subseteq Keys /\ pending' \in [Keys -> Jobs \cup {None}]
        /\ OnRecord' /\ FiredWasDone'
    BY <1>0, <2>1, <2>2, SettledFacts
  <2>4. TypeOK'
    BY <1>0, <2>1, <2>3 DEF TypeOK, jobs
  <2>5. PartInv' /\ UntoldInv' /\ OneAction'
    BY <1>0, <2>1 DEF PartInv, UntoldInv, OneAction, Acting, Over, jobs
  <2> QED BY <2>3, <2>4, <2>5 DEF Inv
<1>2. CASE TickEnds
  <2>1. saved' \in {saved, [fired |-> fired, pending |-> pending]}
        /\ tick' = "idle"
        /\ UNCHANGED <<jobs, fired, pending, come, left, untold, crashes, lost>>
    BY <1>2 DEF TickEnds, Save
  <2>2. TypeOK'
    <3>1. [fired |-> fired, pending |-> pending]
             \in [fired : SUBSET Keys, pending : [Keys -> Jobs \cup {None}]]
      BY <1>0 DEF TypeOK
    <3>2. saved' \in [fired : SUBSET Keys, pending : [Keys -> Jobs \cup {None}]]
      BY <1>0, <2>1, <3>1 DEF TypeOK
    <3> QED BY <1>0, <2>1, <3>2 DEF TypeOK, jobs
  <2>3. PartInv' /\ UntoldInv' /\ OnRecord' /\ OneAction'
    BY <1>0, <2>1 DEF PartInv, UntoldInv, Over, OnRecord, OneAction, Acting, jobs
  <2>4. FiredWasDone'
    BY <1>0, <2>1 DEF FiredWasDone, jobs
  <2> QED BY <2>2, <2>3, <2>4 DEF Inv
<1>3. CASE Crash
  BY <1>3, CrashKeeps
<1>4. ASSUME NEW r \in Rules, FireNothing(r) PROVE Inv'
  BY <1>0, <1>4
     DEF FireNothing, Inv, TypeOK, PartInv, UntoldInv, OnRecord, OneAction, FiredWasDone, Acting, Over, jobs
<1>5. ASSUME NEW r \in Rules, NEW j \in Jobs, Fire(r, j) PROVE Inv'
  BY <1>5, FireKeeps
<1>6. ASSUME NEW j \in Jobs, Advance(j) \/ StepEnds(j) \/ Cancel(j) \/ Prune(j) PROVE Inv'
  <2>1. /\ UNCHANGED <<keys, fired, pending, saved, come, tick, left, crashes, lost>>
        /\ \/ Job!Decide(j) /\ (part[j][ActionStep] = "held" => part'[j][ActionStep] = "open")
           \/ Job!EndStep(j, ActionStep)
           \/ Job!Cancel(j)
           \/ Job!Forget(j)
    BY <1>6 DEF Advance, StepEnds, Cancel, Prune
  <2>2. /\ phase' \in [Jobs -> Phases]
        /\ part' \in [Jobs -> [{ActionStep} -> Job!StepEnds \cup {"held", "open"}]]
        /\ PartInv' /\ OnlyMoves(j) /\ (phase'[j] = phase[j] \/ Over(j)' \/ Job!Forget(j))
    BY <1>0, <2>1, JobMoves
  <2>3. untold' \subseteq Jobs
    BY <1>0, <1>6 DEF TypeOK, Advance, StepEnds, Cancel, Prune
  <2>4. TypeOK'
    BY <1>0, <2>1, <2>2, <2>3 DEF TypeOK
  <2>6. UntoldInv'
    <3>1. \A i \in Jobs \ {j} : phase'[i] = phase[i]
      BY <2>2 DEF OnlyMoves
    <3>2. CASE Advance(j)
      BY <1>0, <2>2, <3>1, <3>2 DEF Advance, Job!Decide, UntoldInv, Over, TypeOK
    <3>3. CASE StepEnds(j)
      BY <1>0, <3>3 DEF StepEnds, Job!EndStep, UntoldInv, Over
    <3>4. CASE Cancel(j)
      BY <1>0, <3>1, <3>4 DEF Cancel, Job!Cancel, UntoldInv, Over, TypeOK
    <3>5. CASE Prune(j)
      BY <1>0, <3>1, <3>5 DEF Prune, UntoldInv, Over, TypeOK
    <3> QED BY <1>6, <3>2, <3>3, <3>4, <3>5
  <2>5. OnRecord' /\ OneAction' /\ FiredWasDone'
    BY <1>0, <2>1, <2>2, MovesKeepRecords
  <2> QED BY <2>2, <2>4, <2>5, <2>6 DEF Inv
<1>7. ASSUME NEW j \in Jobs, Ended(j) \/ Await(j) PROVE Inv'
  <2>1. /\ Over(j) /\ Settled({j}, {}) /\ untold' \subseteq untold
        /\ saved' \in {saved, [fired |-> fired', pending |-> pending']}
        /\ UNCHANGED jobs /\ UNCHANGED <<come, tick, left, crashes, lost>>
    BY <1>0, <1>7 DEF Ended, Await, Save, UntoldInv
  <2>2. /\ fired' \subseteq Keys /\ pending' \in [Keys -> Jobs \cup {None}]
        /\ saved' \in [fired : SUBSET Keys, pending : [Keys -> Jobs \cup {None}]]
        /\ OnRecord' /\ FiredWasDone'
    <3>1. {j} \subseteq {i \in Jobs : Over(i)} /\ {} \subseteq {i \in Jobs : phase[i] = "gone"}
      BY <2>1
    <3> QED BY <1>0, <2>1, <3>1, SettledFacts
  <2>3. TypeOK'
    BY <1>0, <2>1, <2>2 DEF TypeOK, jobs
  <2>4. PartInv' /\ UntoldInv' /\ OneAction'
    BY <1>0, <2>1 DEF PartInv, UntoldInv, OneAction, Acting, Over, jobs
  <2> QED BY <2>2, <2>3, <2>4 DEF Inv
<1>8. ASSUME NEW k \in Keys, Time(k) PROVE Inv'
  BY <1>0, <1>8
     DEF Time, Inv, TypeOK, PartInv, UntoldInv, OnRecord, OneAction, FiredWasDone, Acting, Over, jobs
<1>9. CASE UNCHANGED vars
  BY <1>0, <1>9
     DEF vars, Inv, TypeOK, PartInv, UntoldInv, OnRecord, OneAction, FiredWasDone, Acting, Over, jobs
<1> QED
  BY <1>1, <1>2, <1>3, <1>4, <1>5, <1>6, <1>7, <1>8, <1>9 DEF Next, Rule

-----------------------------------------------------------------------------
(* The theorems *)

LEMMA Invariance == Spec => []Inv
<1>1. Init => Inv
  BY InitInv
<1>2. Inv /\ [Next]_vars => Inv'
  BY StepInv
<1> QED BY <1>1, <1>2, PTL DEF Spec

\* TypeOK: the variables of the automations keep their types, whatever ends, is canceled,
\* pruned or lost.
THEOREM RulesTyped == Spec => []TypeOK
<1>1. Inv => TypeOK
  BY DEF Inv
<1> QED BY <1>1, Invariance, PTL

\* OneAction: what is due happens once (Tick), but for what a crash made the engine
\* forget.
THEOREM ActsOnce == Spec => []OneAction
<1>1. Inv => OneAction
  BY DEF Inv
<1> QED BY <1>1, Invariance, PTL

\* OnRecord: the rules' state knows of every action that was done or may be, but for what
\* a crash made it forget.
THEOREM ActionsOnRecord == Spec => []OnRecord
<1>1. Inv => OnRecord
  BY DEF Inv
<1> QED BY <1>1, Invariance, PTL

\* FiredWasDone: a failed or canceled action never leaves its rows fired (settle).
THEOREM FiredOnlyWhenDone == Spec => []FiredWasDone
<1>1. Inv => FiredWasDone
  BY DEF Inv
<1> QED BY <1>1, Invariance, PTL
=============================================================================
