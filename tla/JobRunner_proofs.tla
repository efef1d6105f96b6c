--------------------------- MODULE JobRunner_proofs ---------------------------
(***************************************************************************)
(* Proofs about JobRunner, for every pipeline, every number of runs,       *)
(* workers, callers and crashes.                                           *)
(*                                                                         *)
(* The inductive invariant is in four parts: where the threads stand       *)
(* (TypeOK, WorkInv), what the lock of a run guards (LockInv, ViewInv,     *)
(* SingleExecution), what the rows say (ExpiredInv, RowsInv), and whom the *)
(* end of a run is still to be told to (ToldInv).                          *)
(***************************************************************************)
EXTENDS JobRunner, FiniteSetTheorems, TLAPS

\* Each kind of thread keeps to its own places, and one at work on a run has a run.
WorkInv ==
    /\ \A t \in Threads : pc[t] \in {"advance", "decide", "ended"} => onRun[t] \in Runs
    /\ \A w \in Workers :
         /\ pc[w] \in Places \ {"expire", "plugin"}
         /\ pc[w] # "idle" => onRun[w] \in Runs /\ onStep[w] \in Steps
         /\ pc[w] = "save" => outcome[w] # "none"
    /\ \A c \in Callers : pc[c] \in {"idle", "advance", "decide", "ended", "plugin"}
    /\ pc[Loop] \in {"idle", "advance", "decide", "ended", "expire"}
    /\ server = "starting" => \A w \in Workers : pc[w] = "idle"

TypeInv == TypeOK /\ WorkInv

-----------------------------------------------------------------------------
(* What Next decides *)

\* Next gives every step a status, leaves those that were not pending as they were, and
\* gives the pending ones one that agrees with the statuses it gave the others.
LEMMA NextStepsFacts ==
    ASSUME NEW st \in [Steps -> StepStatus], NEW f \in NextSteps(st)
    PROVE  /\ f \in [Steps -> StepStatus]
           /\ \A n \in Steps : st[n] # "pending" => f[n] = st[n]
           /\ \A n \in Steps : st[n] = "pending" => f[n] \in Verdicts(f, n)
<1>1. PICK g \in [PendingSteps(st) -> Decisions] : f = Decide(st, g)
  BY DEF NextSteps
<1>2. f \in [Steps -> StepStatus]
  BY <1>1 DEF Decide, PendingSteps, Decisions, StepStatus
<1>3. \A n \in Steps : st[n] # "pending" => f[n] = st[n]
  BY <1>1 DEF Decide
<1>4. \A n \in Steps : st[n] = "pending" => f[n] \in Verdicts(f, n)
  BY DEF NextSteps, PendingSteps
<1> QED
  BY <1>2, <1>3, <1>4

\* derive and Next give a run a status.
LEMMA RunAfterType ==
    ASSUME NEW s \in RunStatus, NEW f
    PROVE  RunAfter(s, f) \in RunStatus
  BY DEF RunAfter, RunStatus

\* Closing the steps of a run gives each an end.
LEMMA ClosedFacts ==
    ASSUME NEW f \in [Steps -> StepStatus]
    PROVE  /\ Closed(f) \in [Steps -> StepStatus]
           /\ AllEnded(Closed(f))
           /\ \A n \in Steps : f[n] \in Terminal => Closed(f)[n] = f[n]
  BY DEF Closed, AllEnded, Terminal, StepStatus

-----------------------------------------------------------------------------
(* The types, and where the threads stand *)

\* Places are taken and given back in numbers.
LEMMA TakenType ==
    ASSUME TypeOK, NEW X
    PROVE  Taken(X) \in [Resources -> Nat] /\ Released(X) \in [Resources -> Nat]
<1>1. \A x \in Resources : used[x] \in Nat
  BY DEF TypeOK
<1>2. Taken(X) \in [Resources -> Nat]
  BY <1>1 DEF Taken
<1>3. Released(X) \in [Resources -> Nat]
  BY <1>1 DEF Released
<1> QED
  BY <1>2, <1>3

\* A thread that is done with a run goes to a place of its kind.
LEMMA ReturnType ==
    ASSUME TypeInv, NEW t \in Threads, Return(t), pc[t] \in {"advance", "decide", "ended"}
    PROVE  /\ pc' \in [Threads -> Places] /\ onRun' \in [Threads -> Runs \cup {None}]
           /\ \A u \in Threads \ {t} : pc'[u] = pc[u] /\ onRun'[u] = onRun[u]
           /\ pc'[t] = IF t \in Workers THEN "release" ELSE IF t = Loop THEN "expire" ELSE "idle"
           /\ t \in Workers => onRun'[t] = onRun[t]
  BY DEF TypeInv, TypeOK, Return, Go, Places

LEMMA TypeInit == Init => TypeInv
  BY ThreadsAssumption
     DEF Init, TypeInv, TypeOK, WorkInv, Threads, Places, RunStatus, StepStatus, NoView

LEMMA TypeStep == TypeInv /\ [Next]_vars => TypeInv'
<1> SUFFICES ASSUME TypeInv, [Next]_vars PROVE TypeInv'
  OBVIOUS
<1> USE ThreadsAssumption DEF TypeInv
<1>1. ASSUME NEW c \in Callers, NEW r \in Runs, Submit(c, r)
      PROVE  TypeInv'
  BY <1>1 DEF Submit, Go, TypeOK, WorkInv, Threads, Places, RunStatus, locks
<1>2. ASSUME NEW c \in Callers, NEW r \in Runs, NEW n \in Steps, NEW s \in {"done", "failed"},
             EndWait(c, r, n, s)
      PROVE  TypeInv'
  BY <1>2 DEF EndWait, Applied, Go, TypeOK, WorkInv, Threads, Places, StepStatus, locks
<1>3. ASSUME NEW c \in Callers, NEW r \in Runs, NEW n \in Steps, RunAgain(c, r, n)
      PROVE  TypeInv'
  <2>1. TypeOK'
    BY <1>3 DEF RunAgain, Go, TypeOK, Threads, Places, StepStatus, locks
  <2>2. WorkInv'
    BY <1>3 DEF RunAgain, Go, TypeOK, WorkInv, Threads, Places, locks
  <2> QED BY <2>1, <2>2
<1>4. ASSUME NEW c \in Callers, NEW r \in Runs, Cancel(c, r)
      PROVE  TypeInv'
  <2>1. Closed(step[r]) \in [Steps -> StepStatus]
    BY ClosedFacts DEF TypeOK
  <2>2. TypeOK'
    BY <1>4, <2>1 DEF Cancel, Go, TypeOK, Threads, Places, RunStatus, locks
  <2>3. WorkInv'
    BY <1>4 DEF Cancel, Go, TypeOK, WorkInv, Threads, Places, locks
  <2> QED BY <2>2, <2>3
<1>5. ASSUME NEW c \in Callers, PluginTake(c) \/ PluginRelease(c)
      PROVE  TypeInv'
  <2>1. used' \in [Resources -> Nat]
    BY <1>5, TakenType DEF PluginTake, PluginRelease
  <2>2. pc' \in [Threads -> Places] /\ onRun' \in [Threads -> Runs \cup {None}]
    BY <1>5 DEF PluginTake, PluginRelease, Go, TypeOK, Threads, Places
  <2>4. UNCHANGED <<database, onStep, outcome, ctx, locks, expired, server, executor, told, crashes>>
    BY <1>5 DEF PluginTake, PluginRelease
  <2>5. TypeOK'
    BY <2>1, <2>2, <2>4 DEF TypeOK, database, locks
  <2>3. WorkInv'
    <3>1. pc'[c] \in {"plugin", "idle"}
      BY <1>5 DEF PluginTake, PluginRelease, Go, TypeOK, Threads
    <3>2. \A t \in Threads \ {c} : pc'[t] = pc[t] /\ onRun'[t] = onRun[t]
      BY <1>5 DEF PluginTake, PluginRelease, Go, TypeOK
    <3>3. onStep' = onStep /\ outcome' = outcome /\ server' = server
      BY <2>4
    <3> QED BY <3>1, <3>2, <3>3 DEF WorkInv, Threads
  <2> QED BY <2>3, <2>5
<1>6. ASSUME NEW t \in Threads, AdvanceNothing(t) \/ TellEnded(t)
      PROVE  TypeInv'
  <2>1. onRun[t] \in Runs /\ pc[t] \in {"advance", "ended"}
    BY <1>6 DEF AdvanceNothing, TellEnded, WorkInv
  <2>2. Return(t)
    BY <1>6 DEF AdvanceNothing, TellEnded
  <2>3. /\ pc' \in [Threads -> Places] /\ onRun' \in [Threads -> Runs \cup {None}]
        /\ \A u \in Threads \ {t} : pc'[u] = pc[u] /\ onRun'[u] = onRun[u]
        /\ pc'[t] = IF t \in Workers THEN "release" ELSE IF t = Loop THEN "expire" ELSE "idle"
        /\ t \in Workers => onRun'[t] = onRun[t]
    BY <2>1, <2>2, ReturnType
  <2>4. told' \in [Runs -> Nat]
    <3>1. told' = told \/ told' = [told EXCEPT ![onRun[t]] = @ + 1]
      BY <1>6 DEF AdvanceNothing, TellEnded
    <3>2. told \in [Runs -> Nat]
      BY DEF TypeOK
    <3> HIDE DEF TypeInv
    <3> QED BY <2>1, <3>1, <3>2
  <2>5. UNCHANGED <<database, onStep, outcome, ctx, locks, used, expired, server, executor, crashes>>
    BY <1>6 DEF AdvanceNothing, TellEnded
  <2>6. TypeOK'
    BY <2>3, <2>4, <2>5 DEF TypeOK, database, locks
  <2>7. WorkInv'
    BY <2>1, <2>3, <2>5 DEF WorkInv, Threads, Places
  <2> QED BY <2>6, <2>7
<1>7. ASSUME NEW t \in Threads, AdvanceRead(t)
      PROVE  TypeInv'
  <2>1. onRun[t] \in Runs
    BY <1>7 DEF AdvanceRead, WorkInv
  <2>2. TypeOK'
    BY <1>7, <2>1 DEF AdvanceRead, Go, TypeOK, Threads, Places, RunStatus, database
  <2>3. WorkInv'
    BY <1>7, <2>1 DEF AdvanceRead, Go, TypeOK, WorkInv, Threads, Places, database
  <2> QED BY <2>2, <2>3
<1>8. ASSUME NEW t \in Threads, AdvanceWrite(t)
      PROVE  TypeInv'
  <2> DEFINE r == onRun[t]
             v == view[r]
  <2>1. r \in Runs /\ pc[t] = "decide"
    BY <1>8 DEF AdvanceWrite, WorkInv
  <2>2. v.steps \in [Steps -> StepStatus] /\ v.run \in RunStatus
    BY <2>1 DEF TypeOK
  <2>3. PICK f \in NextSteps(v.steps) :
          LET status == RunAfter(v.run, f)
              after  == IF status \in RunEnds THEN Closed(f) ELSE f IN
          /\ step' = [step EXCEPT ![r] = [n \in Steps |->
                 IF after[n] = v.steps[n] \/ step[r][n] \in Terminal THEN step[r][n] ELSE after[n]]]
          /\ run' = [run EXCEPT ![r] = IF status = v.run \/ run[r] \in RunEnds THEN run[r] ELSE status]
          /\ IF status \in RunEnds THEN Go(t, "ended", r) ELSE Return(t)
    BY <1>8 DEF AdvanceWrite
  <2> DEFINE status == RunAfter(v.run, f)
             after  == IF status \in RunEnds THEN Closed(f) ELSE f
  <2>4. after \in [Steps -> StepStatus] /\ status \in RunStatus
    BY <2>2, NextStepsFacts, ClosedFacts, RunAfterType
  <2>5. step' \in [Runs -> [Steps -> StepStatus]] /\ run' \in [Runs -> RunStatus]
    <3> HIDE DEF status, after
    <3> QED BY <2>1, <2>3, <2>4 DEF TypeOK, status, after
  <2>6. /\ pc' \in [Threads -> Places] /\ onRun' \in [Threads -> Runs \cup {None}]
        /\ \A u \in Threads \ {t} : pc'[u] = pc[u] /\ onRun'[u] = onRun[u]
        /\ \/ pc'[t] = "ended" /\ onRun'[t] = r
           \/ /\ pc'[t] = IF t \in Workers THEN "release" ELSE IF t = Loop THEN "expire" ELSE "idle"
              /\ t \in Workers => onRun'[t] = r
    <3>1. CASE status \in RunEnds
      BY <3>1, <2>1, <2>3 DEF Go, TypeOK, Places
    <3>2. CASE status \notin RunEnds
      BY <3>2, <2>1, <2>3, ReturnType
    <3> QED BY <3>1, <3>2
  <2>7. lock' \in [Runs -> Threads \cup {None}]
        /\ view' \in [Runs -> [run : RunStatus, steps : [Steps -> StepStatus]]]
    BY <1>8, <2>1 DEF AdvanceWrite, NoView, TypeOK, RunStatus, StepStatus
  <2>8. UNCHANGED <<attempt, again, onStep, outcome, ctx, used, expired, server, executor, told, crashes>>
    BY <1>8 DEF AdvanceWrite
  <2>9. TypeOK'
    BY <2>5, <2>6, <2>7, <2>8 DEF TypeOK
  <2>10. WorkInv'
    BY <2>1, <2>6, <2>8 DEF WorkInv, Threads, Places
  <2> QED BY <2>9, <2>10
<1>9. ASSUME Recover
      PROVE  TypeInv'
  BY <1>9 DEF Recover, TypeOK, WorkInv, StepStatus, threads, locks
<1>10. ASSUME ExpireRead \/ ExpireDone
       PROVE  TypeInv'
  <2>1. expired' \subseteq Runs \X Steps
    BY <1>10 DEF ExpireRead, ExpireDone, Waits, TypeOK
  <2>2. TypeOK'
    BY <1>10, <2>1 DEF ExpireRead, ExpireDone, Go, TypeOK, Threads, Places, database, locks
  <2>3. WorkInv'
    <3>1. pc'[Loop] \in {"expire", "idle"}
      BY <1>10 DEF ExpireRead, ExpireDone, Go, TypeOK, Threads
    <3>2. \A t \in Threads \ {Loop} : pc'[t] = pc[t] /\ onRun'[t] = onRun[t]
      BY <1>10 DEF ExpireRead, ExpireDone, Go, TypeOK
    <3>3. onStep' = onStep /\ outcome' = outcome /\ server' = server
      BY <1>10 DEF ExpireRead, ExpireDone
    <3> QED BY <3>1, <3>2, <3>3 DEF WorkInv, Threads
  <2> QED BY <2>2, <2>3
<1>11. ASSUME NEW r \in Runs, NEW n \in Steps, ExpireApply(r, n)
       PROVE  TypeInv'
  BY <1>11 DEF ExpireApply, Applied, Go, TypeOK, WorkInv, Threads, Places, StepStatus, locks
<1>12. ASSUME NEW r \in Runs, Prune(r)
       PROVE  TypeInv'
  BY <1>12 DEF Prune, TypeOK, WorkInv, RunStatus, threads, locks
<1>13. ASSUME NEW w \in Workers, NEW r \in Runs, NEW n \in Steps, Claim(w, r, n)
       PROVE  TypeInv'
  <2>1. TypeOK'
    BY <1>13 DEF Claim, Taken, Go, TypeOK, Threads, Places, StepStatus, RunStatus, locks
  <2>2. WorkInv'
    BY <1>13 DEF Claim, Go, TypeOK, WorkInv, Threads, Places, locks
  <2> QED BY <2>1, <2>2
<1>14. ASSUME NEW w \in Workers, Begin(w) \/ Orphan(w) \/ Release(w)
       PROVE  TypeInv'
  <2>1. used' \in [Resources -> Nat]
    BY <1>14, TakenType DEF Begin, Orphan, Release, TypeOK
  <2>2. onRun[w] \in Runs
    BY <1>14 DEF Begin, Orphan, Release, WorkInv
  <2>5. /\ pc' \in [Threads -> Places] /\ onRun' \in [Threads -> Runs \cup {None}]
        /\ onStep' \in [Workers -> Steps \cup {None}]
        /\ ctx' \in [Workers -> {"none", "live", "canceled"}]
    BY <1>14, <2>2 DEF Begin, Orphan, Release, Go, TypeOK, Threads, Places
  <2>6. UNCHANGED <<database, outcome, locks, expired, server, executor, told, crashes>>
    BY <1>14 DEF Begin, Orphan, Release
  <2>3. TypeOK'
    BY <2>1, <2>5, <2>6 DEF TypeOK, database, locks
  <2>4. WorkInv'
    <3>1. /\ pc'[w] \in {"exec", "orphan", "idle"} /\ (pc'[w] # "idle" => onRun'[w] = onRun[w])
          /\ (pc'[w] # "idle" => pc[w] # "idle" /\ onStep'[w] = onStep[w])
      BY <1>14 DEF Begin, Orphan, Release, Go, TypeOK, Threads
    <3>2. \A t \in Threads \ {w} : pc'[t] = pc[t] /\ onRun'[t] = onRun[t]
      BY <1>14 DEF Begin, Orphan, Release, Go, TypeOK
    <3>3. \A v \in Workers \ {w} : onStep'[v] = onStep[v]
      BY <1>14 DEF Begin, Orphan, Release, TypeOK
    <3>4. outcome' = outcome /\ server' = server /\ pc[w] # "idle"
      BY <1>14 DEF Begin, Orphan, Release
    <3> QED BY <2>2, <3>1, <3>2, <3>3, <3>4 DEF WorkInv, Threads, Places
  <2> QED BY <2>3, <2>4
<1>15. ASSUME NEW w \in Workers, StepEnds(w)
       PROVE  TypeInv'
  <2>1. onRun[w] \in Runs /\ pc[w] = "exec"
    BY <1>15 DEF StepEnds, WorkInv
  <2>2. PICK s \in Outcomes(onRun[w], onStep[w]) :
            \/ Go(w, "release", onRun[w]) /\ UNCHANGED outcome
            \/ Go(w, "save", onRun[w]) /\ outcome' = [outcome EXCEPT ![w] = s]
    BY <1>15 DEF StepEnds
  <2>3. s \in {"done", "failed", "queued", "waiting"}
    BY DEF Outcomes
  <2>6. /\ pc' \in [Threads -> Places] /\ onRun' \in [Threads -> Runs \cup {None}]
        /\ outcome' \in [Workers -> {"none", "done", "failed", "queued", "waiting"}]
        /\ ctx' \in [Workers -> {"none", "live", "canceled"}]
    <3>1. ctx' = [ctx EXCEPT ![w] = "none"]
      BY <1>15 DEF StepEnds
    <3>2. pc' \in [Threads -> Places] /\ onRun' \in [Threads -> Runs \cup {None}]
      BY <2>1, <2>2 DEF Go, TypeOK, Threads, Places
    <3>3. outcome' \in [Workers -> {"none", "done", "failed", "queued", "waiting"}]
      BY <2>2, <2>3 DEF TypeOK
    <3> QED BY <3>1, <3>2, <3>3 DEF TypeOK
  <2>7. UNCHANGED <<database, onStep, locks, used, expired, server, executor, told, crashes>>
    BY <1>15 DEF StepEnds
  <2>4. TypeOK'
    BY <2>6, <2>7 DEF TypeOK, database, locks
  <2>5. WorkInv'
    <3>1. pc'[w] \in {"release", "save"} /\ onRun'[w] = onRun[w]
          /\ (pc'[w] = "save" => outcome'[w] # "none")
      BY <2>2, <2>3 DEF Go, TypeOK, Threads
    <3>2. \A t \in Threads \ {w} : pc'[t] = pc[t] /\ onRun'[t] = onRun[t]
      BY <2>2 DEF Go, TypeOK
    <3>3. \A v \in Workers \ {w} : outcome'[v] = outcome[v]
      BY <2>2 DEF TypeOK
    <3>4. onStep' = onStep /\ server' = server
      BY <2>7
    <3> QED BY <2>1, <3>1, <3>2, <3>3, <3>4 DEF WorkInv, Threads, Places
  <2> QED BY <2>4, <2>5
<1>16. ASSUME NEW w \in Workers, Save(w)
       PROVE  TypeInv'
  BY <1>16 DEF Save, Applied, Go, TypeOK, WorkInv, Threads, Places, StepStatus, locks
<1>17. ASSUME Register \/ Stop \/ Crash
       PROVE  TypeInv'
  BY <1>17 DEF Register, Stop, Crash, NoView, TypeOK, WorkInv, Threads, Places, StepStatus, RunStatus,
               database, threads, locks
<1>18. CASE UNCHANGED vars
  BY <1>18 DEF vars, database, threads, locks, TypeOK, WorkInv
<1>19. ASSUME NEW w \in Workers, FailOrphan(w)
       PROVE  TypeInv'
  BY <1>19 DEF FailOrphan, Applied, Go, TypeOK, WorkInv, Threads, Places, StepStatus, locks
<1> QED
  BY <1>1, <1>2, <1>3, <1>4, <1>5, <1>6, <1>7, <1>8, <1>9, <1>10, <1>11, <1>12, <1>13, <1>14,
     <1>15, <1>16, <1>17, <1>18, <1>19, StepsAssumption
     DEF Next, Call, GoOn, Work, Expire, ClaimSome

\* TypeOK holds: every row, every thread and every count has its type.
THEOREM TypeCorrect == Spec => []TypeOK
<1>1. Init => TypeInv
  BY TypeInit
<1>2. TypeInv /\ [Next]_vars => TypeInv'
  BY TypeStep
<1> QED
  BY <1>1, <1>2, PTL DEF Spec, TypeInv

-----------------------------------------------------------------------------
(* What the actions do to the rows *)

\* The actions that leave the jobs database as it is.
Quiet ==
    \/ \E c \in Callers : PluginTake(c) \/ PluginRelease(c)
    \/ \E t \in Threads : AdvanceNothing(t) \/ AdvanceRead(t) \/ TellEnded(t)
    \/ \E w \in Workers : Begin(w) \/ Orphan(w) \/ StepEnds(w) \/ Release(w)
    \/ ExpireRead \/ ExpireDone \/ Register \/ Stop \/ Crash \/ UNCHANGED vars

\* A step of the system is an action that changes rows, or a quiet one.
LEMMA NextCases ==
    ASSUME [Next]_vars
    PROVE  \/ \E c \in Callers, r \in Runs : Submit(c, r) \/ Cancel(c, r)
           \/ \E c \in Callers, r \in Runs, n \in Steps, s \in {"done", "failed"} : EndWait(c, r, n, s)
           \/ \E c \in Callers, r \in Runs, n \in Steps : RunAgain(c, r, n)
           \/ \E t \in Threads : AdvanceWrite(t)
           \/ Recover
           \/ \E r \in Runs, n \in Steps : ExpireApply(r, n)
           \/ \E r \in Runs : Prune(r)
           \/ \E w \in Workers, r \in Runs, n \in Steps : Claim(w, r, n)
           \/ \E w \in Workers : Save(w) \/ FailOrphan(w)
           \/ Quiet
  BY StepsAssumption DEF Next, Call, GoOn, Work, Expire, ClaimSome, Quiet

LEMMA QuietRows == Quiet => UNCHANGED <<run, step>>
  BY DEF Quiet, PluginTake, PluginRelease, AdvanceNothing, AdvanceRead, TellEnded, Begin, Orphan,
         StepEnds, Release, ExpireRead, ExpireDone, Register, Stop, Crash, vars, database

\* What AdvanceWrite does to the rows of its run, and to those of the others.
LEMMA AdvanceWriteFacts ==
    ASSUME TypeInv, NEW t \in Threads, AdvanceWrite(t)
    PROVE  /\ onRun[t] \in Runs /\ pc[t] = "decide"
           /\ \A q \in Runs \ {onRun[t]} : step'[q] = step[q] /\ run'[q] = run[q]
           /\ \E f \in NextSteps(view[onRun[t]].steps), a \in [Steps -> StepStatus], s \in RunStatus :
                /\ s = RunAfter(view[onRun[t]].run, f)
                /\ a = IF s \in RunEnds THEN Closed(f) ELSE f
                /\ \A n \in Steps : step'[onRun[t]][n] =
                      IF a[n] = view[onRun[t]].steps[n] \/ step[onRun[t]][n] \in Terminal
                      THEN step[onRun[t]][n] ELSE a[n]
                /\ run'[onRun[t]] = IF s = view[onRun[t]].run \/ run[onRun[t]] \in RunEnds
                                    THEN run[onRun[t]] ELSE s
                /\ s \in RunEnds => Go(t, "ended", onRun[t])
                /\ s \notin RunEnds => Return(t)
<1> DEFINE r == onRun[t]
           v == view[r]
<1>1. r \in Runs /\ pc[t] = "decide"
  BY DEF AdvanceWrite, TypeInv, WorkInv
<1>2. v.steps \in [Steps -> StepStatus] /\ v.run \in RunStatus
  BY <1>1 DEF TypeInv, TypeOK
<1>3. PICK f \in NextSteps(v.steps) :
        LET status == RunAfter(v.run, f)
            after  == IF status \in RunEnds THEN Closed(f) ELSE f IN
        /\ step' = [step EXCEPT ![r] = [n \in Steps |->
               IF after[n] = v.steps[n] \/ step[r][n] \in Terminal THEN step[r][n] ELSE after[n]]]
        /\ run' = [run EXCEPT ![r] = IF status = v.run \/ run[r] \in RunEnds THEN run[r] ELSE status]
        /\ IF status \in RunEnds THEN Go(t, "ended", r) ELSE Return(t)
  BY DEF AdvanceWrite
<1> DEFINE status == RunAfter(v.run, f)
           after  == IF status \in RunEnds THEN Closed(f) ELSE f
<1>4. after \in [Steps -> StepStatus] /\ status \in RunStatus
  BY <1>2, NextStepsFacts, ClosedFacts, RunAfterType
<1>5. \A q \in Runs \ {r} : step'[q] = step[q] /\ run'[q] = run[q]
  BY <1>1, <1>3 DEF TypeInv, TypeOK
<1>6. \A n \in Steps : step'[r][n] =
         IF after[n] = v.steps[n] \/ step[r][n] \in Terminal THEN step[r][n] ELSE after[n]
  BY <1>1, <1>3 DEF TypeInv, TypeOK
<1>7. run'[r] = IF status = v.run \/ run[r] \in RunEnds THEN run[r] ELSE status
  BY <1>1, <1>3 DEF TypeInv, TypeOK
<1>8. (status \in RunEnds => Go(t, "ended", r)) /\ (status \notin RunEnds => Return(t))
  BY <1>3
<1> HIDE DEF status, after
<1> QED
  BY <1>1, <1>4, <1>5, <1>6, <1>7, <1>8 DEF status, after

\* The rows of steps and of runs that ended keep their end.
LEMMA EndsKept ==
    ASSUME TypeInv, [Next]_vars, NEW r \in Runs
    PROVE  /\ run[r] \in RunEnds => run'[r] \in {run[r], "pruned"}
           /\ \A n \in Steps : step[r][n] \in Terminal => step'[r][n] = step[r][n]
<1> USE DEF TypeInv, TypeOK, RunEnds, Terminal
<1>1. ASSUME NEW c \in Callers, NEW q \in Runs, Submit(c, q) \/ Cancel(c, q)
      PROVE  /\ run[r] \in RunEnds => run'[r] \in {run[r], "pruned"}
             /\ \A n \in Steps : step[r][n] \in Terminal => step'[r][n] = step[r][n]
  BY <1>1 DEF Submit, Cancel, Live, Closed
<1>2. ASSUME NEW c \in Callers, NEW q \in Runs, NEW m \in Steps, NEW s \in {"done", "failed"},
             EndWait(c, q, m, s)
      PROVE  /\ run[r] \in RunEnds => run'[r] \in {run[r], "pruned"}
             /\ \A n \in Steps : step[r][n] \in Terminal => step'[r][n] = step[r][n]
  BY <1>2 DEF EndWait, Applied
<1>3. ASSUME NEW c \in Callers, NEW q \in Runs, NEW m \in Steps, RunAgain(c, q, m)
      PROVE  /\ run[r] \in RunEnds => run'[r] \in {run[r], "pruned"}
             /\ \A n \in Steps : step[r][n] \in Terminal => step'[r][n] = step[r][n]
  BY <1>3 DEF RunAgain
<1>4. ASSUME NEW t \in Threads, AdvanceWrite(t)
      PROVE  /\ run[r] \in RunEnds => run'[r] \in {run[r], "pruned"}
             /\ \A n \in Steps : step[r][n] \in Terminal => step'[r][n] = step[r][n]
  BY <1>4, AdvanceWriteFacts
<1>5. ASSUME Recover
      PROVE  /\ run[r] \in RunEnds => run'[r] \in {run[r], "pruned"}
             /\ \A n \in Steps : step[r][n] \in Terminal => step'[r][n] = step[r][n]
  BY <1>5 DEF Recover
<1>6. ASSUME NEW q \in Runs, NEW m \in Steps, ExpireApply(q, m)
      PROVE  /\ run[r] \in RunEnds => run'[r] \in {run[r], "pruned"}
             /\ \A n \in Steps : step[r][n] \in Terminal => step'[r][n] = step[r][n]
  BY <1>6 DEF ExpireApply, Applied
<1>7. ASSUME NEW q \in Runs, Prune(q)
      PROVE  /\ run[r] \in RunEnds => run'[r] \in {run[r], "pruned"}
             /\ \A n \in Steps : step[r][n] \in Terminal => step'[r][n] = step[r][n]
  BY <1>7 DEF Prune
<1>8. ASSUME NEW w \in Workers, NEW q \in Runs, NEW m \in Steps, Claim(w, q, m)
      PROVE  /\ run[r] \in RunEnds => run'[r] \in {run[r], "pruned"}
             /\ \A n \in Steps : step[r][n] \in Terminal => step'[r][n] = step[r][n]
  BY <1>8 DEF Claim
<1>9. ASSUME NEW w \in Workers, Save(w) \/ FailOrphan(w)
      PROVE  /\ run[r] \in RunEnds => run'[r] \in {run[r], "pruned"}
             /\ \A n \in Steps : step[r][n] \in Terminal => step'[r][n] = step[r][n]
  <2>1. \E s : step' = Applied(onRun[w], onStep[w], s)
    BY <1>9 DEF Save, FailOrphan
  <2>2. run' = run
    BY <1>9 DEF Save, FailOrphan
  <2>3. onRun[w] \in Runs /\ onStep[w] \in Steps
    BY <1>9 DEF Save, FailOrphan, WorkInv
  <2> QED BY <2>1, <2>2, <2>3 DEF Applied
<1>10. CASE Quiet
  BY <1>10, QuietRows
<1> QED
  BY <1>1, <1>2, <1>3, <1>4, <1>5, <1>6, <1>7, <1>8, <1>9, <1>10, NextCases

\* EndsAreFinal: a late result never overwrites a step that ended, nor the end of a run.
THEOREM EndsStayFinal == Spec => EndsAreFinal
<1>1. TypeInv /\ [Next]_vars =>
        [\A r \in Runs :
          /\ run[r] \in RunEnds => run'[r] \in {run[r], "pruned"}
          /\ \A n \in Steps : step[r][n] \in Terminal => step'[r][n] = step[r][n]]_vars
  BY EndsKept
<1> QED
  BY <1>1, TypeInit, TypeStep, PTL DEF Spec, EndsAreFinal

-----------------------------------------------------------------------------
(* What the lock of a run guards *)

\* The lock of a run is held by the thread that decides what comes next in it.
LockInv ==
    \A r \in Runs, t \in Threads : lock[r] = t <=> (pc[t] = "decide" /\ onRun[t] = r)

\* While it is held, the run is not ended and what was read of it still stands, but for
\* the steps under way: a worker claimed one meanwhile, a starting process took one back,
\* or a worker that had found no executor failed its own.
ViewInv ==
    \A r \in Runs : lock[r] # None =>
        /\ Live(r)
        /\ view[r].run \in {"queued", "running", "waiting"}
        /\ \A n \in Steps :
             \/ view[r].steps[n] = step[r][n]
             \/ /\ view[r].steps[n] \in {"queued", "running"}
                /\ step[r][n] \in {"queued", "running", "failed"}

\* A thread that moves, but not into or out of decide, leaves the lock's owners alone.
LEMMA OtherMove ==
    ASSUME TypeInv, LockInv, NEW t \in Threads, NEW p, NEW q, Go(t, p, q),
           pc[t] # "decide", p # "decide", lock' = lock
    PROVE  LockInv'
  BY DEF TypeInv, TypeOK, LockInv, Go

LEMMA OtherReturn ==
    ASSUME TypeInv, LockInv, NEW t \in Threads, Return(t), pc[t] # "decide", lock' = lock
    PROVE  LockInv'
  BY OtherMove DEF Return

LEMMA LockStep == TypeInv /\ LockInv /\ [Next]_vars => LockInv'
<1> SUFFICES ASSUME TypeInv, LockInv, [Next]_vars PROVE LockInv'
  OBVIOUS
<1> USE ThreadsAssumption
<1>1. ASSUME NEW c \in Callers, NEW r \in Runs, Submit(c, r) \/ Cancel(c, r)
      PROVE  LockInv'
  BY <1>1, OtherMove DEF Submit, Cancel, locks, Threads
<1>2. ASSUME NEW c \in Callers, NEW r \in Runs, NEW n \in Steps, NEW s \in {"done", "failed"},
             EndWait(c, r, n, s)
      PROVE  LockInv'
  BY <1>2, OtherMove DEF EndWait, locks, Threads
<1>3. ASSUME NEW c \in Callers, NEW r \in Runs, NEW n \in Steps, RunAgain(c, r, n)
      PROVE  LockInv'
  BY <1>3, OtherMove DEF RunAgain, locks, Threads
<1>4. ASSUME NEW t \in Threads, AdvanceWrite(t)
      PROVE  LockInv'
  <2>1. onRun[t] \in Runs /\ pc[t] = "decide" /\ lock' = [lock EXCEPT ![onRun[t]] = None]
    BY <1>4, AdvanceWriteFacts DEF AdvanceWrite
  <2>2. /\ pc'[t] # "decide"
        /\ \A u \in Threads \ {t} : pc'[u] = pc[u] /\ onRun'[u] = onRun[u]
    <3>1. CASE Go(t, "ended", onRun[t])
      BY <3>1 DEF Go, TypeInv, TypeOK
    <3>2. CASE Return(t)
      BY <3>2, <2>1, ReturnType
    <3> QED BY <3>1, <3>2, <1>4, AdvanceWriteFacts
  <2>3. None \notin Threads
    OBVIOUS
  <2>4. lock[onRun[t]] = t
    BY <2>1 DEF LockInv
  <2>5. \A q \in Runs : lock'[q] = IF q = onRun[t] THEN None ELSE lock[q]
    BY <2>1 DEF TypeInv, TypeOK
  <2>6. ASSUME NEW q \in Runs, NEW u \in Threads
        PROVE  lock'[q] = u <=> (pc'[u] = "decide" /\ onRun'[u] = q)
    <3>1. lock[q] = u <=> (pc[u] = "decide" /\ onRun[u] = q)
      BY DEF LockInv
    <3> QED BY <3>1, <2>1, <2>2, <2>3, <2>4, <2>5
  <2> QED BY <2>6 DEF LockInv
<1>5. ASSUME Recover \/ \E r \in Runs : Prune(r)
      PROVE  LockInv'
  BY <1>5 DEF Recover, Prune, LockInv, locks, threads
<1>6. ASSUME NEW r \in Runs, NEW n \in Steps, ExpireApply(r, n)
      PROVE  LockInv'
  BY <1>6, OtherMove DEF ExpireApply, locks, Threads
<1>7. ASSUME NEW w \in Workers, NEW r \in Runs, NEW n \in Steps, Claim(w, r, n)
      PROVE  LockInv'
  BY <1>7, OtherMove DEF Claim, locks, Threads
<1>8. ASSUME NEW w \in Workers, Save(w) \/ FailOrphan(w)
      PROVE  LockInv'
  BY <1>8, OtherMove DEF Save, FailOrphan, locks, Threads
<1>9. ASSUME NEW c \in Callers, PluginTake(c) \/ PluginRelease(c)
      PROVE  LockInv'
  BY <1>9, OtherMove DEF PluginTake, PluginRelease, locks, Threads
<1>10. ASSUME NEW t \in Threads, AdvanceNothing(t) \/ TellEnded(t)
       PROVE  LockInv'
  BY <1>10, OtherReturn DEF AdvanceNothing, TellEnded, locks
<1>11. ASSUME NEW t \in Threads, AdvanceRead(t)
       PROVE  LockInv'
  BY <1>11 DEF AdvanceRead, Go, LockInv, TypeInv, TypeOK, WorkInv
<1>12. ASSUME NEW w \in Workers, Begin(w) \/ Orphan(w) \/ Release(w)
       PROVE  LockInv'
  BY <1>12, OtherMove DEF Begin, Orphan, Release, locks, Threads
<1>13. ASSUME NEW w \in Workers, StepEnds(w)
       PROVE  LockInv'
  <2>1. pc[w] = "exec" /\ lock' = lock /\ (Go(w, "release", onRun[w]) \/ Go(w, "save", onRun[w]))
    BY <1>13 DEF StepEnds, locks
  <2> QED BY <2>1, OtherMove DEF Threads
<1>14. ASSUME ExpireRead \/ ExpireDone
       PROVE  LockInv'
  BY <1>14, OtherMove DEF ExpireRead, ExpireDone, locks, Threads
<1>15. ASSUME Register \/ Stop \/ Crash \/ UNCHANGED vars
       PROVE  LockInv'
  BY <1>15 DEF Register, Stop, Crash, vars, locks, threads, LockInv
<1> QED
  BY <1>1, <1>2, <1>3, <1>4, <1>5, <1>6, <1>7, <1>8, <1>9, <1>10, <1>11, <1>12, <1>13, <1>14,
     <1>15, NextCases
     DEF Quiet

\* The lock is free whenever a row is written by anything but its holder, a claim, the
\* start of a process, or a worker without an executor.
LEMMA ViewStep == TypeInv /\ LockInv /\ ViewInv /\ SingleExecution /\ [Next]_vars => ViewInv'
<1> SUFFICES ASSUME TypeInv, LockInv, ViewInv, SingleExecution, [Next]_vars,
                    NEW r \in Runs, lock'[r] # None
             PROVE  /\ Live(r)'
                    /\ view'[r].run \in {"queued", "running", "waiting"}
                    /\ \A n \in Steps :
                         \/ view'[r].steps[n] = step'[r][n]
                         \/ /\ view'[r].steps[n] \in {"queued", "running"}
                            /\ step'[r][n] \in {"queued", "running", "failed"}
  BY DEF ViewInv
<1> DEFINE Stands == /\ Live(r)'
                     /\ view'[r].run \in {"queued", "running", "waiting"}
                     /\ \A n \in Steps :
                          \/ view'[r].steps[n] = step'[r][n]
                          \/ /\ view'[r].steps[n] \in {"queued", "running"}
                             /\ step'[r][n] \in {"queued", "running", "failed"}
<1>a. ASSUME lock'[r] = lock[r], view'[r] = view[r], run'[r] = run[r], step'[r] = step[r]
      PROVE  Stands
  BY <1>a DEF ViewInv, Live
<1>1. ASSUME NEW c \in Callers, NEW q \in Runs, Submit(c, q) \/ Cancel(c, q)
      PROVE  Stands
  <2>1. lock' = lock /\ view' = view
    BY <1>1 DEF Submit, Cancel, locks
  <2>2. q # r
    BY <1>1, <2>1 DEF Submit, Cancel, ViewInv, Live
  <2>3. run'[r] = run[r] /\ step'[r] = step[r]
    BY <1>1, <2>2 DEF Submit, Cancel, TypeInv, TypeOK
  <2> QED BY <2>1, <2>3, <1>a
<1>2. ASSUME NEW c \in Callers, NEW q \in Runs, NEW m \in Steps, NEW s \in {"done", "failed"},
             EndWait(c, q, m, s)
      PROVE  Stands
  <2>1. lock' = lock /\ view' = view /\ q # r
    BY <1>2 DEF EndWait, locks
  <2>2. run'[r] = run[r] /\ step'[r] = step[r]
    BY <1>2, <2>1 DEF EndWait, Applied, TypeInv, TypeOK
  <2> QED BY <2>1, <2>2, <1>a
<1>3. ASSUME NEW c \in Callers, NEW q \in Runs, NEW m \in Steps, RunAgain(c, q, m)
      PROVE  Stands
  <2>1. lock' = lock /\ view' = view /\ q # r
    BY <1>3 DEF RunAgain, locks
  <2>2. run'[r] = run[r] /\ step'[r] = step[r]
    BY <1>3, <2>1 DEF RunAgain, TypeInv, TypeOK
  <2> QED BY <2>1, <2>2, <1>a
<1>4. ASSUME NEW t \in Threads, AdvanceWrite(t)
      PROVE  Stands
  <2>1. lock' = [lock EXCEPT ![onRun[t]] = None] /\ view' = [view EXCEPT ![onRun[t]] = NoView]
    BY <1>4 DEF AdvanceWrite
  <2>2. onRun[t] # r
    BY <2>1 DEF TypeInv, TypeOK
  <2>3. run'[r] = run[r] /\ step'[r] = step[r]
    BY <1>4, <2>2, AdvanceWriteFacts
  <2>4. lock'[r] = lock[r] /\ view'[r] = view[r]
    BY <2>1, <2>2 DEF TypeInv, TypeOK
  <2> QED BY <2>3, <2>4, <1>a
<1>5. ASSUME Recover
      PROVE  Stands
  <2>1. lock' = lock /\ view' = view /\ run' = run
    BY <1>5 DEF Recover, locks
  <2>2. \A n \in Steps : step'[r][n] = IF step[r][n] = "running" THEN "queued" ELSE step[r][n]
    BY <1>5 DEF Recover
  <2> QED BY <2>1, <2>2 DEF ViewInv, Live
<1>6. ASSUME NEW q \in Runs, NEW m \in Steps, ExpireApply(q, m)
      PROVE  Stands
  <2>1. lock' = lock /\ view' = view /\ q # r
    BY <1>6 DEF ExpireApply, locks
  <2>2. run'[r] = run[r] /\ step'[r] = step[r]
    BY <1>6, <2>1 DEF ExpireApply, Applied, TypeInv, TypeOK
  <2> QED BY <2>1, <2>2, <1>a
<1>7. ASSUME NEW q \in Runs, Prune(q)
      PROVE  Stands
  <2>1. lock' = lock /\ view' = view /\ step' = step
    BY <1>7 DEF Prune, locks
  <2>2. q # r
    BY <1>7, <2>1 DEF Prune, ViewInv, Live, RunEnds
  <2>3. run'[r] = run[r]
    BY <1>7, <2>2 DEF Prune, TypeInv, TypeOK
  <2> QED BY <2>1, <2>3, <1>a
<1>8. ASSUME NEW w \in Workers, NEW q \in Runs, NEW m \in Steps, Claim(w, q, m)
      PROVE  Stands
  <2>1. lock' = lock /\ view' = view
    BY <1>8 DEF Claim, locks
  <2>2. run'[r] \in {run[r], "running"}
    BY <1>8 DEF Claim, TypeInv, TypeOK
  <2>3. \A n \in Steps : \/ step'[r][n] = step[r][n]
                         \/ step[r][n] = "queued" /\ step'[r][n] = "running"
    BY <1>8 DEF Claim, TypeInv, TypeOK
  <2>4. Live(r) /\ view[r].run \in {"queued", "running", "waiting"}
    BY <2>1 DEF ViewInv
  <2>5. Live(r)'
    BY <2>2, <2>4 DEF Live
  <2> QED BY <2>1, <2>3, <2>4, <2>5 DEF ViewInv
<1>9. ASSUME NEW w \in Workers, Save(w)
      PROVE  Stands
  <2>1. lock' = lock /\ view' = view /\ onRun[w] # r
    BY <1>9 DEF Save, locks
  <2>2. run'[r] = run[r] /\ step'[r] = step[r]
    BY <1>9, <2>1 DEF Save, Applied, TypeInv, TypeOK
  <2> QED BY <2>1, <2>2, <1>a
<1>10. ASSUME NEW t \in Threads, AdvanceRead(t)
       PROVE  Stands
  <2>1. run' = run /\ step' = step
    BY <1>10 DEF AdvanceRead, database
  <2>2. CASE onRun[t] = r
    <3>1. view'[r].run = run[r] /\ view'[r].steps = step[r] /\ Live(r)
      BY <1>10, <2>2 DEF AdvanceRead, TypeInv, TypeOK
    <3> QED BY <2>1, <3>1 DEF Live
  <2>3. CASE onRun[t] # r
    <3>1. lock'[r] = lock[r] /\ view'[r] = view[r]
      BY <1>10, <2>3 DEF AdvanceRead, TypeInv, TypeOK
    <3> QED BY <2>1, <3>1, <1>a
  <2> QED BY <2>2, <2>3
<1>11. ASSUME Quiet, ~ \E t \in Threads : AdvanceRead(t), ~ Crash
       PROVE  Stands
  <2>1. lock' = lock /\ view' = view
    BY <1>11 DEF Quiet, PluginTake, PluginRelease, AdvanceNothing, TellEnded, Begin, Orphan,
                 StepEnds, Release, ExpireRead, ExpireDone, Register, Stop, vars, locks
  <2> QED BY <2>1, <1>11, <1>a, QuietRows
<1>12. ASSUME Crash
       PROVE  Stands
  BY <1>12 DEF Crash
<1>13. ASSUME NEW w \in Workers, FailOrphan(w)
       PROVE  Stands
  <2> DEFINE q == onRun[w]
             m == onStep[w]
  <2>1. /\ lock' = lock /\ view' = view /\ run' = run /\ q \in Runs /\ m \in Steps
        /\ pc[w] = "orphan" /\ step' = Applied(q, m, "failed")
    BY <1>13 DEF FailOrphan, locks, TypeInv, WorkInv
  <2>2. step[q][m] \in {"running"} \cup Terminal
    BY <2>1 DEF SingleExecution, Executing
  <2>3. CASE q # r
    BY <2>1, <2>3, <1>a DEF Applied, TypeInv, TypeOK
  <2>4. CASE q = r
    <3>1. \A n \in Steps : step'[r][n] = IF n = m /\ step[r][n] \notin Terminal THEN "failed" ELSE step[r][n]
      BY <2>1, <2>4 DEF Applied, TypeInv, TypeOK
    <3>2. Live(r) /\ view[r].run \in {"queued", "running", "waiting"}
      BY <2>1 DEF ViewInv
    <3>3. \A n \in Steps : \/ view[r].steps[n] = step[r][n]
                           \/ /\ view[r].steps[n] \in {"queued", "running"}
                              /\ step[r][n] \in {"queued", "running", "failed"}
      BY <2>1 DEF ViewInv
    <3>4. ASSUME NEW n \in Steps
          PROVE  \/ view[r].steps[n] = step'[r][n]
                 \/ /\ view[r].steps[n] \in {"queued", "running"}
                    /\ step'[r][n] \in {"queued", "running", "failed"}
      BY <2>2, <2>4, <3>1, <3>3
    <3> QED BY <2>1, <3>2, <3>4 DEF Live
  <2> QED BY <2>3, <2>4
<1> QED
  BY <1>1, <1>2, <1>3, <1>4, <1>5, <1>6, <1>7, <1>8, <1>9, <1>10, <1>11, <1>12, <1>13, NextCases

-----------------------------------------------------------------------------
(* What advance decides *)

\* A run under way stays so, or ends done or failed.
LEMMA RunAfterLive ==
    ASSUME NEW s \in {"queued", "running", "waiting"}, NEW f
    PROVE  /\ RunAfter(s, f) \in {"queued", "running", "waiting", "done", "failed"}
           /\ RunAfter(s, f) = "done" => AllEnded(f)
           /\ RunAfter(s, f) = "failed" /\ AllEnded(f) =>
                 \E n \in Steps : f[n] = "failed" /\ n \notin Continues
           /\ RunAfter(s, f) = "done" => \A n \in Steps : f[n] = "failed" => n \in Continues
           /\ RunAfter(s, f) \in RunEnds /\ ~ AllEnded(f) =>
                 \A n \in Steps : f[n] \notin {"queued", "running", "waiting"}
  BY DEF RunAfter, RunEnds, Active

\* A pipeline has no cycle: among some of its nodes there is one that waits for none of
\* them.  So when nothing can move, nothing is left pending, and the run does not end
\* because it "could not start" (derive).
LEMMA NothingPending ==
    ASSUME NEW st \in [Steps -> StepStatus], NEW f \in NextSteps(st),
           \A n \in Steps : f[n] \notin {"queued", "running", "waiting"}
    PROVE  AllEnded(f)
<1> DEFINE S == {n \in Steps : f[n] = "pending"}
<1>1. /\ f \in [Steps -> StepStatus]
      /\ \A n \in Steps : st[n] # "pending" => f[n] = st[n]
      /\ \A n \in Steps : st[n] = "pending" => f[n] \in Verdicts(f, n)
  BY NextStepsFacts
<1>2. ASSUME S # {} PROVE FALSE
  <2>1. PICK n \in S : After[n] \cap S = {}
    BY <1>2, StepsAssumption
  <2>2. After[n] \subseteq Steps
    BY StepsAssumption
  <2>3. Ready(f, n)
    BY <1>1, <2>1, <2>2 DEF Ready, StepStatus, Terminal
  <2>4. "pending" \in Verdicts(f, n)
    BY <1>1, <2>1
  <2> QED BY <2>3, <2>4 DEF Verdicts
<1> QED BY <1>1, <1>2 DEF AllEnded, StepStatus, Terminal

\* Only pending rows are written by advance, and what a decision rested on still stands
\* when it is written: the rows that a worker claimed meanwhile are not ends.
LEMMA AdvanceDecides ==
    ASSUME TypeInv, LockInv, ViewInv, NEW t \in Threads, AdvanceWrite(t)
    PROVE  /\ onRun[t] \in Runs /\ Live(onRun[t])
           /\ \E f \in [Steps -> StepStatus] :
                /\ \A n \in Steps : step[onRun[t]][n] # "pending" =>
                      /\ step'[onRun[t]][n] = step[onRun[t]][n]
                      /\ f[n] = step[onRun[t]][n] \/ f[n] \in {"queued", "running"}
                /\ \A n \in Steps : step[onRun[t]][n] = "pending" =>
                      /\ f[n] \in Verdicts(f, n)
                      /\ step'[onRun[t]][n] = f[n]
                /\ \A n \in Steps : f[n] \in Terminal => step'[onRun[t]][n] = f[n]
                /\ run'[onRun[t]] \in {"queued", "running", "waiting", "done", "failed"}
                /\ run'[onRun[t]] \in RunEnds <=> AllEnded(f)
                /\ run'[onRun[t]] = "failed" =>
                      \E n \in Steps : f[n] = "failed" /\ n \notin Continues
                /\ run'[onRun[t]] = "done" => \A n \in Steps : f[n] = "failed" => n \in Continues
                /\ run'[onRun[t]] \in RunEnds => Go(t, "ended", onRun[t])
                /\ run'[onRun[t]] \notin RunEnds => Return(t)
<1> DEFINE r == onRun[t]
           v == view[r]
<1>1. r \in Runs /\ pc[t] = "decide"
  BY AdvanceWriteFacts
<1>2. lock[r] = t /\ t # None
  BY <1>1, ThreadsAssumption DEF LockInv
<1>3. /\ Live(r) /\ v.run \in {"queued", "running", "waiting"}
      /\ \A n \in Steps : \/ v.steps[n] = step[r][n]
                          \/ /\ v.steps[n] \in {"queued", "running"}
                             /\ step[r][n] \in {"queued", "running", "failed"}
  BY <1>1, <1>2 DEF ViewInv
<1>4. v.steps \in [Steps -> StepStatus] /\ step[r] \in [Steps -> StepStatus] /\ run[r] \in RunStatus
  BY <1>1 DEF TypeInv, TypeOK
<1>5. PICK f \in NextSteps(v.steps), a \in [Steps -> StepStatus], s \in RunStatus :
        /\ s = RunAfter(v.run, f)
        /\ a = IF s \in RunEnds THEN Closed(f) ELSE f
        /\ \A n \in Steps : step'[r][n] =
              IF a[n] = v.steps[n] \/ step[r][n] \in Terminal THEN step[r][n] ELSE a[n]
        /\ run'[r] = IF s = v.run \/ run[r] \in RunEnds THEN run[r] ELSE s
        /\ s \in RunEnds => Go(t, "ended", r)
        /\ s \notin RunEnds => Return(t)
  BY AdvanceWriteFacts
<1>6. /\ f \in [Steps -> StepStatus]
      /\ \A n \in Steps : v.steps[n] # "pending" => f[n] = v.steps[n]
      /\ \A n \in Steps : v.steps[n] = "pending" => f[n] \in Verdicts(f, n)
  BY <1>4, NextStepsFacts
<1>7. /\ s \in {"queued", "running", "waiting", "done", "failed"}
      /\ s = "done" => AllEnded(f)
      /\ s = "failed" /\ AllEnded(f) => \E n \in Steps : f[n] = "failed" /\ n \notin Continues
      /\ s = "done" => \A n \in Steps : f[n] = "failed" => n \in Continues
      /\ s \in RunEnds /\ ~ AllEnded(f) => \A n \in Steps : f[n] \notin {"queued", "running", "waiting"}
  BY <1>3, <1>5, RunAfterLive
<1>8. s \in RunEnds => AllEnded(f)
  BY <1>4, <1>7, NothingPending
<1>9. AllEnded(f) => s \in RunEnds
  BY <1>5 DEF RunAfter, RunEnds
<1>10. a = f
  <2>1. CASE s \in RunEnds
    BY <2>1, <1>5, <1>6, <1>8 DEF AllEnded, Closed
  <2> QED BY <2>1, <1>5
<1>11. run[r] \notin RunEnds
  BY <1>3 DEF Live, RunEnds
<1>12. run'[r] \in {"queued", "running", "waiting", "done", "failed"} /\ (run'[r] \in RunEnds <=> s \in RunEnds)
       /\ (s \in RunEnds => run'[r] = s)
  BY <1>3, <1>5, <1>7, <1>11 DEF Live, RunEnds
<1>13. \A n \in Steps : step[r][n] # "pending" =>
          step'[r][n] = step[r][n] /\ (f[n] = step[r][n] \/ f[n] \in {"queued", "running"})
  BY <1>3, <1>5, <1>6, <1>10
<1>14. \A n \in Steps : step[r][n] = "pending" => f[n] \in Verdicts(f, n) /\ step'[r][n] = f[n]
  BY <1>3, <1>5, <1>6, <1>10 DEF Terminal
<1>15. \A n \in Steps : f[n] \in Terminal => step'[r][n] = f[n]
  BY <1>3, <1>13, <1>14 DEF Terminal
<1>16. run'[r] = "failed" => \E n \in Steps : f[n] = "failed" /\ n \notin Continues
  BY <1>7, <1>8, <1>12 DEF RunEnds
<1>17. run'[r] = "done" => \A n \in Steps : f[n] = "failed" => n \in Continues
  BY <1>7, <1>12 DEF RunEnds
<1> HIDE DEF r, v
<1> QED
  BY <1>1, <1>3, <1>5, <1>6, <1>8, <1>9, <1>12, <1>13, <1>14, <1>15, <1>16, <1>17 DEF r

-----------------------------------------------------------------------------
(* A step never runs twice at once *)

\* A worker that holds a step after a move held it before, or just claimed it.
LEMMA ExecutingBefore ==
    ASSUME TypeInv, NEW w \in Workers, NEW t \in Threads, NEW p, NEW q, Go(t, p, q),
           p \notin {"claimed", "exec", "save", "orphan"}, Executing(w)'
    PROVE  w # t /\ Executing(w) /\ onRun'[w] = onRun[w]
  BY DEF TypeInv, TypeOK, Go, Executing, Threads

\* Rows written only where they were neither running nor ended keep SingleExecution, as
\* long as the workers hold no more steps than before.
LEMMA ExecutionKept ==
    ASSUME TypeInv, SingleExecution, onStep' = onStep,
           \A w \in Workers : Executing(w)' => Executing(w) /\ onRun'[w] = onRun[w],
           \A r \in Runs, n \in Steps :
              step[r][n] \in {"running"} \cup Terminal => step'[r][n] \in {"running"} \cup Terminal
    PROVE  SingleExecution'
<1>1. \A w \in Workers : Executing(w) => onRun[w] \in Runs /\ onStep[w] \in Steps
  BY DEF TypeInv, WorkInv, Executing
<1> QED BY <1>1 DEF SingleExecution

LEMMA ExecutionStep ==
    TypeInv /\ LockInv /\ ViewInv /\ SingleExecution /\ [Next]_vars => SingleExecution'
<1> SUFFICES ASSUME TypeInv, LockInv, ViewInv, SingleExecution, [Next]_vars
             PROVE  SingleExecution'
  OBVIOUS
<1> USE ThreadsAssumption
<1>1. ASSUME NEW c \in Callers, NEW r \in Runs, Submit(c, r) \/ Cancel(c, r)
      PROVE  SingleExecution'
  <2>1. /\ onStep' = onStep
        /\ Go(c, "advance", r) \/ Go(c, "ended", r)
    BY <1>1 DEF Submit, Cancel
  <2>2. \A q \in Runs, n \in Steps : step'[q][n] \in {step[q][n]} \cup Terminal
    <3>1. CASE Submit(c, r)
      BY <3>1 DEF Submit
    <3>2. CASE Cancel(c, r)
      <4>1. \A n \in Steps : Closed(step[r])[n] \in {step[r][n]} \cup Terminal
        BY DEF Closed, Terminal
      <4>2. step' = [step EXCEPT ![r] = Closed(step[r])]
        BY <3>2 DEF Cancel
      <4> QED BY <4>1, <4>2 DEF TypeInv, TypeOK
    <3> QED BY <3>1, <3>2, <1>1
  <2>3. \A w \in Workers : Executing(w)' => Executing(w) /\ onRun'[w] = onRun[w]
    BY <2>1, ExecutingBefore DEF Threads
  <2> QED BY <2>1, <2>2, <2>3, ExecutionKept
<1>2. ASSUME NEW c \in Callers, NEW r \in Runs, NEW n \in Steps, NEW s \in {"done", "failed"},
             EndWait(c, r, n, s) \/ RunAgain(c, r, n)
      PROVE  SingleExecution'
  <2>1. /\ onStep' = onStep
        /\ Go(c, "advance", r)
        /\ step[r][n] = "waiting"
    BY <1>2 DEF EndWait, RunAgain
  <2>2. \A q \in Runs, m \in Steps : step'[q][m] = step[q][m] \/ (q = r /\ m = n)
    BY <1>2 DEF EndWait, RunAgain, Applied, TypeInv, TypeOK
  <2>3. \A w \in Workers : Executing(w)' => Executing(w) /\ onRun'[w] = onRun[w]
    BY <2>1, ExecutingBefore DEF Threads
  <2> QED BY <2>1, <2>2, <2>3, ExecutionKept DEF Terminal
<1>4. ASSUME NEW t \in Threads, AdvanceWrite(t)
      PROVE  SingleExecution'
  <2>1. onStep' = onStep /\ pc[t] = "decide" /\ onRun[t] \in Runs
    BY <1>4, AdvanceWriteFacts DEF AdvanceWrite
  <2>2. \A q \in Runs, n \in Steps : step[q][n] # "pending" => step'[q][n] = step[q][n]
    BY <1>4, AdvanceDecides, AdvanceWriteFacts
  <2>3. \A w \in Workers : Executing(w)' => Executing(w) /\ onRun'[w] = onRun[w]
    <3>1. Go(t, "ended", onRun[t]) \/ Return(t)
      BY <1>4, AdvanceWriteFacts
    <3>2. CASE Go(t, "ended", onRun[t])
      BY <3>2, ExecutingBefore
    <3>3. CASE Return(t)
      BY <3>3, ExecutingBefore DEF Return
    <3> QED BY <3>1, <3>2, <3>3
  <2> QED BY <2>1, <2>2, <2>3, ExecutionKept DEF Terminal
<1>5. ASSUME Recover
      PROVE  SingleExecution'
  BY <1>5 DEF Recover, SingleExecution, Executing, threads, TypeInv, WorkInv
<1>6. ASSUME NEW r \in Runs, NEW n \in Steps, ExpireApply(r, n)
      PROVE  SingleExecution'
  <2>1. onStep' = onStep /\ Go(Loop, "advance", r)
    BY <1>6 DEF ExpireApply
  <2>2. \A q \in Runs, m \in Steps : step'[q][m] \in {step[q][m]} \cup Terminal
    BY <1>6 DEF ExpireApply, Applied, TypeInv, TypeOK, Terminal
  <2>3. \A w \in Workers : Executing(w)' => Executing(w) /\ onRun'[w] = onRun[w]
    BY <2>1, ExecutingBefore DEF Threads
  <2> QED BY <2>1, <2>2, <2>3, ExecutionKept
<1>7. ASSUME NEW r \in Runs, Prune(r)
      PROVE  SingleExecution'
  BY <1>7 DEF Prune, SingleExecution, Executing, threads
<1>8. ASSUME NEW w \in Workers, NEW r \in Runs, NEW n \in Steps, Claim(w, r, n)
      PROVE  SingleExecution'
  <2>1. /\ step[r][n] = "queued" /\ step'[r][n] = "running" /\ pc[w] = "idle"
        /\ \A q \in Runs, m \in Steps : step'[q][m] = step[q][m] \/ (q = r /\ m = n)
    BY <1>8 DEF Claim, TypeInv, TypeOK
  <2>2. /\ onRun'[w] = r /\ onStep'[w] = n
        /\ \A v \in Workers \ {w} : /\ Executing(v)' = Executing(v)
                                    /\ onRun'[v] = onRun[v] /\ onStep'[v] = onStep[v]
    BY <1>8 DEF Claim, Go, Executing, TypeInv, TypeOK, Threads
  <2>3. \A v \in Workers : Executing(v) =>
           onRun[v] \in Runs /\ onStep[v] \in Steps /\ <<onRun[v], onStep[v]>> # <<r, n>>
    BY <2>1 DEF SingleExecution, TypeInv, WorkInv, Executing, Terminal
  <2>4. ASSUME NEW v \in Workers, Executing(v)'
        PROVE  step'[onRun'[v]][onStep'[v]] \in {"running"} \cup Terminal
    BY <2>1, <2>2, <2>3, <2>4 DEF SingleExecution
  <2>5. ASSUME NEW v \in Workers, NEW u \in Workers \ {v}, Executing(v)', Executing(u)'
        PROVE  <<onRun'[u], onStep'[u]>> # <<onRun'[v], onStep'[v]>>
    <3>1. CASE v = w
      BY <3>1, <2>2, <2>3, <2>5
    <3>2. CASE u = w
      BY <3>2, <2>2, <2>3, <2>5
    <3>3. CASE v # w /\ u # w
      BY <3>3, <2>2, <2>5 DEF SingleExecution
    <3> QED BY <3>1, <3>2, <3>3
  <2> QED BY <2>4, <2>5 DEF SingleExecution
<1>9. ASSUME NEW w \in Workers, Save(w) \/ FailOrphan(w)
      PROVE  SingleExecution'
  <2>1. /\ onStep' = onStep /\ Go(w, "advance", onRun[w]) /\ pc[w] \in {"save", "orphan"}
        /\ onRun[w] \in Runs /\ onStep[w] \in Steps
    BY <1>9 DEF Save, FailOrphan, TypeInv, WorkInv
  <2>2. \A q \in Runs, m \in Steps : step'[q][m] = step[q][m] \/ (q = onRun[w] /\ m = onStep[w])
    BY <1>9, <2>1 DEF Save, FailOrphan, Applied, TypeInv, TypeOK
  <2>3. \A v \in Workers : Executing(v)' => v # w /\ Executing(v) /\ onRun'[v] = onRun[v]
    BY <2>1, ExecutingBefore DEF Threads
  <2>4. \A v \in Workers : Executing(v)' =>
           onRun[v] \in Runs /\ onStep[v] \in Steps /\ <<onRun[v], onStep[v]>> # <<onRun[w], onStep[w]>>
    BY <2>1, <2>3 DEF SingleExecution, TypeInv, WorkInv, Executing
  <2> QED BY <2>1, <2>2, <2>3, <2>4 DEF SingleExecution
<1>10. ASSUME NEW c \in Callers, PluginTake(c) \/ PluginRelease(c)
       PROVE  SingleExecution'
  <2>1. onStep' = onStep /\ step' = step /\ (Go(c, "plugin", None) \/ Go(c, "idle", None))
    BY <1>10 DEF PluginTake, PluginRelease, database
  <2>2. \A w \in Workers : Executing(w)' => Executing(w) /\ onRun'[w] = onRun[w]
    BY <2>1, ExecutingBefore DEF Threads
  <2> QED BY <2>1, <2>2, ExecutionKept
<1>11. ASSUME NEW t \in Threads, AdvanceNothing(t) \/ AdvanceRead(t) \/ TellEnded(t)
       PROVE  SingleExecution'
  <2>1. onStep' = onStep /\ step' = step /\ (Go(t, "decide", onRun[t]) \/ Return(t))
    BY <1>11 DEF AdvanceNothing, AdvanceRead, TellEnded, database
  <2>2. \A w \in Workers : Executing(w)' => Executing(w) /\ onRun'[w] = onRun[w]
    <3>1. CASE Go(t, "decide", onRun[t])
      BY <3>1, ExecutingBefore
    <3>2. CASE Return(t)
      BY <3>2, ExecutingBefore DEF Return
    <3> QED BY <3>1, <3>2, <2>1
  <2> QED BY <2>1, <2>2, ExecutionKept
<1>12. ASSUME NEW w \in Workers, Begin(w) \/ Orphan(w) \/ StepEnds(w)
       PROVE  SingleExecution'
  <2>1. onStep' = onStep /\ step' = step /\ Executing(w)
    BY <1>12 DEF Begin, Orphan, StepEnds, database, Executing
  <2>2. Go(w, "exec", onRun[w]) \/ Go(w, "orphan", onRun[w]) \/ Go(w, "release", onRun[w]) \/ Go(w, "save", onRun[w])
    BY <1>12 DEF Begin, Orphan, StepEnds
  <2>3. \A v \in Workers : Executing(v)' => Executing(v) /\ onRun'[v] = onRun[v]
    BY <2>1, <2>2 DEF Go, Executing, TypeInv, TypeOK, Threads
  <2> QED BY <2>1, <2>3, ExecutionKept
<1>13. ASSUME NEW w \in Workers, Release(w)
       PROVE  SingleExecution'
  <2>1. step' = step /\ Go(w, "idle", None) /\ onStep' = [onStep EXCEPT ![w] = None]
    BY <1>13 DEF Release, database
  <2>2. \A v \in Workers : Executing(v)' =>
           Executing(v) /\ onRun'[v] = onRun[v] /\ onStep'[v] = onStep[v]
    BY <2>1, ExecutingBefore DEF Threads, TypeInv, TypeOK
  <2> QED BY <2>1, <2>2 DEF SingleExecution
<1>14. ASSUME ExpireRead \/ ExpireDone
       PROVE  SingleExecution'
  <2>1. onStep' = onStep /\ step' = step /\ (Go(Loop, "expire", None) \/ Go(Loop, "idle", None))
    BY <1>14 DEF ExpireRead, ExpireDone, database
  <2>2. \A w \in Workers : Executing(w)' => Executing(w) /\ onRun'[w] = onRun[w]
    BY <2>1, ExecutingBefore DEF Threads
  <2> QED BY <2>1, <2>2, ExecutionKept
<1>15. ASSUME Register \/ Stop \/ Crash \/ UNCHANGED vars
       PROVE  SingleExecution'
  BY <1>15 DEF Register, Stop, Crash, vars, database, threads, SingleExecution, Executing, Threads
<1> QED
  BY <1>1, <1>2, <1>4, <1>5, <1>6, <1>7, <1>8, <1>9, <1>10, <1>11, <1>12, <1>13, <1>14, <1>15,
     NextCases
     DEF Quiet

\* The threads and the locks of a run stand as the proofs say.
ThreadsInv == TypeInv /\ LockInv /\ ViewInv

LEMMA ThreadsInit == Init => ThreadsInv /\ SingleExecution
  BY TypeInit, ThreadsAssumption
     DEF Init, ThreadsInv, LockInv, ViewInv, SingleExecution, Executing, Threads

LEMMA ThreadsStep == ThreadsInv /\ SingleExecution /\ [Next]_vars => ThreadsInv'
  BY TypeStep, LockStep, ViewStep DEF ThreadsInv

\* SingleExecution: no step is ever held by two workers, and none that a worker holds can
\* be claimed again, whatever is called, expires or crashes meanwhile.
THEOREM StepsRunOnce == Spec => []SingleExecution
<1>1. ThreadsInv /\ SingleExecution /\ [Next]_vars => SingleExecution'
  BY ExecutionStep DEF ThreadsInv
<1> QED
  BY <1>1, ThreadsInit, ThreadsStep, PTL DEF Spec

-----------------------------------------------------------------------------
(* How the rows of a run move *)

Open == {"queued", "running", "waiting"}

\* The waits that the loop is about to end were decided.
ExpiredInv == \A r \in Runs, n \in Steps : <<r, n>> \in expired => step[r][n] # "pending"

Unmoved(r)   == run'[r] = run[r] /\ step'[r] = step[r]
Submitted(r) == run[r] = "absent" /\ run'[r] = "queued" /\ step'[r] = step[r]
Pruned(r)    == run[r] \in RunEnds /\ run'[r] = "pruned" /\ step'[r] = step[r]

Canceled(r) ==
    /\ Live(r) /\ run'[r] = "canceled"
    /\ \A n \in Steps : step'[r][n] = IF step[r][n] \in Terminal THEN step[r][n] ELSE "canceled"

\* The steps a previous process left running are queued again.
Reopened(r) ==
    /\ run'[r] = run[r]
    /\ \A n \in Steps : \/ step'[r][n] = step[r][n]
                        \/ step[r][n] \in Open /\ step'[r][n] \in Open

\* One open step moves: it is claimed, queued again, put to wait, or ended.
Moved(r) ==
    /\ run'[r] = run[r] \/ (run[r] \in Open /\ run'[r] = "running")
    /\ \E m \in Steps :
         /\ \A n \in Steps \ {m} : step'[r][n] = step[r][n]
         /\ \/ step'[r][m] = step[r][m]
            \/ step[r][m] \in Open /\ step'[r][m] \in Open \cup {"done", "failed"}

\* advance gives the pending steps what it decided, f, and the run its end.
DecidedBy(r, f) ==
    /\ \A n \in Steps : step[r][n] # "pending" =>
          step'[r][n] = step[r][n] /\ (f[n] = step[r][n] \/ f[n] \in {"queued", "running"})
    /\ \A n \in Steps : step[r][n] = "pending" => f[n] \in Verdicts(f, n) /\ step'[r][n] = f[n]
    /\ \A n \in Steps : f[n] \in Terminal => step'[r][n] = f[n]
    /\ run'[r] \in {"queued", "running", "waiting", "done", "failed"}
    /\ run'[r] \in RunEnds <=> AllEnded(f)
    /\ run'[r] = "failed" => \E n \in Steps : f[n] = "failed" /\ n \notin Continues
    /\ run'[r] = "done" => \A n \in Steps : f[n] = "failed" => n \in Continues

Advanced(r) == Live(r) /\ \E f \in [Steps -> StepStatus] : DecidedBy(r, f)

\* Every step of the system moves the rows of one run at most, in one of these ways, or
\* takes back what a previous process left running.
LEMMA RowMoves ==
    ASSUME ThreadsInv, SingleExecution, ExpiredInv, [Next]_vars
    PROVE  \/ \A r \in Runs : Reopened(r)
           \/ \E r \in Runs :
                /\ \A q \in Runs \ {r} : Unmoved(q)
                /\ Submitted(r) \/ Pruned(r) \/ Canceled(r) \/ Moved(r) \/ Advanced(r)
<1> DEFINE OneMoves == \E r \in Runs :
                /\ \A q \in Runs \ {r} : Unmoved(q)
                /\ Submitted(r) \/ Pruned(r) \/ Canceled(r) \/ Moved(r) \/ Advanced(r)
<1> SUFFICES ASSUME ~ \A r \in Runs : Reopened(r) PROVE OneMoves
  OBVIOUS
<1> USE DEF ThreadsInv
<1>1. ASSUME NEW c \in Callers, NEW r \in Runs, Submit(c, r)
      PROVE  OneMoves
  BY <1>1 DEF Submit, Submitted, Unmoved, TypeInv, TypeOK
<1>2. ASSUME NEW c \in Callers, NEW r \in Runs, Cancel(c, r)
      PROVE  OneMoves
  <2>1. /\ Live(r) /\ run' = [run EXCEPT ![r] = "canceled"]
        /\ step' = [step EXCEPT ![r] = Closed(step[r])]
    BY <1>2 DEF Cancel
  <2>2. \A q \in Runs \ {r} : Unmoved(q)
    BY <2>1 DEF Unmoved, TypeInv, TypeOK
  <2>3. run'[r] = "canceled" /\ step'[r] = Closed(step[r])
    BY <2>1 DEF TypeInv, TypeOK
  <2>4. Canceled(r)
    BY <2>1, <2>3 DEF Canceled, Closed
  <2> QED BY <2>2, <2>4
<1>3. ASSUME NEW c \in Callers, NEW r \in Runs, NEW n \in Steps, NEW s \in {"done", "failed"},
             EndWait(c, r, n, s) \/ RunAgain(c, r, n)
      PROVE  OneMoves
  <2>1. /\ run' = run /\ step[r][n] = "waiting"
        /\ \A q \in Runs \ {r} : step'[q] = step[q]
        /\ \A m \in Steps \ {n} : step'[r][m] = step[r][m]
        /\ step'[r][n] \in Open \cup {"done", "failed"}
    BY <1>3 DEF EndWait, RunAgain, Applied, TypeInv, TypeOK, Open, Terminal
  <2> QED BY <2>1 DEF Unmoved, Moved, Open
<1>4. ASSUME NEW t \in Threads, AdvanceWrite(t)
      PROVE  OneMoves
  <2>1. onRun[t] \in Runs /\ \A q \in Runs \ {onRun[t]} : Unmoved(q)
    BY <1>4, AdvanceWriteFacts DEF Unmoved
  <2>2. Advanced(onRun[t])
    BY <1>4, AdvanceDecides DEF Advanced, DecidedBy
  <2> QED BY <2>1, <2>2
<1>5. ASSUME Recover
      PROVE  OneMoves
  BY <1>5 DEF Recover, Reopened, Open
<1>6. ASSUME NEW r \in Runs, NEW n \in Steps, ExpireApply(r, n)
      PROVE  OneMoves
  <2>1. step[r][n] \in Open \cup Terminal
    BY <1>6 DEF ExpireApply, ExpiredInv, TypeInv, TypeOK, StepStatus, Open, Terminal
  <2>2. /\ run' = run
        /\ \A q \in Runs \ {r} : step'[q] = step[q]
        /\ \A m \in Steps \ {n} : step'[r][m] = step[r][m]
        /\ step'[r][n] = IF step[r][n] \in Terminal THEN step[r][n] ELSE "failed"
    BY <1>6 DEF ExpireApply, Applied, TypeInv, TypeOK
  <2> QED BY <2>1, <2>2 DEF Unmoved, Moved
<1>7. ASSUME NEW r \in Runs, Prune(r)
      PROVE  OneMoves
  BY <1>7 DEF Prune, Pruned, Unmoved, TypeInv, TypeOK
<1>8. ASSUME NEW w \in Workers, NEW r \in Runs, NEW n \in Steps, Claim(w, r, n)
      PROVE  OneMoves
  <2>1. /\ step[r][n] = "queued" /\ step'[r][n] = "running"
        /\ \A q \in Runs \ {r} : step'[q] = step[q] /\ run'[q] = run[q]
        /\ \A m \in Steps \ {n} : step'[r][m] = step[r][m]
        /\ run'[r] = IF run[r] \in {"queued", "waiting"} THEN "running" ELSE run[r]
    BY <1>8 DEF Claim, TypeInv, TypeOK
  <2> QED BY <2>1 DEF Unmoved, Moved, Open
<1>9. ASSUME NEW w \in Workers, Save(w) \/ FailOrphan(w)
      PROVE  OneMoves
  <2> DEFINE r == onRun[w]
             n == onStep[w]
  <2>1. /\ pc[w] \in {"save", "orphan"} /\ r \in Runs /\ n \in Steps
        /\ pc[w] = "save" => outcome[w] \in {"done", "failed", "queued", "waiting"}
    BY <1>9 DEF Save, FailOrphan, TypeInv, TypeOK, WorkInv
  <2>2. step[r][n] \in {"running"} \cup Terminal
    BY <2>1 DEF SingleExecution, Executing
  <2>3. /\ run' = run
        /\ \A q \in Runs \ {r} : step'[q] = step[q]
        /\ \A m \in Steps \ {n} : step'[r][m] = step[r][m]
        /\ \/ step'[r][n] = step[r][n] /\ step[r][n] \in Terminal
           \/ step[r][n] \notin Terminal /\ step'[r][n] \in {"done", "failed", "queued", "waiting"}
    BY <1>9, <2>1 DEF Save, FailOrphan, Applied, TypeInv, TypeOK
  <2> QED BY <2>1, <2>2, <2>3 DEF Unmoved, Moved, Open
<1>10. CASE Quiet
  BY <1>10, QuietRows DEF Reopened
<1>11. ASSUME NEW c \in Callers, NEW r \in Runs, NEW n \in Steps, RunAgain(c, r, n)
       PROVE  OneMoves
  BY <1>11, <1>3
<1> HIDE DEF OneMoves
<1> QED
  BY <1>1, <1>2, <1>3, <1>4, <1>5, <1>6, <1>7, <1>8, <1>9, <1>10, <1>11, NextCases

\* No row of a step becomes pending again.
LEMMA NeverPendingAgain ==
    ASSUME ThreadsInv, SingleExecution, ExpiredInv, [Next]_vars,
           NEW r \in Runs, NEW n \in Steps, step[r][n] # "pending"
    PROVE  step'[r][n] # "pending"
<1>1. CASE \A q \in Runs : Reopened(q)
  BY <1>1 DEF Reopened, Open
<1>2. ASSUME NEW q \in Runs,
             \A p \in Runs \ {q} : Unmoved(p),
             Submitted(q) \/ Pruned(q) \/ Canceled(q) \/ Moved(q) \/ Advanced(q)
      PROVE  step'[r][n] # "pending"
  <2>1. CASE q # r
    BY <2>1, <1>2 DEF Unmoved
  <2>2. CASE q = r
    BY <2>2, <1>2 DEF Submitted, Pruned, Canceled, Moved, Advanced, DecidedBy, Open
  <2> QED BY <2>1, <2>2
<1> QED BY <1>1, <1>2, RowMoves

LEMMA ExpiredStep == ThreadsInv /\ SingleExecution /\ ExpiredInv /\ [Next]_vars => ExpiredInv'
<1> SUFFICES ASSUME ThreadsInv, SingleExecution, ExpiredInv, [Next]_vars,
                    NEW r \in Runs, NEW n \in Steps, <<r, n>> \in expired'
             PROVE  step'[r][n] # "pending"
  BY DEF ExpiredInv
<1>1. expired' \subseteq expired \cup Waits
  <2>1. CASE ExpireRead \/ Crash \/ \E q \in Runs, m \in Steps : ExpireApply(q, m)
    BY <2>1 DEF ExpireRead, Crash, ExpireApply
  <2>2. CASE ~ (ExpireRead \/ Crash \/ \E q \in Runs, m \in Steps : ExpireApply(q, m))
    <3>1. CASE Quiet
      BY <3>1, <2>2 DEF Quiet, PluginTake, PluginRelease, AdvanceNothing, AdvanceRead, TellEnded,
                        Begin, Orphan, StepEnds, Release, ExpireDone, Register, Stop, vars
    <3>2. CASE ~ Quiet
      BY <3>2, <2>2, NextCases
         DEF Submit, Cancel, EndWait, RunAgain, AdvanceWrite, Recover, Prune, Claim, Save, FailOrphan
    <3> QED BY <3>1, <3>2
  <2> QED BY <2>1, <2>2
<1>2. step[r][n] # "pending"
  BY <1>1 DEF ExpiredInv, Waits
<1> QED BY <1>2, NeverPendingAgain

-----------------------------------------------------------------------------
(* What the rows of a run say *)

\* Rows of a run that was not submitted were not decided; a step of a run under way is
\* canceled only for one before it that ended badly.
RowsInv ==
    /\ DependenciesHold
    /\ EndedRunsAreClosed
    /\ EndsForItsSteps
    /\ \A r \in Runs : run[r] = "absent" => \A n \in Steps : step[r][n] = "pending"
    /\ \A r \in Runs : Live(r) => \A n \in Steps : step[r][n] = "canceled" => Blocked(step[r], n)

\* A node that goes on went on for ends, and ends do not change: what holds of a node
\* holds after any move of the others that keeps the ends.
LEMMA DependenciesStay ==
    ASSUME NEW st, NEW su, NEW n \in Steps, \A d \in Steps : st[d] \in Terminal => su[d] = st[d]
    PROVE  /\ Ready(st, n) => Ready(su, n)
           /\ Ready(st, n) /\ ~ Blocked(st, n) => ~ Blocked(su, n)
           /\ Blocked(st, n) => Blocked(su, n)
<1>1. After[n] \subseteq Steps
  BY StepsAssumption
<1> QED BY <1>1 DEF Ready, Blocked, EndedBadly, Terminal

\* Nothing is canceled for nothing: behind every canceled node of a run that ended by
\* itself there is one that failed.
LEMMA CanceledForAFailure ==
    ASSUME NEW f, \A n \in Steps : f[n] = "canceled" => Blocked(f, n),
           \A n \in Steps : f[n] = "failed" => n \in Continues
    PROVE  \A n \in Steps : ~ EndedBadly(f, n)
<1> DEFINE S == {n \in Steps : f[n] = "canceled"}
<1>1. ASSUME S # {} PROVE FALSE
  <2>1. PICK n \in S : After[n] \cap S = {}
    BY <1>1, StepsAssumption
  <2>2. PICK d \in After[n] : EndedBadly(f, d)
    BY <2>1 DEF Blocked
  <2>3. d \in Steps /\ d \notin S
    BY <2>1, <2>2, StepsAssumption
  <2> QED BY <2>2, <2>3 DEF EndedBadly
<1> QED BY <1>1 DEF EndedBadly

LEMMA RowsStep ==
    ThreadsInv /\ SingleExecution /\ ExpiredInv /\ RowsInv /\ [Next]_vars => RowsInv'
<1> SUFFICES ASSUME ThreadsInv, SingleExecution, ExpiredInv, RowsInv, [Next]_vars
             PROVE  RowsInv'
  OBVIOUS
<1> DEFINE RowsOf(r) ==
      /\ \A n \in Steps : step'[r][n] \in {"queued", "running", "waiting", "done"} =>
            Ready(step'[r], n) /\ ~ Blocked(step'[r], n)
      /\ run'[r] \in RunEnds \cup {"pruned"} => AllEnded(step'[r])
      /\ run'[r] = "done" => \A n \in Steps : ~ EndedBadly(step'[r], n)
      /\ run'[r] = "failed" => \E n \in Steps : step'[r][n] = "failed" /\ n \notin Continues
      /\ run'[r] = "absent" => \A n \in Steps : step'[r][n] = "pending"
      /\ run'[r] \in Open => \A n \in Steps : step'[r][n] = "canceled" => Blocked(step'[r], n)
<1>1. \A r \in Runs, n \in Steps : step[r][n] \in Terminal => step'[r][n] = step[r][n]
  BY EndsKept DEF ThreadsInv
<1>2. \A r \in Runs : /\ step[r] \in [Steps -> StepStatus] /\ run[r] \in RunStatus
                      /\ step'[r] \in [Steps -> StepStatus]
  BY TypeStep DEF ThreadsInv, TypeInv, TypeOK
<1>3. ASSUME NEW r \in Runs, Reopened(r) \/ Submitted(r) \/ Pruned(r) \/ Moved(r)
      PROVE  RowsOf(r)
  <2>1. \A n \in Steps : \/ step'[r][n] = step[r][n]
                         \/ step[r][n] \in Open /\ step'[r][n] \in Open \cup {"done", "failed"}
    BY <1>3 DEF Reopened, Submitted, Pruned, Moved
  <2>2. \/ run'[r] = run[r]
        \/ run[r] = "absent" /\ run'[r] = "queued"
        \/ run[r] \in RunEnds /\ run'[r] = "pruned"
        \/ run[r] \in Open /\ run'[r] = "running"
    BY <1>3 DEF Reopened, Submitted, Pruned, Moved
  <2>3. \A n \in Steps : step'[r][n] \in {"queued", "running", "waiting", "done"} =>
            Ready(step'[r], n) /\ ~ Blocked(step'[r], n)
    <3> SUFFICES ASSUME NEW n \in Steps, step'[r][n] \in {"queued", "running", "waiting", "done"}
                 PROVE  Ready(step'[r], n) /\ ~ Blocked(step'[r], n)
      OBVIOUS
    <3>1. step[r][n] \in {"queued", "running", "waiting", "done"}
      BY <2>1 DEF Open
    <3>2. Ready(step[r], n) /\ ~ Blocked(step[r], n)
      BY <3>1 DEF RowsInv, DependenciesHold
    <3> QED BY <3>2, <1>1, DependenciesStay
  <2>4. run[r] \in RunEnds \cup {"pruned"} => step'[r] = step[r]
    <3> SUFFICES ASSUME run[r] \in RunEnds \cup {"pruned"} PROVE step'[r] = step[r]
      OBVIOUS
    <3>1. \A n \in Steps : step'[r][n] = step[r][n]
      BY <1>1 DEF RowsInv, EndedRunsAreClosed, AllEnded
    <3> QED BY <3>1, <1>2
  <2>5. run[r] = "absent" => step'[r] = step[r]
    <3> SUFFICES ASSUME run[r] = "absent" PROVE step'[r] = step[r]
      OBVIOUS
    <3>1. \A n \in Steps : step'[r][n] = step[r][n]
      BY <2>1 DEF RowsInv, Open
    <3> QED BY <3>1, <1>2
  <2>6. run'[r] \in RunEnds \cup {"pruned"} => run[r] \in RunEnds \cup {"pruned"}
    BY <2>2 DEF RunEnds
  <2>7. run'[r] \in RunEnds \cup {"pruned"} => AllEnded(step'[r])
    BY <2>4, <2>6 DEF RowsInv, EndedRunsAreClosed
  <2>8. /\ run'[r] = "done" => \A n \in Steps : ~ EndedBadly(step'[r], n)
        /\ run'[r] = "failed" => \E n \in Steps : step'[r][n] = "failed" /\ n \notin Continues
    BY <2>2, <2>4 DEF RowsInv, EndsForItsSteps, RunEnds
  <2>9. run'[r] = "absent" => \A n \in Steps : step'[r][n] = "pending"
    BY <2>2, <2>5 DEF RowsInv
  <2>10. run'[r] \in Open => \A n \in Steps : step'[r][n] = "canceled" => Blocked(step'[r], n)
    <3> SUFFICES ASSUME run'[r] \in Open, NEW n \in Steps, step'[r][n] = "canceled"
                 PROVE  Blocked(step'[r], n)
      OBVIOUS
    <3>1. step[r][n] = "canceled"
      BY <2>1 DEF Open
    <3>2. Live(r)
      BY <2>2, <3>1, <1>2 DEF RowsInv, Live, Open, RunEnds
    <3>3. Blocked(step[r], n)
      BY <3>1, <3>2 DEF RowsInv
    <3> QED BY <3>3, <1>1, DependenciesStay
  <2> QED BY <2>3, <2>7, <2>8, <2>9, <2>10
<1>4. ASSUME NEW r \in Runs, Canceled(r)
      PROVE  RowsOf(r)
  <2>1. \A n \in Steps : step'[r][n] \in {"queued", "running", "waiting", "done"} =>
            Ready(step'[r], n) /\ ~ Blocked(step'[r], n)
    <3> SUFFICES ASSUME NEW n \in Steps, step'[r][n] \in {"queued", "running", "waiting", "done"}
                 PROVE  Ready(step'[r], n) /\ ~ Blocked(step'[r], n)
      OBVIOUS
    <3>1. step[r][n] = "done"
      BY <1>4 DEF Canceled, Terminal
    <3>2. Ready(step[r], n) /\ ~ Blocked(step[r], n)
      BY <3>1 DEF RowsInv, DependenciesHold
    <3> QED BY <3>2, <1>1, DependenciesStay
  <2>2. AllEnded(step'[r]) /\ run'[r] = "canceled"
    BY <1>4 DEF Canceled, AllEnded, Terminal
  <2> QED BY <2>1, <2>2 DEF Open
<1>5. ASSUME NEW r \in Runs, Advanced(r)
      PROVE  RowsOf(r)
  <2>1. PICK f \in [Steps -> StepStatus] : DecidedBy(r, f)
    BY <1>5 DEF Advanced
  <2>2. Live(r)
    BY <1>5 DEF Advanced
  <2>3. \A n \in Steps : step'[r][n] \in {"queued", "running", "waiting", "done"} =>
            Ready(step'[r], n) /\ ~ Blocked(step'[r], n)
    <3> SUFFICES ASSUME NEW n \in Steps, step'[r][n] \in {"queued", "running", "waiting", "done"}
                 PROVE  Ready(step'[r], n) /\ ~ Blocked(step'[r], n)
      OBVIOUS
    <3>1. CASE step[r][n] = "pending"
      <4>1. f[n] \in Verdicts(f, n) /\ f[n] \in {"queued", "running", "waiting", "done"}
        BY <3>1, <2>1 DEF DecidedBy
      <4>2. Ready(f, n) /\ ~ Blocked(f, n)
        BY <4>1 DEF Verdicts
      <4>3. \A d \in Steps : f[d] \in Terminal => step'[r][d] = f[d]
        BY <2>1 DEF DecidedBy
      <4> QED BY <4>2, <4>3, DependenciesStay
    <3>2. CASE step[r][n] # "pending"
      <4>1. step'[r][n] = step[r][n]
        BY <3>2, <2>1 DEF DecidedBy
      <4>2. Ready(step[r], n) /\ ~ Blocked(step[r], n)
        BY <4>1 DEF RowsInv, DependenciesHold
      <4> QED BY <4>2, <1>1, DependenciesStay
    <3> QED BY <3>1, <3>2
  <2>4. AllEnded(f) => \A n \in Steps : step'[r][n] = f[n]
    BY <2>1 DEF DecidedBy, AllEnded
  <2>5. run'[r] \in RunEnds \cup {"pruned"} => AllEnded(step'[r])
    BY <2>1, <2>4 DEF DecidedBy, RunEnds, AllEnded
  <2>6. \A n \in Steps : step'[r][n] = "canceled" => Blocked(step'[r], n)
    <3> SUFFICES ASSUME NEW n \in Steps, step'[r][n] = "canceled" PROVE Blocked(step'[r], n)
      OBVIOUS
    <3>1. CASE step[r][n] = "pending"
      <4>1. Blocked(f, n)
        BY <3>1, <2>1 DEF DecidedBy, Verdicts
      <4>2. \A d \in Steps : f[d] \in Terminal => step'[r][d] = f[d]
        BY <2>1 DEF DecidedBy
      <4> QED BY <4>1, <4>2, DependenciesStay
    <3>2. CASE step[r][n] # "pending"
      <4>1. Blocked(step[r], n)
        BY <3>2, <2>1, <2>2 DEF DecidedBy, RowsInv
      <4> QED BY <4>1, <1>1, DependenciesStay
    <3> QED BY <3>1, <3>2
  <2>7. run'[r] = "done" => \A n \in Steps : ~ EndedBadly(step'[r], n)
    <3> SUFFICES ASSUME run'[r] = "done" PROVE \A n \in Steps : ~ EndedBadly(step'[r], n)
      OBVIOUS
    <3>1. AllEnded(f) /\ \A n \in Steps : f[n] = "failed" => n \in Continues
      BY <2>1 DEF DecidedBy, RunEnds
    <3>2. \A n \in Steps : step'[r][n] = "failed" => n \in Continues
      BY <2>4, <3>1
    <3> QED BY <2>6, <3>2, CanceledForAFailure
  <2>8. run'[r] = "failed" => \E n \in Steps : step'[r][n] = "failed" /\ n \notin Continues
    BY <2>1, <2>4 DEF DecidedBy, RunEnds
  <2>9. run'[r] # "absent"
    BY <2>1 DEF DecidedBy
  <2> QED BY <2>3, <2>5, <2>6, <2>7, <2>8, <2>9
<1>6. ASSUME NEW r \in Runs
      PROVE  RowsOf(r)
  <2>1. CASE \A q \in Runs : Reopened(q)
    BY <2>1, <1>3
  <2>2. ASSUME NEW q \in Runs, \A p \in Runs \ {q} : Unmoved(p),
               Submitted(q) \/ Pruned(q) \/ Canceled(q) \/ Moved(q) \/ Advanced(q)
        PROVE  RowsOf(r)
    <3>1. CASE q = r
      BY <3>1, <2>2, <1>3, <1>4, <1>5
    <3>2. CASE q # r
      <4>1. Reopened(r)
        BY <3>2, <2>2 DEF Unmoved, Reopened
      <4> QED BY <4>1, <1>3
    <3> QED BY <3>1, <3>2
  <2> QED BY <2>1, <2>2, RowMoves
<1> QED
  BY <1>6 DEF RowsInv, DependenciesHold, EndedRunsAreClosed, EndsForItsSteps, Live, Open

RowInvs == ThreadsInv /\ SingleExecution /\ ExpiredInv /\ RowsInv

LEMMA RowInit == Init => RowInvs
<1> SUFFICES ASSUME Init PROVE RowInvs
  OBVIOUS
<1>1. ThreadsInv /\ SingleExecution
  BY ThreadsInit
<1>2. ExpiredInv
  BY DEF Init, ExpiredInv
<1>3. RowsInv
  BY DEF Init, RowsInv, DependenciesHold, EndedRunsAreClosed, EndsForItsSteps, RunEnds, Live
<1> QED BY <1>1, <1>2, <1>3 DEF RowInvs

LEMMA RowStep == RowInvs /\ [Next]_vars => RowInvs'
  BY ThreadsStep, ExecutionStep, ExpiredStep, RowsStep DEF RowInvs, ThreadsInv

\* DependenciesHold: a node is queued, runs, waits or is done only after every node before
\* it ended, and none of them badly.
THEOREM NodesWaitForTheirOwn == Spec => []DependenciesHold
<1>1. RowInvs => DependenciesHold
  BY DEF RowInvs, RowsInv
<1> QED
  BY <1>1, RowInit, RowStep, PTL DEF Spec

\* EndedRunsAreClosed: a run that ended has no step left that could still move.
THEOREM EndedRunsStayClosed == Spec => []EndedRunsAreClosed
<1>1. RowInvs => EndedRunsAreClosed
  BY DEF RowInvs, RowsInv
<1> QED
  BY <1>1, RowInit, RowStep, PTL DEF Spec

\* EndsForItsSteps: a run ends done or failed for what its steps did, and never because a
\* step "could not start".
THEOREM RunsEndForTheirSteps == Spec => []EndsForItsSteps
<1>1. RowInvs => EndsForItsSteps
  BY DEF RowInvs, RowsInv
<1> QED
  BY <1>1, RowInit, RowStep, PTL DEF Spec

-----------------------------------------------------------------------------
(* The executor is told once *)

\* A thread that is about to tell the end of a run is the only one, and the first.
ToldInv ==
    \A r \in Runs :
        /\ told[r] # 0 => told[r] = 1 /\ run[r] \in RunEnds \cup {"pruned"}
        /\ \A t \in Threads : pc[t] = "ended" /\ onRun[t] = r =>
              /\ told[r] = 0 /\ run[r] \in RunEnds
              /\ \A u \in Threads \ {t} : ~ (pc[u] = "ended" /\ onRun[u] = r)

\* Nothing happens to the tellers of a run.
Untold(r) ==
    /\ told'[r] = told[r]
    /\ \A t \in Threads : pc'[t] = "ended" /\ onRun'[t] = r => pc[t] = "ended" /\ onRun[t] = r

\* A thread that goes anywhere but to the end of a run tells nothing.
LEMMA NotTelling ==
    ASSUME TypeInv, NEW t \in Threads, NEW p, NEW q, Go(t, p, q) \/ Return(t), p # "ended", told' = told
    PROVE  \A r \in Runs : Untold(r)
  BY DEF TypeInv, TypeOK, Go, Return, Untold

LEMMA ToldStep == RowInvs /\ ToldInv /\ [Next]_vars => ToldInv'
<1> SUFFICES ASSUME RowInvs, ToldInv, [Next]_vars, NEW r \in Runs
             PROVE  /\ told'[r] # 0 => told'[r] = 1 /\ run'[r] \in RunEnds \cup {"pruned"}
                    /\ \A t \in Threads : pc'[t] = "ended" /\ onRun'[t] = r =>
                          /\ told'[r] = 0 /\ run'[r] \in RunEnds
                          /\ \A u \in Threads \ {t} : ~ (pc'[u] = "ended" /\ onRun'[u] = r)
  BY DEF ToldInv
<1> DEFINE Told == /\ told'[r] # 0 => told'[r] = 1 /\ run'[r] \in RunEnds \cup {"pruned"}
                   /\ \A t \in Threads : pc'[t] = "ended" /\ onRun'[t] = r =>
                          /\ told'[r] = 0 /\ run'[r] \in RunEnds
                          /\ \A u \in Threads \ {t} : ~ (pc'[u] = "ended" /\ onRun'[u] = r)
<1> USE ThreadsAssumption
<1>0. TypeInv /\ LockInv /\ ViewInv
  BY DEF RowInvs, ThreadsInv
<1>1. run[r] \in RunEnds \cup {"pruned"} => run'[r] \in {run[r], "pruned"}
  BY <1>0, EndsKept, RowMoves
     DEF RowInvs, Reopened, Unmoved, Submitted, Pruned, Canceled, Moved, Advanced, Live, Open
<1>2. ASSUME Untold(r), run[r] \in RunEnds => run'[r] = run[r]
      PROVE  Told
  BY <1>2, <1>1 DEF Untold, ToldInv
<1>3. Live(r) => told[r] = 0 /\ \A t \in Threads : ~ (pc[t] = "ended" /\ onRun[t] = r)
  BY <1>0 DEF ToldInv, Live, RunEnds, TypeInv, TypeOK
<1>4. ASSUME NEW c \in Callers, NEW q \in Runs, Submit(c, q)
      PROVE  Told
  <2>1. Go(c, "advance", q) /\ told' = told /\ run[q] = "absent" /\ run' = [run EXCEPT ![q] = "queued"]
    BY <1>4 DEF Submit
  <2>2. run[r] \in RunEnds => run'[r] = run[r]
    BY <1>0, <2>1 DEF RunEnds, TypeInv, TypeOK
  <2> QED BY <1>0, <1>2, <2>1, <2>2, NotTelling DEF Threads
<1>5. ASSUME NEW c \in Callers, NEW q \in Runs, Cancel(c, q)
      PROVE  Told
  <2>1. Go(c, "ended", q) /\ told' = told /\ Live(q) /\ run' = [run EXCEPT ![q] = "canceled"]
    BY <1>5 DEF Cancel
  <2>2. /\ \A u \in Threads \ {c} : pc'[u] = pc[u] /\ onRun'[u] = onRun[u]
        /\ onRun'[c] = q /\ c \in Threads
    BY <1>0, <2>1 DEF Go, TypeInv, TypeOK, Threads
  <2>3. CASE q = r
    BY <2>1, <2>2, <2>3, <1>0, <1>3 DEF RunEnds, TypeInv, TypeOK
  <2>4. CASE q # r
    <3>1. Untold(r) /\ run'[r] = run[r]
      BY <2>1, <2>2, <2>4, <1>0 DEF Untold, TypeInv, TypeOK
    <3> QED BY <3>1, <1>2
  <2> QED BY <2>3, <2>4
<1>6. ASSUME NEW c \in Callers, NEW q \in Runs, NEW n \in Steps, NEW s \in {"done", "failed"},
             EndWait(c, q, n, s)
      PROVE  Told
  BY <1>6, <1>0, <1>2, NotTelling DEF EndWait, Threads
<1>7. ASSUME NEW c \in Callers, NEW q \in Runs, NEW n \in Steps, RunAgain(c, q, n)
      PROVE  Told
  BY <1>7, <1>0, <1>2, NotTelling DEF RunAgain, Threads
<1>8. ASSUME NEW t \in Threads, AdvanceWrite(t)
      PROVE  Told
  <2> DEFINE q == onRun[t]
  <2>1. /\ q \in Runs /\ Live(q) /\ told' = told
        /\ run'[q] \in RunEnds => Go(t, "ended", q)
        /\ run'[q] \notin RunEnds => Return(t)
    BY <1>8, <1>0, AdvanceDecides DEF AdvanceWrite
  <2>2. \A p \in Runs \ {q} : run'[p] = run[p]
    BY <1>8, <1>0, AdvanceWriteFacts
  <2>3. run[q] \notin RunEnds
    BY <2>1 DEF Live, RunEnds
  <2>4. CASE run'[q] \in RunEnds
    <3>1. /\ \A u \in Threads \ {t} : pc'[u] = pc[u] /\ onRun'[u] = onRun[u]
          /\ onRun'[t] = q
      BY <1>0, <2>1, <2>4 DEF Go, TypeInv, TypeOK
    <3>2. CASE q = r
      BY <2>1, <2>4, <3>1, <3>2, <1>3
    <3>3. CASE q # r
      <4>1. Untold(r)
        BY <2>1, <3>1, <3>3 DEF Untold
      <4> QED BY <4>1, <2>2, <3>3, <1>2
    <3> QED BY <3>2, <3>3
  <2>5. CASE run'[q] \notin RunEnds
    <3>1. Untold(r)
      BY <2>1, <2>5, <1>0, NotTelling
    <3> QED BY <3>1, <2>2, <2>3, <1>2
  <2> QED BY <2>4, <2>5
<1>9. ASSUME NEW t \in Threads, TellEnded(t)
      PROVE  Told
  <2>1. /\ pc[t] = "ended" /\ onRun[t] \in Runs /\ Return(t) /\ run' = run
        /\ told' = [told EXCEPT ![onRun[t]] = @ + 1]
    BY <1>9, <1>0 DEF TellEnded, database, TypeInv, WorkInv
  <2>2. /\ \A u \in Threads \ {t} : pc'[u] = pc[u] /\ onRun'[u] = onRun[u]
        /\ pc'[t] # "ended"
    BY <2>1, <1>0, ReturnType
  <2>3. CASE onRun[t] = r
    <3>1. told[r] = 0 /\ run[r] \in RunEnds /\ told'[r] = 1
      BY <2>1, <2>3, <1>0 DEF ToldInv, TypeInv, TypeOK
    <3>2. \A u \in Threads : ~ (pc'[u] = "ended" /\ onRun'[u] = r)
      BY <2>1, <2>2, <2>3 DEF ToldInv
    <3> QED BY <3>1, <3>2, <2>1
  <2>4. CASE onRun[t] # r
    <3>1. Untold(r)
      BY <2>1, <2>2, <2>4, <1>0 DEF Untold, TypeInv, TypeOK
    <3> QED BY <3>1, <2>1, <1>2
  <2> QED BY <2>3, <2>4
<1>10. ASSUME NEW q \in Runs, Prune(q)
       PROVE  Told
  <2>1. /\ run' = [run EXCEPT ![q] = "pruned"] /\ \A t \in Threads : onRun[t] # q
        /\ pc' = pc /\ onRun' = onRun /\ told' = told
    BY <1>10 DEF Prune, threads
  <2>2. CASE q = r
    BY <2>1, <2>2, <1>0, <1>1 DEF ToldInv, TypeInv, TypeOK
  <2>3. CASE q # r
    BY <2>1, <2>3, <1>0, <1>2 DEF Untold, TypeInv, TypeOK
  <2> QED BY <2>2, <2>3
<1>11. ASSUME NEW q \in Runs, NEW n \in Steps, ExpireApply(q, n)
       PROVE  Told
  BY <1>11, <1>0, <1>2, NotTelling DEF ExpireApply, Threads
<1>12. ASSUME NEW w \in Workers, NEW q \in Runs, NEW n \in Steps, Claim(w, q, n)
       PROVE  Told
  <2>1. Go(w, "claimed", q) /\ told' = told
    BY <1>12 DEF Claim
  <2>2. run[r] \in RunEnds => run'[r] = run[r]
    BY <1>12, <1>0 DEF Claim, RunEnds, TypeInv, TypeOK
  <2> QED BY <2>1, <2>2, <1>0, <1>2, NotTelling DEF Threads
<1>13. ASSUME NEW w \in Workers, Save(w) \/ FailOrphan(w) \/ Begin(w) \/ Orphan(w) \/ Release(w)
       PROVE  Told
  <2>1. /\ told' = told /\ run' = run
        /\ \/ Go(w, "advance", onRun[w]) \/ Go(w, "exec", onRun[w])
           \/ Go(w, "orphan", onRun[w]) \/ Go(w, "idle", None)
    BY <1>13 DEF Save, FailOrphan, Begin, Orphan, Release, database
  <2> QED BY <2>1, <1>0, <1>2, NotTelling DEF Threads
<1>14. ASSUME NEW w \in Workers, StepEnds(w)
       PROVE  Told
  <2>1. told' = told /\ run' = run /\ (Go(w, "release", onRun[w]) \/ Go(w, "save", onRun[w]))
    BY <1>14 DEF StepEnds, database
  <2> QED BY <2>1, <1>0, <1>2, NotTelling DEF Threads
<1>15. ASSUME NEW c \in Callers, PluginTake(c) \/ PluginRelease(c)
       PROVE  Told
  <2>1. told' = told /\ run' = run /\ (Go(c, "plugin", None) \/ Go(c, "idle", None))
    BY <1>15 DEF PluginTake, PluginRelease, database
  <2> QED BY <2>1, <1>0, <1>2, NotTelling DEF Threads
<1>16. ASSUME NEW t \in Threads, AdvanceNothing(t) \/ AdvanceRead(t)
       PROVE  Told
  <2>1. told' = told /\ run' = run /\ (Go(t, "decide", onRun[t]) \/ Return(t))
    BY <1>16 DEF AdvanceNothing, AdvanceRead, database
  <2> QED BY <2>1, <1>0, <1>2, NotTelling
<1>17. ASSUME ExpireRead \/ ExpireDone
       PROVE  Told
  <2>1. told' = told /\ run' = run /\ (Go(Loop, "expire", None) \/ Go(Loop, "idle", None))
    BY <1>17 DEF ExpireRead, ExpireDone, database
  <2> QED BY <2>1, <1>0, <1>2, NotTelling DEF Threads
<1>18. ASSUME Recover \/ Register \/ Stop \/ Crash \/ UNCHANGED vars
       PROVE  Told
  <2>1. Untold(r) /\ run' = run
    BY <1>18 DEF Recover, Register, Stop, Crash, vars, threads, database, Untold
  <2> QED BY <2>1, <1>2
<1> HIDE DEF Told
<1>19. Told
  BY <1>4, <1>5, <1>6, <1>7, <1>8, <1>9, <1>10, <1>11, <1>12, <1>13, <1>14, <1>15, <1>16, <1>17, <1>18,
     NextCases
     DEF Quiet
<1> QED BY <1>19 DEF Told

\* ToldOnce: the executor hears of the end of a run once, and of no run that did not end.
THEOREM EndsAreToldOnce == Spec => []ToldOnce
<1>1. Init => ToldInv
  BY DEF Init, ToldInv
<1>2. RowInvs /\ ToldInv => ToldOnce
  BY DEF RowInvs, ThreadsInv, TypeInv, TypeOK, ToldInv, ToldOnce
<1> QED
  BY <1>1, <1>2, RowInit, RowStep, ToldStep, PTL DEF Spec

-----------------------------------------------------------------------------
(* The count of the gate *)

LEMMA HoldersFinite == \A x \in Resources : IsFiniteSet(Holders(x))
<1>1. IsFiniteSet(Workers \cup Callers)
  BY ThreadsAssumption, FS_Union
<1>2. \A x \in Resources : Holders(x) \subseteq Workers \cup Callers
  BY DEF Holders
<1> QED BY <1>1, <1>2, FS_Subset

\* A thread that moves but takes no place and gives none back leaves the holders alone.
LEMMA HoldersStay ==
    ASSUME TypeInv, NEW t \in Threads, NEW p, NEW q, Go(t, p, q), onStep' = onStep,
           t \in Workers => pc[t] # "idle" /\ p # "idle",
           t \in Callers => pc[t] # "plugin" /\ p # "plugin"
    PROVE  \A x \in Resources : Holders(x)' = Holders(x)
<1>1. \A u \in Threads \ {t} : pc'[u] = pc[u]
  BY DEF Go, TypeInv, TypeOK
<1>2. pc'[t] = p
  BY DEF Go, TypeInv, TypeOK
<1> SUFFICES ASSUME NEW x \in Resources PROVE Holders(x)' = Holders(x)
  OBVIOUS
<1>3. \A w \in Workers : pc'[w] # "idle" <=> pc[w] # "idle"
  BY <1>1, <1>2 DEF Threads
<1>4. \A c \in Callers : pc'[c] = "plugin" <=> pc[c] = "plugin"
  BY <1>1, <1>2 DEF Threads
<1> QED BY <1>3, <1>4 DEF Holders

LEMMA GateKept ==
    ASSUME GateIsExact, used' = used, \A x \in Resources : Holders(x)' = Holders(x)
    PROVE  GateIsExact'
  BY DEF GateIsExact

\* t becomes a holder of the resources of X, where there is room.
LEMMA GateTaken ==
    ASSUME TypeInv, GateIsExact, NEW X, NEW t, Room(X), X \subseteq Resources, used' = Taken(X),
           \A x \in Resources : /\ x \in X => t \notin Holders(x) /\ Holders(x)' = Holders(x) \cup {t}
                                /\ x \notin X => Holders(x)' = Holders(x)
    PROVE  GateIsExact'
<1> SUFFICES ASSUME NEW x \in Resources
             PROVE  used'[x] = Cardinality(Holders(x)') /\ (Limit[x] > 0 => used'[x] <= Limit[x])
  BY DEF GateIsExact
<1>1. used[x] = Cardinality(Holders(x)) /\ (Limit[x] > 0 => used[x] <= Limit[x])
  BY DEF GateIsExact
<1>2. used[x] \in Nat /\ Limit[x] \in Nat
  BY GateAssumption DEF TypeInv, TypeOK
<1>3. CASE x \in X
  <2>1. used'[x] = used[x] + 1
    BY <1>3 DEF Taken
  <2>2. Cardinality(Holders(x) \cup {t}) = Cardinality(Holders(x)) + 1
    BY <1>3, HoldersFinite, FS_AddElement
  <2>3. Limit[x] = 0 \/ used[x] < Limit[x]
    BY <1>3 DEF Room
  <2> QED BY <2>1, <2>2, <2>3, <1>1, <1>2, <1>3
<1>4. CASE x \notin X
  BY <1>4, <1>1 DEF Taken
<1> QED BY <1>3, <1>4

\* t, a holder of the resources of X, is one no more.
LEMMA GateReleased ==
    ASSUME TypeInv, GateIsExact, NEW X, NEW t, X \subseteq Resources, used' = Released(X),
           \A x \in Resources : /\ x \in X => t \in Holders(x) /\ Holders(x)' = Holders(x) \ {t}
                                /\ x \notin X => Holders(x)' = Holders(x)
    PROVE  GateIsExact'
<1> SUFFICES ASSUME NEW x \in Resources
             PROVE  used'[x] = Cardinality(Holders(x)') /\ (Limit[x] > 0 => used'[x] <= Limit[x])
  BY DEF GateIsExact
<1>1. used[x] = Cardinality(Holders(x)) /\ (Limit[x] > 0 => used[x] <= Limit[x])
  BY DEF GateIsExact
<1>2. used[x] \in Nat /\ Limit[x] \in Nat
  BY GateAssumption DEF TypeInv, TypeOK
<1>3. CASE x \in X
  <2>1. Cardinality(Holders(x) \ {t}) = Cardinality(Holders(x)) - 1
    BY <1>3, HoldersFinite, FS_RemoveElement
  <2>2. Cardinality(Holders(x)) > 0
    <3>1. Holders(x) # {}
      BY <1>3
    <3> QED BY <3>1, <1>1, <1>2, HoldersFinite, FS_EmptySet
  <2>3. used'[x] = used[x] - 1
    BY <1>1, <1>2, <1>3, <2>2 DEF Released
  <2> QED BY <2>1, <2>3, <1>1, <1>2, <1>3
<1>4. CASE x \notin X
  BY <1>4, <1>1 DEF Released
<1> QED BY <1>3, <1>4

LEMMA GateStep == TypeInv /\ GateIsExact /\ [Next]_vars => GateIsExact'
<1> SUFFICES ASSUME TypeInv, GateIsExact, [Next]_vars PROVE GateIsExact'
  OBVIOUS
<1> USE ThreadsAssumption
<1>1. ASSUME NEW c \in Callers, NEW r \in Runs, Submit(c, r) \/ Cancel(c, r)
      PROVE  GateIsExact'
  <2>1. /\ pc[c] = "idle" /\ onStep' = onStep /\ used' = used
        /\ Go(c, "advance", r) \/ Go(c, "ended", r)
    BY <1>1 DEF Submit, Cancel
  <2>2. c \in Threads /\ c \notin Workers
    BY DEF Threads
  <2>3. \A x \in Resources : Holders(x)' = Holders(x)
    BY <2>1, <2>2, HoldersStay
  <2> QED BY <2>1, <2>3, GateKept
<1>2. ASSUME NEW c \in Callers, NEW r \in Runs, NEW n \in Steps, NEW s \in {"done", "failed"},
             EndWait(c, r, n, s)
      PROVE  GateIsExact'
  <2>1. pc[c] = "idle" /\ onStep' = onStep /\ used' = used /\ Go(c, "advance", r)
    BY <1>2 DEF EndWait
  <2>2. \A x \in Resources : Holders(x)' = Holders(x)
    BY <2>1, HoldersStay DEF Threads
  <2> QED BY <2>1, <2>2, GateKept
<1>3. ASSUME NEW c \in Callers, NEW r \in Runs, NEW n \in Steps, RunAgain(c, r, n)
      PROVE  GateIsExact'
  <2>1. pc[c] = "idle" /\ onStep' = onStep /\ used' = used /\ Go(c, "advance", r)
    BY <1>3 DEF RunAgain
  <2>2. \A x \in Resources : Holders(x)' = Holders(x)
    BY <2>1, HoldersStay DEF Threads
  <2> QED BY <2>1, <2>2, GateKept
<1>4. ASSUME NEW t \in Threads,
             AdvanceNothing(t) \/ AdvanceRead(t) \/ AdvanceWrite(t) \/ TellEnded(t)
      PROVE  GateIsExact'
  <2>1. onStep' = onStep /\ used' = used /\ pc[t] \in {"advance", "decide", "ended"}
    BY <1>4 DEF AdvanceNothing, AdvanceRead, AdvanceWrite, TellEnded
  <2>2. Go(t, "decide", onRun[t]) \/ Go(t, "ended", onRun[t]) \/ Return(t)
    <3>1. CASE AdvanceWrite(t)
      BY <3>1, AdvanceWriteFacts
    <3>2. CASE ~ AdvanceWrite(t)
      BY <3>2, <1>4 DEF AdvanceNothing, AdvanceRead, TellEnded
    <3> QED BY <3>1, <3>2
  <2>3. CASE Go(t, "decide", onRun[t]) \/ Go(t, "ended", onRun[t])
    <3>1. \A x \in Resources : Holders(x)' = Holders(x)
      BY <2>1, <2>3, HoldersStay
    <3> QED BY <3>1, <2>1, GateKept
  <2>4. CASE Return(t)
    <3>1. Go(t, "release", onRun[t]) \/ (t \notin Workers /\ (Go(t, "expire", None) \/ Go(t, "idle", None)))
      BY <2>4 DEF Return
    <3>2. \A x \in Resources : Holders(x)' = Holders(x)
      BY <2>1, <3>1, HoldersStay
    <3> QED BY <3>2, <2>1, GateKept
  <2> QED BY <2>2, <2>3, <2>4
<1>5. ASSUME Recover \/ Register \/ Stop \/ UNCHANGED vars \/ \E r \in Runs : Prune(r)
      PROVE  GateIsExact'
  <2>1. used' = used /\ pc' = pc /\ onStep' = onStep
    BY <1>5 DEF Recover, Register, Stop, Prune, vars, threads
  <2>2. \A x \in Resources : Holders(x)' = Holders(x)
    BY <2>1 DEF Holders
  <2> QED BY <2>1, <2>2, GateKept
<1>6. ASSUME NEW r \in Runs, NEW n \in Steps, ExpireApply(r, n)
      PROVE  GateIsExact'
  <2>1. onStep' = onStep /\ used' = used /\ Go(Loop, "advance", r)
    BY <1>6 DEF ExpireApply
  <2>2. \A x \in Resources : Holders(x)' = Holders(x)
    BY <2>1, HoldersStay DEF Threads
  <2> QED BY <2>1, <2>2, GateKept
<1>7. ASSUME ExpireRead \/ ExpireDone
      PROVE  GateIsExact'
  <2>1. onStep' = onStep /\ used' = used /\ (Go(Loop, "expire", None) \/ Go(Loop, "idle", None))
    BY <1>7 DEF ExpireRead, ExpireDone
  <2>2. \A x \in Resources : Holders(x)' = Holders(x)
    BY <2>1, HoldersStay DEF Threads
  <2> QED BY <2>1, <2>2, GateKept
<1>8. ASSUME NEW w \in Workers, NEW r \in Runs, NEW n \in Steps, Claim(w, r, n)
      PROVE  GateIsExact'
  <2>1. /\ pc[w] = "idle" /\ Room(Uses[n]) /\ used' = Taken(Uses[n])
        /\ Go(w, "claimed", r) /\ onStep' = [onStep EXCEPT ![w] = n]
    BY <1>8 DEF Claim
  <2>2. /\ pc'[w] = "claimed" /\ onStep'[w] = n
        /\ \A u \in Threads \ {w} : pc'[u] = pc[u]
        /\ \A v \in Workers \ {w} : onStep'[v] = onStep[v]
    BY <2>1 DEF Go, TypeInv, TypeOK, Threads
  <2>3. ASSUME NEW x \in Resources
        PROVE  /\ x \in Uses[n] => w \notin Holders(x) /\ Holders(x)' = Holders(x) \cup {w}
               /\ x \notin Uses[n] => Holders(x)' = Holders(x)
    BY <2>1, <2>2 DEF Holders, Threads
  <2>4. Uses[n] \subseteq Resources
    BY GateAssumption
  <2> QED BY <2>1, <2>3, <2>4, GateTaken
<1>9. ASSUME NEW w \in Workers, Release(w)
      PROVE  GateIsExact'
  <2>1. /\ pc[w] = "release" /\ used' = Released(Uses[onStep[w]])
        /\ Go(w, "idle", None) /\ onStep' = [onStep EXCEPT ![w] = None] /\ onStep[w] \in Steps
    BY <1>9 DEF Release, TypeInv, WorkInv
  <2>2. /\ pc'[w] = "idle"
        /\ \A u \in Threads \ {w} : pc'[u] = pc[u]
        /\ \A v \in Workers \ {w} : onStep'[v] = onStep[v]
    BY <2>1 DEF Go, TypeInv, TypeOK, Threads
  <2>3. ASSUME NEW x \in Resources
        PROVE  /\ x \in Uses[onStep[w]] => w \in Holders(x) /\ Holders(x)' = Holders(x) \ {w}
               /\ x \notin Uses[onStep[w]] => Holders(x)' = Holders(x)
    BY <2>1, <2>2 DEF Holders, Threads
  <2>4. Uses[onStep[w]] \subseteq Resources
    BY <2>1, GateAssumption
  <2> QED BY <2>1, <2>3, <2>4, GateReleased
<1>10. ASSUME NEW w \in Workers, Begin(w) \/ Orphan(w) \/ StepEnds(w) \/ Save(w) \/ FailOrphan(w)
       PROVE  GateIsExact'
  <2>1. /\ onStep' = onStep /\ used' = used /\ pc[w] # "idle"
        /\ \E p \in {"exec", "orphan", "release", "save", "advance"} : Go(w, p, onRun[w])
    BY <1>10 DEF Begin, Orphan, StepEnds, Save, FailOrphan
  <2>2. w \in Threads /\ w \notin Callers
    BY DEF Threads
  <2>3. PICK p \in {"exec", "orphan", "release", "save", "advance"} : Go(w, p, onRun[w])
    BY <2>1
  <2>4. \A x \in Resources : Holders(x)' = Holders(x)
    BY <2>1, <2>2, <2>3, HoldersStay
  <2> QED BY <2>1, <2>4, GateKept
<1>11. ASSUME NEW c \in Callers, PluginTake(c)
       PROVE  GateIsExact'
  <2>1. /\ pc[c] = "idle" /\ Room(PluginUses) /\ used' = Taken(PluginUses)
        /\ Go(c, "plugin", None) /\ onStep' = onStep
    BY <1>11 DEF PluginTake
  <2>2. pc'[c] = "plugin" /\ \A u \in Threads \ {c} : pc'[u] = pc[u]
    BY <2>1 DEF Go, TypeInv, TypeOK, Threads
  <2>3. ASSUME NEW x \in Resources
        PROVE  /\ x \in PluginUses => c \notin Holders(x) /\ Holders(x)' = Holders(x) \cup {c}
               /\ x \notin PluginUses => Holders(x)' = Holders(x)
    BY <2>1, <2>2 DEF Holders, Threads
  <2> QED BY <2>1, <2>3, GateTaken, GateAssumption
<1>12. ASSUME NEW c \in Callers, PluginRelease(c)
       PROVE  GateIsExact'
  <2>1. /\ pc[c] = "plugin" /\ used' = Released(PluginUses)
        /\ Go(c, "idle", None) /\ onStep' = onStep
    BY <1>12 DEF PluginRelease
  <2>2. pc'[c] = "idle" /\ \A u \in Threads \ {c} : pc'[u] = pc[u]
    BY <2>1 DEF Go, TypeInv, TypeOK, Threads
  <2>3. ASSUME NEW x \in Resources
        PROVE  /\ x \in PluginUses => c \in Holders(x) /\ Holders(x)' = Holders(x) \ {c}
               /\ x \notin PluginUses => Holders(x)' = Holders(x)
    BY <2>1, <2>2 DEF Holders, Threads
  <2> QED BY <2>1, <2>3, GateReleased, GateAssumption
<1>13. ASSUME Crash
       PROVE  GateIsExact'
  <2>1. \A x \in Resources : used'[x] = 0 /\ Holders(x)' = {}
    BY <1>13 DEF Crash, Holders, Threads
  <2>2. \A x \in Resources : Cardinality(Holders(x)') = 0 /\ Limit[x] \in Nat
    BY <2>1, FS_EmptySet, GateAssumption
  <2>3. \A x \in Resources : used'[x] = Cardinality(Holders(x)') /\ (Limit[x] > 0 => used'[x] <= Limit[x])
    BY <2>1, <2>2
  <2> QED BY <2>3 DEF GateIsExact
<1> QED
  BY <1>1, <1>2, <1>3, <1>4, <1>5, <1>6, <1>7, <1>8, <1>9, <1>10, <1>11, <1>12, <1>13, NextCases
     DEF Quiet

\* GateIsExact: the count in memory is the count, and no resource is ever given beyond its
\* limit.
THEOREM GateCounts == Spec => []GateIsExact
<1>1. Init => GateIsExact
  <2> SUFFICES ASSUME Init PROVE GateIsExact
    OBVIOUS
  <2>1. \A x \in Resources : used[x] = 0 /\ Holders(x) = {}
    BY DEF Init, Holders, Threads
  <2> QED BY <2>1, FS_EmptySet, GateAssumption DEF GateIsExact
<1> QED
  BY <1>1, TypeInit, TypeStep, GateStep, PTL DEF Spec

-----------------------------------------------------------------------------
(* JobRunner implements RunLifecycle *)

phase == [r \in Runs |-> Phase(r)]
part  == [r \in Runs |-> [n \in Steps |-> Part(step[r][n])]]

LEMMA PhaseFacts ==
    ASSUME NEW r \in Runs, run[r] \in RunStatus
    PROVE  /\ run[r] = "absent" => Phase(r) = "none"
           /\ run[r] = "pruned" => Phase(r) = "gone"
           /\ run[r] \in Open => Phase(r) = "open"
           /\ run[r] \in RunEnds => Phase(r) = run[r]
  BY DEF Phase, Live, Open, RunEnds, RunStatus

LEMMA PhaseFactsNext ==
    ASSUME NEW r \in Runs, run'[r] \in RunStatus
    PROVE  /\ run'[r] = "absent" => Phase(r)' = "none"
           /\ run'[r] = "pruned" => Phase(r)' = "gone"
           /\ run'[r] \in Open => Phase(r)' = "open"
           /\ run'[r] \in RunEnds => Phase(r)' = run'[r]
  BY DEF Phase, Live, Open, RunEnds, RunStatus

LEMMA PartFacts ==
    /\ Part("pending") = "held"
    /\ \A s \in Open : Part(s) = "open"
    /\ \A s \in Terminal : Part(s) = s
  BY DEF Part, Open, Terminal

\* A dependency that ended badly here is one that ended badly there.
LEMMA EndedThere ==
    ASSUME NEW st, NEW p, NEW d \in Steps, st[d] \in Terminal => p[d] = st[d]
    PROVE  /\ EndedBadly(st, d) => Lifecycle!EndedBadly(p, d)
           /\ st[d] \in Terminal /\ ~ EndedBadly(st, d) => Lifecycle!EndedWell(p, d)
  BY DEF EndedBadly, Lifecycle!EndedBadly, Lifecycle!EndedWell, Lifecycle!StepEnds, Terminal

LEMMA LifecycleInit == Init => Lifecycle!Init
<1> SUFFICES ASSUME Init PROVE Lifecycle!Init
  OBVIOUS
<1>1. \A r \in Runs : Phase(r) = "none"
  BY PhaseFacts DEF Init, RunStatus
<1>2. \A r \in Runs, n \in Steps : Part(step[r][n]) = "held"
  BY PartFacts DEF Init
<1> QED BY <1>1, <1>2 DEF Lifecycle!Init

LEMMA LifecycleStep == RowInvs /\ [Next]_vars => [Lifecycle!Next]_(Lifecycle!vars)
<1> SUFFICES ASSUME RowInvs, [Next]_vars
             PROVE  Lifecycle!Next \/ UNCHANGED <<phase, part>>
  BY DEF Lifecycle!vars, phase, part
<1>1. \A r \in Runs : /\ step[r] \in [Steps -> StepStatus] /\ run[r] \in RunStatus
                      /\ step'[r] \in [Steps -> StepStatus] /\ run'[r] \in RunStatus
  BY TypeStep DEF RowInvs, ThreadsInv, TypeInv, TypeOK
<1>2. \A r \in Runs : Unmoved(r) => Phase(r)' = Phase(r) /\ part'[r] = part[r]
  BY DEF Unmoved, Phase, Live, part
<1>3. \A r \in Runs, n \in Steps : step[r][n] \in Open => Live(r)
  BY <1>1 DEF RowInvs, RowsInv, EndedRunsAreClosed, AllEnded, Live, Open, RunStatus, RunEnds, Terminal
<1>4. CASE \A r \in Runs : Reopened(r)
  <2>1. ASSUME NEW r \in Runs PROVE Phase(r)' = Phase(r)
    BY <1>4 DEF Reopened, Phase, Live
  <2>2. ASSUME NEW r \in Runs, NEW n \in Steps PROVE Part(step'[r][n]) = Part(step[r][n])
    BY <1>4, PartFacts DEF Reopened
  <2> QED BY <2>1, <2>2 DEF phase, part
<1>5. ASSUME NEW r \in Runs, \A q \in Runs \ {r} : Unmoved(q),
             Submitted(r) \/ Pruned(r) \/ Canceled(r) \/ Moved(r) \/ Advanced(r)
      PROVE  Lifecycle!Next \/ UNCHANGED <<phase, part>>
  <2>1. phase' = [phase EXCEPT ![r] = Phase(r)'] /\ part' = [part EXCEPT ![r] = part'[r]]
    BY <1>2, <1>5 DEF phase, part
  <2>2. /\ phase[r] = Phase(r) /\ phase'[r] = Phase(r)'
        /\ \A n \in Steps : part[r][n] = Part(step[r][n]) /\ part'[r][n] = Part(step'[r][n])
        /\ part[r] = [n \in Steps |-> Part(step[r][n])]
        /\ part'[r] = [n \in Steps |-> Part(step'[r][n])]
    BY DEF phase, part
  <2>8. part = [q \in Runs |-> part[q]] /\ part' = [q \in Runs |-> part'[q]]
    BY DEF part
  <2>9. ASSUME part'[r] = part[r] PROVE part' = part
    BY <2>8, <2>9, <1>2, <1>5
  <2>3. CASE Submitted(r)
    <3>1. phase[r] = "none" /\ Phase(r)' = "open"
      BY <2>2, <2>3, <1>1, PhaseFacts, PhaseFactsNext DEF Submitted, Open
    <3>2. part' = part
      BY <2>2, <2>3, <2>9 DEF Submitted
    <3> QED BY <3>1, <3>2, <2>1 DEF Lifecycle!Next, Lifecycle!Accept, phase, part
  <2>4. CASE Pruned(r)
    <3>1. phase[r] \in {"done", "failed", "canceled"} /\ Phase(r)' = "gone"
      BY <2>2, <2>4, <1>1, PhaseFacts, PhaseFactsNext DEF Pruned, RunEnds
    <3>2. part' = part
      BY <2>2, <2>4, <2>9 DEF Pruned
    <3> QED BY <3>1, <3>2, <2>1 DEF Lifecycle!Next, Lifecycle!Forget, phase, part
  <2>5. CASE Canceled(r)
    <3>1. phase[r] = "open" /\ Phase(r)' = "canceled"
      BY <2>2, <2>5, <1>1, PhaseFacts, PhaseFactsNext DEF Canceled, Live, Open, RunEnds
    <3>2. part'[r] = [n \in Steps |-> IF part[r][n] \in Lifecycle!StepEnds THEN part[r][n] ELSE "canceled"]
      <4>1. ASSUME NEW n \in Steps
            PROVE  Part(step'[r][n]) =
                     IF part[r][n] \in Lifecycle!StepEnds THEN part[r][n] ELSE "canceled"
        <5>1. step[r][n] \in Terminal \/ step[r][n] \in Open \/ step[r][n] = "pending"
          BY <1>1 DEF StepStatus, Terminal, Open
        <5> QED
          BY <5>1, <2>2, <2>5, PartFacts DEF Canceled, Lifecycle!StepEnds, Terminal
      <4> QED BY <4>1, <2>2
    <3> QED BY <3>1, <3>2, <2>1 DEF Lifecycle!Next, Lifecycle!Cancel, phase, part
  <2>6. CASE Moved(r)
    <3>1. PICK m \in Steps :
             /\ \A n \in Steps \ {m} : step'[r][n] = step[r][n]
             /\ \/ step'[r][m] = step[r][m]
                \/ step[r][m] \in Open /\ step'[r][m] \in Open \cup {"done", "failed"}
      BY <2>6 DEF Moved
    <3>2. Phase(r)' = Phase(r)
      BY <2>6, <1>1, PhaseFacts, PhaseFactsNext DEF Moved, Open, Phase, Live
    <3>3. phase' = phase
      BY <3>2, <2>1, <2>2 DEF phase
    <3>4. CASE step'[r][m] = step[r][m] \/ (step[r][m] \in Open /\ step'[r][m] \in Open)
      <4>1. \A n \in Steps : Part(step'[r][n]) = Part(step[r][n])
        BY <3>1, <3>4, PartFacts
      <4>2. part' = part
        BY <4>1, <2>2, <2>9
      <4> QED BY <4>2, <3>3
    <3>5. CASE step[r][m] \in Open /\ step'[r][m] \in {"done", "failed"}
      <4>1. phase[r] = "open"
        BY <3>5, <1>1, <1>3, <2>2, PhaseFacts DEF Live, Open
      <4>2. part[r][m] = "open" /\ part'[r] = [part[r] EXCEPT ![m] = step'[r][m]]
        <5>1. Part(step'[r][m]) = step'[r][m] /\ Part(step[r][m]) = "open"
          BY <3>5, PartFacts DEF Terminal
        <5> QED BY <5>1, <2>2, <3>1
      <4>3. part' = [part EXCEPT ![r][m] = step'[r][m]]
        BY <4>2, <2>1 DEF part
      <4>4. Lifecycle!EndStep(r, m)
        BY <4>1, <4>2, <4>3, <3>3, <3>5 DEF Lifecycle!EndStep, phase, part
      <4> QED BY <4>4 DEF Lifecycle!Next
    <3> QED BY <3>1, <3>4, <3>5
  <2>7. CASE Advanced(r)
    <3>1. PICK f \in [Steps -> StepStatus] : DecidedBy(r, f)
      BY <2>7 DEF Advanced
    <3>2. phase[r] = "open"
      BY <2>2, <2>7, <1>1, PhaseFacts DEF Advanced, Live, Open
    <3>3. part'[r] \in [Steps -> Lifecycle!StepEnds \cup {"held", "open"}]
      <4>1. \A n \in Steps : step'[r][n] \in Terminal \/ step'[r][n] \in Open \/ step'[r][n] = "pending"
        BY <1>1 DEF StepStatus, Terminal, Open
      <4> QED BY <4>1, <2>2, PartFacts DEF Lifecycle!StepEnds, Terminal
    <3>4. \A d \in Steps : f[d] \in Terminal => part'[r][d] = f[d]
      BY <2>2, <3>1, PartFacts DEF DecidedBy
    <3>5. Lifecycle!Decided(part[r], part'[r])
      <4> SUFFICES ASSUME NEW n \in Steps
                   PROVE  \/ part'[r][n] = part[r][n]
                          \/ /\ part[r][n] = "held" /\ part'[r][n] \in {"open", "skipped", "failed"}
                             /\ \A d \in After[n] : Lifecycle!EndedWell(part'[r], d)
                          \/ /\ part[r][n] = "held" /\ part'[r][n] = "canceled"
                             /\ \E d \in After[n] : Lifecycle!EndedBadly(part'[r], d)
        BY DEF Lifecycle!Decided
      <4>1. CASE step[r][n] # "pending"
        BY <4>1, <2>2, <3>1 DEF DecidedBy
      <4>2. CASE step[r][n] = "pending" /\ f[n] = "pending"
        BY <4>2, <2>2, <3>1 DEF DecidedBy
      <4>3. CASE step[r][n] = "pending" /\ f[n] # "pending"
        <5>1. f[n] \in Verdicts(f, n) /\ step'[r][n] = f[n] /\ part[r][n] = "held" /\ After[n] \subseteq Steps
          BY <4>3, <2>2, <3>1, PartFacts, StepsAssumption DEF DecidedBy
        <5>2. CASE Blocked(f, n)
          <6>1. part'[r][n] = "canceled"
            BY <5>1, <5>2, <2>2, PartFacts DEF Verdicts, Terminal
          <6>2. \E d \in After[n] : Lifecycle!EndedBadly(part'[r], d)
            BY <5>1, <5>2, <3>4, EndedThere DEF Blocked
          <6> QED BY <5>1, <6>1, <6>2
        <5>3. CASE ~ Blocked(f, n)
          <6>1. Ready(f, n) /\ f[n] \in {"queued", "skipped", "failed"}
            BY <4>3, <5>1, <5>3 DEF Verdicts
          <6>2. part'[r][n] \in {"open", "skipped", "failed"}
            BY <6>1, <5>1, <2>2, PartFacts DEF Terminal, Open
          <6>3. \A d \in After[n] : Lifecycle!EndedWell(part'[r], d)
            BY <5>1, <5>3, <6>1, <3>4, EndedThere DEF Blocked, Ready
          <6> QED BY <5>1, <6>2, <6>3
        <5> QED BY <5>2, <5>3
      <4> QED BY <4>1, <4>2, <4>3
    <3>6. \/ phase' = phase
          \/ /\ Lifecycle!Over(part'[r])
             /\ phase' = [phase EXCEPT ![r] =
                   IF \E n \in Steps : part'[r][n] = "failed" /\ n \notin Continues THEN "failed" ELSE "done"]
      <4>1. CASE run'[r] \in Open
        <5>1. Phase(r)' = "open"
          BY <4>1, <1>1, PhaseFactsNext
        <5> QED BY <5>1, <2>1, <2>2, <3>2 DEF phase
      <4>2. CASE run'[r] \in {"done", "failed"}
        <5>1. AllEnded(f) /\ Phase(r)' = run'[r]
          BY <4>2, <3>1, <1>1, PhaseFactsNext DEF DecidedBy, RunEnds
        <5>2. \A n \in Steps : part'[r][n] = f[n] /\ f[n] \in Terminal
          BY <5>1, <3>4 DEF AllEnded
        <5>3. Lifecycle!Over(part'[r])
          BY <5>2 DEF Lifecycle!Over, Lifecycle!StepEnds, Terminal
        <5>4. run'[r] = IF \E n \in Steps : part'[r][n] = "failed" /\ n \notin Continues
                        THEN "failed" ELSE "done"
          BY <4>2, <5>2, <3>1 DEF DecidedBy
        <5> QED BY <5>1, <5>3, <5>4, <2>1
      <4>3. run'[r] \in Open \cup {"done", "failed"}
        BY <3>1 DEF DecidedBy, Open
      <4> QED BY <4>1, <4>2, <4>3
    <3>7. Lifecycle!Decide(r)
      BY <3>2, <3>3, <3>5, <3>6, <2>1 DEF Lifecycle!Decide, phase, part
    <3> QED BY <3>7 DEF Lifecycle!Next
  <2> QED BY <2>3, <2>4, <2>5, <2>6, <2>7, <1>5
<1> QED
  BY <1>4, <1>5, RowMoves DEF RowInvs

\* LifecycleSpec: the queue, with its threads, locks, retries and crashes, implements the
\* lifecycle of a run that its users are promised.
THEOREM RunnerImplementsLifecycle == Spec => LifecycleSpec
  BY LifecycleInit, LifecycleStep, RowInit, RowStep, PTL DEF Spec, LifecycleSpec, Lifecycle!Spec
===============================================================================
