-------------------------- MODULE TaskTrigger_proofs --------------------------
(***************************************************************************)
(* Proofs about TaskTrigger, for every objective with any finite set of    *)
(* sub-tasks, agents, limits, runs and troubles.                           *)
(*                                                                         *)
(* A run at work and its task do not always know of each other: the start  *)
(* that fails with its run stored gives the task back while the run goes   *)
(* on.  Where(i, t) says where a task may be while a run of it is live,    *)
(* and from each of these places no other run of it gets to start: the key *)
(* finds the run that is there.                                            *)
(*                                                                         *)
(* The counts of a task have bounds although starts fail and holders come  *)
(* and go: every attempt has a run under its key, is under way, or was     *)
(* paid for by a trouble (PaidInv).                                        *)
(***************************************************************************)
EXTENDS TaskTrigger, FiniteSetTheorems, WellFoundedInduction, TLAPS

Holding == {"start", "own", "hand", "undo"}

TaskT == [status : Statuses, by : Holders, lease : {"none", "live", "over"},
          attempts : Nat, rounds : Nat, state : States]
RunT == [st : {"none", "live"} \cup Closed, task : Tasks, event : {"ready", "children"}, n : Nat, own : BOOLEAN]
TickT == [at : {"idle", "take", "ask", "release"} \cup Holding, task : Tasks,
          event : {"ready", "children"}, n : Nat, id : Ids \cup {0}, kids : [Kids -> Statuses], view : Views]

\* The variables, as far as the proofs need them.
Types ==
    /\ task \in [Tasks -> TaskT]
    /\ run \in [Ids -> RunT]
    /\ told \in [Ids -> {"no", "told"} \cup Views]
    /\ tick \in TickT
    /\ troubles \in Nat
    /\ tick.at \notin {"idle", "ask"} => tick.id \in Ids
    /\ tick.at = "hand" => tick.n \in Ids
    /\ tick.at \in {"start", "own", "undo"} => tick.n # 0

\* What the tick took is counted, and what is submitted has a try left.
Bounded(t) ==
    /\ task[t].attempts <= MaxAttempts
    /\ task[t].status = "submitted" => task[t].attempts < MaxAttempts
    /\ tick.task = t /\ tick.event = "ready" /\ tick.at \in {"start", "own", "undo"} => tick.n <= MaxAttempts
AttemptsInv == \A t \in Tasks \ loose : Bounded(t)

\* The end that is told, or that the tick found, is an end.
EndInv ==
    /\ \A i \in Ids : told[i] # "no" => Over(i)
    /\ tick.at = "release" => Over(tick.id)

\* The id of the run to come is nobody's yet: only the task it was taken for has it.
FreshInv ==
    tick.at \in {"take"} \cup Holding =>
        /\ tick.at # "undo" => run[tick.id].st = "none"
        /\ \A t \in Tasks : task[t].by = tick.id => t = tick.task /\ tick.at \in Holding

\* One run has a key.
KeyInv ==
    \A i, j \in Ids :
        /\ run[i].st # "none" /\ run[j].st # "none" /\ ~run[i].own /\ ~run[j].own
        /\ run[i].task = run[j].task /\ run[i].event = run[j].event /\ run[i].n = run[j].n
        => i = j

\* A task taken for a run to come stays so; one to give back may have its run by now.
TakenInv ==
    tick.task \notin loose =>
        /\ tick.at \in {"start", "own", "hand"} =>
              task[tick.task].by = tick.id /\ task[tick.task].status = "working"
        /\ tick.at = "undo" /\ run[tick.id].st # "none" =>
              /\ ~run[tick.id].own /\ run[tick.id].task = tick.task
              /\ run[tick.id].event = tick.event /\ run[tick.id].n = tick.n

\* Where a task is while a run of it is live: held by it,
HeldBy(i, t) == task[t].by = i /\ task[t].status \in {"working", "input-required", "review"}
\* done with by it,
DoneWith(t) == task[t].by = Nobody /\ task[t].status \in Closed \cup {"input-required", "review"}
\* given back by a start that failed with the run stored, to be taken under its key again,
GaveBack(i, t) ==
    /\ task[t].by = Nobody /\ ~run[i].own
    /\ \/ task[t].status = "submitted" /\ run[i].event = "ready" /\ run[i].n = task[t].attempts + 1
       \/ task[t].status = "working" /\ run[i].event = "children" /\ run[i].n = task[t].rounds + 1
\* taken again,
TakenAgain(i, t) ==
    /\ tick.task = t
    /\ \/ tick.at = "start" /\ Known(i)
       \/ tick.at = "hand" /\ tick.n = i
\* or held by a run that will never be.
Orphaned(t) ==
    /\ task[t].by \in Ids /\ task[t].status = "working" /\ run[task[t].by].st = "none"
    /\ ~(tick.at \in Holding /\ tick.id = task[t].by)

Where(i, t) == HeldBy(i, t) \/ DoneWith(t) \/ GaveBack(i, t) \/ TakenAgain(i, t) \/ Orphaned(t)
LiveInv == \A i \in Ids : run[i].st = "live" /\ run[i].task \notin loose => Where(i, run[i].task)

Inv == Types /\ AttemptsInv /\ EndInv /\ FreshInv /\ KeyInv /\ TakenInv /\ LiveInv /\ OneRunAtWork

-----------------------------------------------------------------------------
(* Values and helpers *)

LEMMA Names ==
    /\ Objective \in Tasks /\ Kids \subseteq Tasks
    /\ Nobody \notin Ids /\ Nobody \notin Agents /\ Agents \cap Ids = {}
    /\ Holders = Agents \cup Ids \cup {Nobody} /\ Ids \subseteq Nat /\ 0 \notin Ids
BY TasksAssumption, LimitsAssumption DEF Tasks, Holders

LEMMA NothingKnown == NoState \in States /\ NoKids \in [Kids -> Statuses]
BY DEF NoState, States, NoKids, Statuses

\* What is read of the sub-tasks, and the digest of it.
LEMMA StateOfChildren ==
    ASSUME NEW kids \in [Kids -> Statuses]
    PROVE  ChildrenState(kids) \in States
<1>1. AllClosed(kids) \in BOOLEAN /\ Calls(kids) \subseteq Kids
  BY DEF AllClosed, There, Calls
<1>2. ChildrenState(kids).all \in BOOLEAN /\ ChildrenState(kids).who \subseteq Kids \X Statuses
  BY <1>1 DEF ChildrenState
<1> QED BY <1>2 DEF ChildrenState, States

LEMMA SubTasksRead == ASSUME Types PROVE SubTasks \in [Kids -> Statuses]
BY Names DEF SubTasks, Types, TaskT

\* What askPerson makes of the objective.
LEMMA PersonAsked ==
    ASSUME AskPerson
    PROVE  IF task[tick.task].status = "working" /\ task[tick.task].by = Nobody
           THEN task' = [task EXCEPT ![tick.task] = [task[tick.task] EXCEPT !.status = "input-required",
                                                                           !.state = ChildrenState(tick.kids)]]
           ELSE task' = task
<1>1. CASE task[tick.task].status = "working" /\ task[tick.task].by = Nobody
  BY <1>1, AskPerson DEF AskPerson
<1>2. CASE ~(task[tick.task].status = "working" /\ task[tick.task].by = Nobody)
  BY <1>2, AskPerson DEF AskPerson
<1> QED BY <1>1, <1>2

LEMMA AView == ASSUME NEW t PROVE View(t) \in Views
BY DEF View, Views

\* There is a least id.
LEMMA TheNewId ==
    ASSUME FreeIds # {}
    PROVE  NewId \in FreeIds
<1>1. FreeIds \subseteq Nat
  BY Names DEF FreeIds
<1>2. IsWellFoundedOn(OpToRel(<, Nat), Nat)
  BY NatLessThanWellFounded
<1>3. PICK i \in FreeIds : \A j \in FreeIds : ~(<<j, i>> \in OpToRel(<, Nat))
  BY <1>1, <1>2, WFMin
<1>4. ASSUME NEW j \in FreeIds PROVE i <= j
  <2>1. i \in Nat /\ j \in Nat
    BY <1>1
  <2>2. ~(j < i)
    BY <1>3, <2>1 DEF OpToRel
  <2> QED BY <2>1, <2>2
<1> QED BY <1>4 DEF NewId

\* The state a task goes to when its run is over.
LEMMA StatusAfterRun ==
    ASSUME Types, NEW t \in Tasks, NEW i, NEW view
    PROVE  /\ AfterRun(t, i, view) \in Statuses
           /\ IsClosed(t) => AfterRun(t, i, view) = task[t].status
           /\ AfterRun(t, i, view) = "submitted" => ~(task[t].attempts >= MaxAttempts)
<1>1. task[t].status \in Statuses /\ task[t].attempts \in Nat
  BY DEF Types, TaskT
<1>2. CASE IsClosed(t) \/ task[t].status = "input-required"
  BY <1>1, <1>2 DEF AfterRun, IsClosed, Closed
<1>3. CASE task[t].status = "review"
  BY <1>1, <1>3 DEF AfterRun, IsClosed, Closed, Statuses
<1>4. CASE task[t].status \in {"none", "submitted", "working"}
  BY <1>1, <1>4 DEF AfterRun, IsClosed, Closed, Statuses
<1> QED BY <1>1, <1>2, <1>3, <1>4 DEF Statuses, IsClosed

\* What a task is taken to.
LEMMA TakenValues ==
    ASSUME NEW x \in TaskT, NEW h \in Holders, NEW s \in States,
           NEW lease \in {"none", "live"}
    PROVE  /\ [x EXCEPT !.status = "working", !.by = h, !.lease = lease, !.attempts = @ + 1] \in TaskT
           /\ [x EXCEPT !.by = h, !.lease = "none", !.rounds = @ + 1, !.state = s] \in TaskT
<1>1. x.attempts + 1 \in Nat /\ x.rounds + 1 \in Nat
  BY DEF TaskT
<1>2. "working" \in Statuses
  BY DEF Statuses
<1> QED BY <1>1, <1>2 DEF TaskT

\* What a person makes of a task.
LEMMA EditedValue ==
    ASSUME NEW x \in TaskT, NEW status \in Statuses, NEW n \in Nat
    PROVE  [x EXCEPT !.status = status, !.attempts = n] \in TaskT
BY DEF TaskT

-----------------------------------------------------------------------------
(* Types *)

\* Every step keeps the types.
LEMMA TypesStep ==
    ASSUME Inv, [Next]_vars
    PROVE  Types'
<1>1. ASSUME NEW t \in Tasks, NEW event \in {"ready", "children"}, Find(t, event) PROVE Types'
  <2> DEFINE found == [Idle EXCEPT !.task = t, !.event = event, !.kids = IF event = "children" THEN SubTasks ELSE @]
  <2>1. found \in TickT /\ Idle \in TickT
    BY Names, NothingKnown, SubTasksRead DEF Idle, TickT, Views, Inv
  <2>2. CASE tick' = [found EXCEPT !.at = "ask"]
    <3>1. tick' \in TickT /\ tick'.at = "ask"
      BY <2>1, <2>2 DEF TickT
    <3> QED BY <1>1, <3>1 DEF Find, Types, Inv, Holding
  <2>3. CASE FreeIds # {} /\ tick' = [found EXCEPT !.at = "take", !.id = NewId]
    <3>1. NewId \in Ids
      BY <2>3, TheNewId DEF FreeIds
    <3>2. tick' \in TickT /\ tick'.at = "take" /\ tick'.id \in Ids
      BY <2>1, <2>3, <3>1 DEF TickT
    <3> QED BY <1>1, <3>2 DEF Find, Types, Inv, Holding
  <2> QED BY <1>1, <2>2, <2>3 DEF Find
<1>2. ASSUME NEW t \in Tasks, FindGone(t) PROVE Types'
  <2>1. tick' \in TickT /\ tick'.at = "release" /\ tick'.id \in Ids
    BY <1>2, Names, NothingKnown, AView DEF FindGone, Idle, TickT
  <2> QED BY <1>2, <2>1 DEF FindGone, Types, Inv, Holding
<1>3. ASSUME NEW t \in Tasks, LeaseEnded(t) PROVE Types'
  <2> DEFINE v == [task[t] EXCEPT !.status = IF task[t].attempts >= MaxAttempts THEN "failed" ELSE "submitted",
                                  !.by = Nobody, !.lease = "none"]
  <2>1. task[t] \in TaskT
    BY <1>3 DEF Types, Inv
  <2>2. v \in TaskT
    BY <1>3, <2>1, Names, LimitsAssumption DEF TaskT, Statuses, Closed
  <2>3. task' \in [Tasks -> TaskT]
    BY <1>3, <2>2 DEF LeaseEnded, Types, Inv
  <2> QED BY <1>3, <2>3 DEF LeaseEnded, Types, Inv
<1>4. ASSUME NEW i \in Ids, StartFound(i) PROVE Types'
  <2>1. tick \in TickT /\ i \in Nat
    BY Names DEF Types, Inv
  <2>2. tick' \in TickT
    BY <1>4, <2>1 DEF StartFound, TickT, Holding
  <2>3. tick.id \in Ids /\ tick.n # 0
    BY <1>4 DEF StartFound, Types, Inv
  <2>4. tick'.id \in Ids /\ (tick'.at = "hand" => tick'.n \in Ids) /\ (tick'.at = "own" => tick'.n # 0)
        /\ tick'.at \in {"own", "hand"}
    BY <1>4, <2>1, <2>3 DEF StartFound, TickT
  <2> QED BY <1>4, <2>2, <2>4 DEF StartFound, Types, Inv
<1>5. ASSUME Take PROVE Types'
  <2>1. tick \in TickT /\ tick.id \in Ids /\ tick.task \in Tasks /\ ChildrenState(tick.kids) \in States
    BY <1>5, StateOfChildren DEF Take, Types, Inv, TickT
  <2>2. task[tick.task] \in TaskT /\ task[tick.task].attempts \in Nat /\ task[tick.task].rounds \in Nat
    BY <2>1 DEF Types, Inv, TaskT
  <2>3. Idle \in TickT /\ Idle.at = "idle"
    BY Names, NothingKnown DEF Idle, TickT, Views
  <2> DEFINE v == [task[tick.task] EXCEPT !.status = "working", !.by = tick.id, !.lease = "none",
                                          !.attempts = @ + 1]
             w == [task[tick.task] EXCEPT !.by = tick.id, !.lease = "none", !.rounds = @ + 1,
                                          !.state = ChildrenState(tick.kids)]
             n == IF tick.event = "ready" THEN task[tick.task].attempts + 1 ELSE task[tick.task].rounds + 1
  <2>4. v \in TaskT /\ w \in TaskT /\ n \in Nat /\ n # 0
    <3>1. tick.id \in Holders
      BY <2>1, Names
    <3>2. v \in TaskT /\ w \in TaskT
      BY <2>1, <2>2, <3>1, TakenValues
    <3>3. n \in Nat /\ n # 0
      BY <2>2
    <3> QED BY <3>2, <3>3
  <2>5. \/ tick' = Idle /\ UNCHANGED task
        \/ /\ task' = [task EXCEPT ![tick.task] = v] \/ task' = [task EXCEPT ![tick.task] = w]
           /\ tick' = [tick EXCEPT !.at = "start", !.n = n]
    BY <1>5 DEF Take
  <2> HIDE DEF v, w, n
  <2>6. CASE tick' = Idle /\ UNCHANGED task
    BY <1>5, <2>3, <2>6 DEF Take, Types, Inv
  <2>7. CASE ~(tick' = Idle /\ UNCHANGED task)
    <3>1. task' \in [Tasks -> TaskT]
      BY <2>4, <2>5, <2>7 DEF Types, Inv
    <3>2. tick' \in TickT /\ tick'.id = tick.id /\ tick'.at = "start" /\ tick'.n # 0
      BY <2>1, <2>4, <2>5, <2>7 DEF TickT, Holding
    <3> QED BY <1>5, <2>1, <3>1, <3>2 DEF Take, Types, Inv
  <2> QED BY <2>6, <2>7
<1>6. ASSUME StartNew PROVE Types'
  <2>1. tick \in TickT /\ tick.id \in Ids
    BY <1>6 DEF StartNew, Types, Inv
  <2>2. Idle \in TickT /\ Idle.at = "idle"
    BY Names, NothingKnown DEF Idle, TickT, Views
  <2>3. run' \in [Ids -> RunT]
    BY <1>6, <2>1 DEF StartNew, Stored, Types, Inv, RunT, TickT
  <2> QED BY <1>6, <2>2, <2>3 DEF StartNew, Types, Inv
<1>7. ASSUME StartOwn PROVE Types'
  <2>1. tick \in TickT /\ tick.id \in Ids
    BY <1>7 DEF StartOwn, Types, Inv
  <2>2. Idle \in TickT /\ Idle.at = "idle"
    BY Names, NothingKnown DEF Idle, TickT, Views
  <2>3. run' \in [Ids -> RunT]
    BY <1>7, <2>1 DEF StartOwn, Stored, Types, Inv, RunT, TickT
  <2> QED BY <1>7, <2>2, <2>3 DEF StartOwn, Types, Inv
<1>8. ASSUME StartFails PROVE Types'
  <2>1. tick \in TickT /\ tick.id \in Ids /\ tick.n # 0
    BY <1>8 DEF StartFails, Types, Inv
  <2>2. tick' \in TickT /\ tick'.id = tick.id /\ tick'.at = "undo" /\ tick'.n # 0
    BY <1>8, <2>1 DEF StartFails, TickT, Holding
  <2>3. run' \in [Ids -> RunT]
    <3>1. CASE UNCHANGED run
      BY <3>1 DEF Types, Inv
    <3>2. CASE Stored(tick.at = "own")
      BY <2>1, <3>2 DEF Stored, Types, Inv, RunT, TickT
    <3> QED BY <1>8, <3>1, <3>2 DEF StartFails
  <2> QED BY <1>8, <2>1, <2>2, <2>3 DEF StartFails, Trouble, Types, Inv
<1>9. ASSUME Hand PROVE Types'
  <2>1. tick \in TickT /\ tick.task \in Tasks
    BY DEF Types, Inv, TickT
  <2>2. task[tick.task] \in TaskT
    BY <2>1 DEF Types, Inv
  <2>3. Idle \in TickT /\ Idle.at = "idle"
    BY Names, NothingKnown DEF Idle, TickT, Views
  <2>4. task' \in [Tasks -> TaskT]
    BY <1>9, <2>1, <2>2, Names, NothingKnown DEF Hand, Types, Inv, TaskT, TickT, Statuses
  <2> QED BY <1>9, <2>3, <2>4 DEF Hand, Types, Inv
<1>10. ASSUME Undo PROVE Types'
  <2>1. tick \in TickT /\ tick.task \in Tasks /\ tick.n \in Nat /\ tick.n # 0
    BY <1>10 DEF Undo, Types, Inv, TickT
  <2>2. task[tick.task] \in TaskT
    BY <2>1 DEF Types, Inv
  <2>3. Idle \in TickT /\ Idle.at = "idle"
    BY Names, NothingKnown DEF Idle, TickT, Views
  <2> DEFINE v == [task[tick.task] EXCEPT !.status = "submitted", !.attempts = tick.n - 1, !.by = Nobody,
                                          !.state = NoState]
             w == [task[tick.task] EXCEPT !.rounds = tick.n - 1, !.by = Nobody, !.state = NoState]
  <2>4. tick.n - 1 \in Nat
    BY <2>1
  <2>5. v \in TaskT /\ w \in TaskT
    BY <2>2, <2>4, Names, NothingKnown DEF TaskT, Statuses
  <2>6. task' \in {task, [task EXCEPT ![tick.task] = v], [task EXCEPT ![tick.task] = w]}
    BY <1>10 DEF Undo
  <2> HIDE DEF v, w
  <2>7. task' \in [Tasks -> TaskT]
    BY <2>5, <2>6 DEF Types, Inv
  <2> QED BY <1>10, <2>3, <2>7 DEF Undo, Types, Inv
<1>11. ASSUME AskPerson PROVE Types'
  <2>1. tick \in TickT /\ tick.task \in Tasks
    BY DEF Types, Inv, TickT
  <2>2. task[tick.task] \in TaskT /\ ChildrenState(tick.kids) \in States
    BY <2>1, StateOfChildren DEF Types, Inv, TickT
  <2>3. Idle \in TickT /\ Idle.at = "idle"
    BY Names, NothingKnown DEF Idle, TickT, Views
  <2>4. task' \in [Tasks -> TaskT]
    <3> DEFINE x == [task[tick.task] EXCEPT !.status = "input-required", !.state = ChildrenState(tick.kids)]
    <3>1. x \in TaskT
      BY <2>2 DEF TaskT, Statuses
    <3>2. task' = task \/ task' = [task EXCEPT ![tick.task] = x]
      BY <1>11, PersonAsked
    <3> HIDE DEF x
    <3> QED BY <3>1, <3>2 DEF Types, Inv
  <2> QED BY <1>11, <2>3, <2>4 DEF AskPerson, Types, Inv
<1>12. ASSUME Release PROVE Types'
  <2>1. tick \in TickT /\ tick.task \in Tasks
    BY DEF Types, Inv, TickT
  <2>2. task[tick.task] \in TaskT /\ AfterRun(tick.task, tick.id, tick.view) \in Statuses
    BY <2>1, StatusAfterRun DEF Types, Inv
  <2>3. Idle \in TickT /\ Idle.at = "idle"
    BY Names, NothingKnown DEF Idle, TickT, Views
  <2>4. task' \in [Tasks -> TaskT]
    BY <1>12, <2>1, <2>2, Names DEF Release, GivenBack, Types, Inv, TaskT
  <2> QED BY <1>12, <2>3, <2>4 DEF Release, Types, Inv
<1>13. ASSUME NEW i \in Ids, ToldReads(i) PROVE Types'
  <2>1. told' \in [Ids -> {"no", "told"} \cup Views]
    BY <1>13, AView DEF ToldReads, Types, Inv
  <2> QED BY <1>13, <2>1 DEF ToldReads, Types, Inv
<1>14. ASSUME NEW i \in Ids, ToldGives(i) PROVE Types'
  <2>1. run[i].task \in Tasks
    BY DEF Types, Inv, RunT
  <2>2. task[run[i].task] \in TaskT /\ AfterRun(run[i].task, i, told[i]) \in Statuses
    BY <2>1, StatusAfterRun DEF Types, Inv
  <2>3. task' \in [Tasks -> TaskT]
    BY <1>14, <2>1, <2>2, Names DEF ToldGives, GivenBack, Types, Inv, TaskT
  <2>4. told' \in [Ids -> {"no", "told"} \cup Views]
    BY <1>14 DEF ToldGives, Types, Inv
  <2> QED BY <1>14, <2>3, <2>4 DEF ToldGives, Types, Inv
<1>15. ASSUME NEW i \in Ids, NEW k \in Kids, Split(i, k) PROVE Types'
  <2>1. New("submitted") \in TaskT
    BY Names, NothingKnown DEF New, TaskT, Statuses
  <2> QED BY <1>15, <2>1, Names DEF Split, Types, Inv
<1>16. ASSUME NEW i \in Ids, NEW st \in Endings, RunEnds(i, st) PROVE Types'
  <2>1. st \in Closed
    BY LimitsAssumption DEF Closed
  <2>2. run' \in [Ids -> RunT]
    BY <1>16, <2>1 DEF RunEnds, Types, Inv, RunT
  <2>3. told' \in [Ids -> {"no", "told"} \cup Views]
    BY <1>16 DEF RunEnds, Types, Inv
  <2> QED BY <1>16, <2>2, <2>3 DEF RunEnds, Types, Inv
<1>17. ASSUME NEW t \in Tasks, NEW h \in Agents \cup Ids, NEW to \in Statuses, Move(h, t, to) PROVE Types'
  <2> DEFINE v == IF to = "submitted" THEN [task[t] EXCEPT !.status = to, !.by = Nobody, !.lease = "none"]
                  ELSE [task[t] EXCEPT !.status = to]
  <2>1. task[t] \in TaskT
    BY <1>17 DEF Types, Inv
  <2>2. v \in TaskT
    BY <1>17, <2>1, Names, LimitsAssumption DEF TaskT, Statuses, Closed
  <2>3. task' \in [Tasks -> TaskT]
    BY <1>17, <2>2 DEF Move, Types, Inv
  <2> QED BY <1>17, <2>3 DEF Move, Types, Inv
<1>18. ASSUME NEW t \in Tasks, NEW h \in Agents \cup Ids, NEW to \in Statuses, Complete(h, t, to) PROVE Types'
  <2> DEFINE v == [task[t] EXCEPT !.status = to, !.by = Nobody, !.lease = "none"]
  <2>1. task[t] \in TaskT
    BY <1>18 DEF Types, Inv
  <2>2. v \in TaskT
    BY <1>18, <2>1, Names, LimitsAssumption DEF TaskT, Statuses, Closed
  <2>3. task' \in [Tasks -> TaskT]
    BY <1>18, <2>2 DEF Complete, Types, Inv
  <2> QED BY <1>18, <2>3 DEF Complete, Types, Inv
<1>19. ASSUME NEW t \in Tasks, NEW a \in Agents, Claim(a, t) PROVE Types'
  <2> DEFINE v == [task[t] EXCEPT !.status = "working", !.by = a, !.lease = "live", !.attempts = @ + 1]
  <2>1. task[t] \in TaskT /\ a \in Holders /\ NoState \in States
    BY Names, NothingKnown DEF Types, Inv
  <2>2. v \in TaskT
    BY <2>1, TakenValues
  <2>3. task' = [task EXCEPT ![t] = v]
    BY <1>19 DEF Claim
  <2> HIDE DEF v
  <2>4. task' \in [Tasks -> TaskT]
    BY <2>2, <2>3 DEF Types, Inv
  <2> QED BY <1>19, <2>4 DEF Claim, Trouble, Types, Inv
<1>20. ASSUME NEW t \in Tasks, NEW a \in Agents, Heartbeat(a, t) PROVE Types'
  <2>1. task' \in [Tasks -> TaskT]
    BY <1>20, Names, LimitsAssumption DEF Heartbeat, Types, Inv, TaskT, Statuses, Closed
  <2> QED BY <1>20, <2>1 DEF Heartbeat, Types, Inv
<1>21. ASSUME NEW t \in Tasks, LeaseRunsOut(t) PROVE Types'
  <2>1. task' \in [Tasks -> TaskT]
    BY <1>21, Names, LimitsAssumption DEF LeaseRunsOut, Types, Inv, TaskT, Statuses, Closed
  <2> QED BY <1>21, <2>1 DEF LeaseRunsOut, Types, Inv
<1>22. ASSUME NEW t \in Tasks, NEW to \in {"submitted", "canceled"}, Person(t, to) PROVE Types'
  <2>1. PICK n \in {0, task[t].attempts} : task' = [task EXCEPT ![t] = [@ EXCEPT !.status = to, !.attempts = n]]
    BY <1>22 DEF Person
  <2> DEFINE v == [task[t] EXCEPT !.status = to, !.attempts = n]
  <2>2. task[t] \in TaskT /\ task[t].attempts \in Nat
    BY DEF Types, Inv, TaskT
  <2>3. v \in TaskT
    BY <2>2, EditedValue DEF Statuses, Closed
  <2>4. task' = [task EXCEPT ![t] = v]
    BY <2>1
  <2> HIDE DEF v
  <2>5. task' \in [Tasks -> TaskT]
    BY <2>3, <2>4 DEF Types, Inv
  <2> QED BY <1>22, <2>5 DEF Person, Trouble, Types, Inv
<1>23. ASSUME Crash PROVE Types'
  <2>1. Idle \in TickT /\ Idle.at = "idle"
    BY Names, NothingKnown DEF Idle, TickT, Views
  <2> QED BY <1>23, <2>1 DEF Crash, Trouble, Types, Inv
<1>24. ASSUME UNCHANGED vars PROVE Types'
  BY <1>24 DEF vars, Inv, Types
<1> QED BY <1>1, <1>2, <1>3, <1>4, <1>5, <1>6, <1>7, <1>8, <1>9, <1>10, <1>11, <1>12, <1>13, <1>14, <1>15,
           <1>16, <1>17, <1>18, <1>19, <1>20, <1>21, <1>22, <1>23, <1>24 DEF Next, Tick

-----------------------------------------------------------------------------
(* What a step does *)

\* The fields of task t that say who has it, as they were.
Kept(t) ==
    /\ task'[t].status = task[t].status /\ task'[t].by = task[t].by
    /\ task'[t].attempts = task[t].attempts /\ task'[t].rounds = task[t].rounds

\* The coordinator just made t.
Made(t) ==
    /\ task[t].status = "none"
    /\ task'[t].status = "submitted" /\ task'[t].by = Nobody /\ task'[t].attempts = 0

\* One that holds no more gives t back.
GivenUp(t) ==
    /\ task[t].by \in Agents \/ (task[t].by \in Ids /\ Over(task[t].by))
    /\ task'[t].by = Nobody /\ task'[t].attempts = task[t].attempts
    /\ task'[t].status = "submitted" => task[t].attempts < MaxAttempts
    /\ task[t].by \in Agents => task[t].lease = "over"

\* Its holder moves it on, or closes it.
Moved(t) ==
    /\ task[t].by \in Agents \/ (task[t].by \in Ids /\ run[task[t].by].st = "live")
    /\ task'[t].attempts = task[t].attempts
    /\ \/ task'[t].by = task[t].by /\ task'[t].status \in {"working", "input-required", "review"}
       \/ task'[t].by = Nobody /\ task'[t].status \in Closed

\* A step of anybody but the task loop that changes the note of t.
Edited(t) ==
    /\ run' = run /\ tick' = tick /\ loose \subseteq loose'
    /\ \A u \in Tasks \ {t} : task'[u] = task[u]
    /\ task'[t].by \in {task[t].by, Nobody} \cup Agents
    /\ t \in loose' \/ Kept(t) \/ Made(t) \/ GivenUp(t) \/ Moved(t)

LEMMA LeaseEndedEdits ==
    ASSUME Types, NEW t \in Tasks, LeaseEnded(t)
    PROVE  Edited(t)
<1>1. task[t] \in TaskT /\ task \in [Tasks -> TaskT] /\ MaxAttempts \in Nat
  BY LimitsAssumption DEF Types
<1>2. GivenUp(t) /\ task'[t].by = Nobody
  <2>1. task[t].by \in Agents /\ task[t].lease = "over"
    BY LeaseEnded(t) DEF LeaseEnded
  <2>2. /\ task'[t].by = Nobody /\ task'[t].attempts = task[t].attempts
        /\ task'[t].status = IF task[t].attempts >= MaxAttempts THEN "failed" ELSE "submitted"
    BY <1>1, LeaseEnded(t) DEF LeaseEnded, TaskT
  <2>3. task[t].attempts \in Nat
    BY <1>1 DEF TaskT
  <2> QED BY <1>1, <2>1, <2>2, <2>3 DEF GivenUp
<1>3. run' = run /\ tick' = tick /\ loose' = loose /\ \A u \in Tasks \ {t} : task'[u] = task[u]
  BY <1>1, LeaseEnded(t) DEF LeaseEnded
<1> QED BY <1>2, <1>3 DEF Edited

LEMMA ToldGivesEdits ==
    ASSUME Types, EndInv, NEW i \in Ids, ToldGives(i)
    PROVE  Edited(run[i].task)
<1> DEFINE t == run[i].task
<1>1. t \in Tasks /\ task[t] \in TaskT /\ task \in [Tasks -> TaskT]
  BY DEF Types, RunT
<1>2. told[i] # "no"
  BY ToldGives(i) DEF ToldGives, Views
<1>3. Over(i)
  BY <1>2 DEF EndInv
<1>4. run' = run /\ tick' = tick /\ loose' = loose /\ \A u \in Tasks \ {t} : task'[u] = task[u]
  BY <1>1, ToldGives(i) DEF ToldGives, GivenBack
<1>5. CASE task[t].by # i
  <2>1. Kept(t) /\ task'[t].by = task[t].by
    BY <1>5, ToldGives(i) DEF ToldGives, GivenBack, Kept
  <2> QED BY <1>4, <2>1 DEF Edited
<1>6. CASE task[t].by = i
  <2> DEFINE s == AfterRun(t, i, told[i])
  <2>1. s = "submitted" => ~(task[t].attempts >= MaxAttempts)
    BY <1>1, StatusAfterRun
  <2>2. task'[t].status = s /\ task'[t].by = Nobody /\ task'[t].attempts = task[t].attempts
    BY <1>1, <1>6, ToldGives(i) DEF ToldGives, GivenBack, TaskT
  <2>3. s = "submitted" => task[t].attempts < MaxAttempts
    BY <1>1, <2>1, LimitsAssumption DEF TaskT
  <2>4. GivenUp(t)
    BY <1>3, <1>6, <2>2, <2>3, Names DEF GivenUp
  <2> QED BY <1>4, <2>2, <2>4 DEF Edited
<1> QED BY <1>5, <1>6

LEMMA MoveEdits ==
    ASSUME Types, NEW t \in Tasks, NEW h \in Agents \cup Ids, NEW to \in Statuses, Move(h, t, to)
    PROVE  Edited(t)
<1>1. task[t] \in TaskT /\ task \in [Tasks -> TaskT]
  BY DEF Types
<1>2. run' = run /\ tick' = tick /\ loose \subseteq loose' /\ \A u \in Tasks \ {t} : task'[u] = task[u]
  BY <1>1, Move(h, t, to) DEF Move
<1>3. CASE to = "submitted"
  <2>1. t \in loose' /\ task'[t].by = Nobody
    BY <1>1, <1>3, Move(h, t, to) DEF Move, TaskT
  <2> QED BY <1>2, <2>1 DEF Edited
<1>4. CASE to # "submitted"
  <2>1. task'[t].by = task[t].by /\ task'[t].status \in {"working", "input-required", "review"}
        /\ task'[t].attempts = task[t].attempts
    BY <1>1, <1>4, Move(h, t, to) DEF Move, TaskT
  <2>2. task[t].by \in Agents \/ (task[t].by \in Ids /\ run[task[t].by].st = "live")
    <3>1. task[t].by = h /\ (h \in Ids => run[h].st = "live")
      BY Move(h, t, to) DEF Move
    <3>2. run[h] = run[task[t].by]
      BY <3>1
    <3> QED BY <3>1, <3>2
  <2> QED BY <1>2, <2>1, <2>2 DEF Edited, Moved
<1> QED BY <1>3, <1>4

LEMMA CompleteEdits ==
    ASSUME Types, NEW t \in Tasks, NEW h \in Agents \cup Ids, NEW to \in Statuses, Complete(h, t, to)
    PROVE  Edited(t)
<1>1. task[t] \in TaskT /\ task \in [Tasks -> TaskT]
  BY DEF Types
<1>2. run' = run /\ tick' = tick /\ loose \subseteq loose' /\ \A u \in Tasks \ {t} : task'[u] = task[u]
  BY <1>1, Complete(h, t, to) DEF Complete
<1>3. to \in Closed
  BY Complete(h, t, to), LimitsAssumption DEF Complete, Closed
<1>4. task'[t].by = Nobody /\ task'[t].status \in Closed /\ task'[t].attempts = task[t].attempts
  BY <1>1, <1>3, Complete(h, t, to) DEF Complete, TaskT
<1>5. task[t].by \in Agents \/ (task[t].by \in Ids /\ run[task[t].by].st = "live")
  <2>1. task[t].by = h /\ (h \in Ids => run[h].st = "live")
    BY Complete(h, t, to) DEF Complete
  <2>2. run[h] = run[task[t].by]
    BY <2>1
  <2> QED BY <2>1, <2>2
<1> QED BY <1>2, <1>4, <1>5 DEF Edited, Moved

\* The coordinator's split, the agents, time and the persons.
LEMMA OthersEdit ==
    ASSUME Types, NEW t \in Tasks,
           \/ \E i \in Ids : t \in Kids /\ Split(i, t)
           \/ \E a \in Agents : Claim(a, t) \/ Heartbeat(a, t)
           \/ LeaseRunsOut(t)
           \/ \E to \in {"submitted", "canceled"} : Person(t, to)
    PROVE  Edited(t)
<1>1. task[t] \in TaskT /\ task \in [Tasks -> TaskT]
  BY DEF Types
<1>2. ASSUME NEW i \in Ids, t \in Kids, Split(i, t) PROVE Edited(t)
  <2>1. task'[t] = New("submitted") /\ \A u \in Tasks \ {t} : task'[u] = task[u]
    BY <1>1, <1>2 DEF Split
  <2>2. Made(t)
    BY <1>2, <2>1 DEF Split, Made, New
  <2> QED BY <1>2, <2>1, <2>2 DEF Split, Edited, Made
<1>3. ASSUME NEW a \in Agents, Claim(a, t) PROVE Edited(t)
  <2>1. task'[t].by = a /\ \A u \in Tasks \ {t} : task'[u] = task[u]
    BY <1>1, <1>3 DEF Claim, TaskT
  <2> QED BY <1>3, <2>1 DEF Claim, Edited
<1>4. ASSUME NEW a \in Agents, Heartbeat(a, t) PROVE Edited(t)
  <2>1. Kept(t) /\ task'[t].by = task[t].by /\ \A u \in Tasks \ {t} : task'[u] = task[u]
    BY <1>1, <1>4 DEF Heartbeat, Kept, TaskT
  <2> QED BY <1>4, <2>1 DEF Heartbeat, Edited
<1>5. ASSUME LeaseRunsOut(t) PROVE Edited(t)
  <2>1. Kept(t) /\ task'[t].by = task[t].by /\ \A u \in Tasks \ {t} : task'[u] = task[u]
    BY <1>1, <1>5 DEF LeaseRunsOut, Kept, TaskT
  <2> QED BY <1>5, <2>1 DEF LeaseRunsOut, Edited
<1>6. ASSUME NEW to \in {"submitted", "canceled"}, Person(t, to) PROVE Edited(t)
  <2>1. PICK n \in {0, task[t].attempts} : task' = [task EXCEPT ![t] = [@ EXCEPT !.status = to, !.attempts = n]]
    BY <1>6 DEF Person
  <2>2. task'[t].by = task[t].by /\ \A u \in Tasks \ {t} : task'[u] = task[u]
    BY <1>1, <2>1 DEF TaskT
  <2> QED BY <1>6, <2>2 DEF Person, Edited
<1> QED BY <1>2, <1>3, <1>4, <1>5, <1>6

\* The task loop looks, and finds what to do.
Looked ==
    /\ run' = run /\ task' = task /\ loose' = loose
    /\ tick.at = "idle" /\ tick'.at \in {"take", "ask", "release"}
    /\ tick'.at = "take" => tick'.id \in FreeIds
    /\ tick'.at = "release" => Over(tick'.id)

\* It finds the key's run.
Found(i) ==
    /\ run' = run /\ task' = task /\ loose' = loose
    /\ tick.at = "start" /\ Known(i)
    /\ tick'.task = tick.task /\ tick'.event = tick.event /\ tick'.id = tick.id
    /\ \/ Over(i) /\ tick'.at = "own" /\ tick'.n = tick.n
       \/ ~Over(i) /\ tick'.at = "hand" /\ tick'.n = i

\* It takes the task, or leaves it.
Took ==
    /\ run' = run /\ loose' = loose
    /\ tick.at = "take" /\ tick.task \in Tasks
    /\ \A u \in Tasks \ {tick.task} : task'[u] = task[u]
    /\ \/ tick'.at = "idle" /\ task' = task
       \/ /\ tick'.at = "start" /\ tick'.task = tick.task /\ tick'.event = tick.event /\ tick'.id = tick.id
          /\ task'[tick.task].by = tick.id /\ task'[tick.task].status = "working"
          /\ \/ /\ tick.event = "ready" /\ task[tick.task].status = "submitted"
                /\ tick'.n = task[tick.task].attempts + 1 /\ task'[tick.task].attempts = tick'.n
             \/ /\ tick.event = "children" /\ tick'.n = task[tick.task].rounds + 1
                /\ task[tick.task].status = "working" /\ task[tick.task].by = Nobody
                /\ task'[tick.task].attempts = task[tick.task].attempts

\* It starts the run: stored, or not.
Began ==
    /\ task' = task /\ loose \subseteq loose'
    /\ tick.at \in {"start", "own"} /\ tick.task \in Tasks
    /\ tick.at = "start" => ~\E i \in Ids : Known(i)
    /\ Stored(tick.at = "own") \/ (run' = run /\ tick'.at = "undo")
    /\ \/ tick'.at = "idle"
       \/ /\ tick'.at = "undo" /\ tick'.task = tick.task /\ tick'.event = tick.event
          /\ tick'.n = tick.n /\ tick'.id = tick.id
          /\ tick.at = "own" => tick.task \in loose'

\* What it ends with: the key's run has the task,
Handed ==
    /\ tick.at = "hand" /\ task[tick.task].by = tick.id
    /\ task'[tick.task].by = tick.n /\ task'[tick.task].status = task[tick.task].status
    /\ task'[tick.task].attempts = task[tick.task].attempts

\* the task goes back as it was,
PutBack ==
    /\ tick.at = "undo" /\ task[tick.task].by = tick.id
    /\ task'[tick.task].by = Nobody
    /\ \/ /\ tick.event = "ready" /\ task'[tick.task].status = "submitted"
          /\ task'[tick.task].attempts = tick.n - 1
       \/ /\ tick.event = "children" /\ task'[tick.task].status = task[tick.task].status
          /\ task'[tick.task].attempts = task[tick.task].attempts /\ task'[tick.task].rounds = tick.n - 1

\* or a person is asked.
Asked ==
    /\ tick.at = "ask" /\ task[tick.task].status = "working" /\ task[tick.task].by = Nobody
    /\ task'[tick.task].by = Nobody /\ task'[tick.task].status = "input-required"
    /\ task'[tick.task].attempts = task[tick.task].attempts

Done ==
    /\ run' = run /\ loose' = loose
    /\ tick.at \in {"hand", "undo", "ask", "release"} /\ tick'.at = "idle" /\ tick.task \in Tasks
    /\ \A u \in Tasks \ {tick.task} : task'[u] = task[u]
    /\ \/ Kept(tick.task) /\ (tick.at = "hand" => task[tick.task].by # tick.id)
       \/ Handed \/ PutBack \/ Asked
       \/ tick.at = "release" /\ GivenUp(tick.task)

\* Run i ends.
Ended(i) ==
    /\ task' = task /\ tick' = tick /\ loose' = loose
    /\ run[i].st = "live" /\ run'[i].st \in Closed
    /\ \A j \in Ids \ {i} : run'[j] = run[j]
    /\ run'[i].task = run[i].task /\ run'[i].event = run[i].event
    /\ run'[i].n = run[i].n /\ run'[i].own = run[i].own

Crashed == task' = task /\ run' = run /\ loose' = loose /\ tick'.at = "idle"

LEMMA FindLooks ==
    ASSUME Types, NEW t \in Tasks, NEW event \in {"ready", "children"}, Find(t, event)
    PROVE  Looked
<1>1. tick.at = "idle"
  BY Find(t, event) DEF Find, Idle
<1>2. tick'.at \in {"take", "ask"} /\ (tick'.at = "take" => tick'.id = NewId /\ FreeIds # {})
  BY Find(t, event) DEF Find, Idle
<1> QED BY <1>1, <1>2, TheNewId, Find(t, event) DEF Find, Looked

LEMMA FindGoneLooks ==
    ASSUME Types, NEW t \in Tasks, FindGone(t)
    PROVE  Looked
BY FindGone(t) DEF FindGone, Idle, Looked

LEMMA StartFoundFinds ==
    ASSUME Types, NEW i \in Ids, StartFound(i)
    PROVE  Found(i)
<1>1. tick \in TickT
  BY DEF Types
<1>2. CASE Over(i)
  BY <1>1, <1>2, StartFound(i) DEF StartFound, Found, TickT
<1>3. CASE ~Over(i)
  BY <1>1, <1>3, StartFound(i) DEF StartFound, Found, TickT
<1> QED BY <1>2, <1>3

LEMMA TakeTakes ==
    ASSUME Types, Take
    PROVE  Took
<1> DEFINE t == tick.task
<1>1. tick \in TickT /\ t \in Tasks /\ task[t] \in TaskT /\ task \in [Tasks -> TaskT]
      /\ tick.event \in {"ready", "children"}
  BY DEF Types, TickT
<1>2. \A u \in Tasks \ {t} : task'[u] = task[u]
  BY <1>1, Take DEF Take
<1>3. CASE tick' = Idle /\ task' = task
  BY <1>1, <1>2, <1>3, Take DEF Take, Took, Idle
<1>4. CASE ~(tick' = Idle /\ task' = task)
  <2>1. CASE tick.event = "ready"
    <3>1. /\ task[t].status = "submitted"
          /\ task' = [task EXCEPT ![t] = [task[t] EXCEPT !.status = "working", !.by = tick.id, !.lease = "none",
                                                         !.attempts = task[t].attempts + 1]]
          /\ tick' = [tick EXCEPT !.at = "start", !.n = task[t].attempts + 1]
      BY <1>4, <2>1, Take DEF Take
    <3>2. task'[t].by = tick.id /\ task'[t].status = "working" /\ task'[t].attempts = task[t].attempts + 1
      BY <1>1, <3>1 DEF TaskT
    <3>3. tick'.at = "start" /\ tick'.task = t /\ tick'.event = tick.event /\ tick'.id = tick.id
          /\ tick'.n = task[t].attempts + 1
      BY <1>1, <3>1 DEF TickT
    <3> QED BY <1>1, <1>2, <2>1, <3>1, <3>2, <3>3, Take DEF Take, Took
  <2>2. CASE tick.event = "children"
    <3>1. /\ task[t].status = "working" /\ task[t].by = Nobody
          /\ task' = [task EXCEPT ![t] = [task[t] EXCEPT !.by = tick.id, !.lease = "none",
                                                         !.rounds = task[t].rounds + 1,
                                                         !.state = ChildrenState(tick.kids)]]
          /\ tick' = [tick EXCEPT !.at = "start", !.n = task[t].rounds + 1]
      BY <1>4, <2>2, Take DEF Take
    <3>2. task'[t].by = tick.id /\ task'[t].status = "working" /\ task'[t].attempts = task[t].attempts
      BY <1>1, <3>1 DEF TaskT
    <3>3. tick'.at = "start" /\ tick'.task = t /\ tick'.event = tick.event /\ tick'.id = tick.id
          /\ tick'.n = task[t].rounds + 1
      BY <1>1, <3>1 DEF TickT
    <3> QED BY <1>1, <1>2, <2>2, <3>1, <3>2, <3>3, Take DEF Take, Took
  <2> QED BY <1>1, <2>1, <2>2
<1> QED BY <1>3, <1>4

LEMMA StartBegins ==
    ASSUME Types, StartNew \/ StartOwn \/ StartFails
    PROVE  Began
<1>1. tick \in TickT /\ tick.task \in Tasks
  BY DEF Types, TickT
<1>2. CASE StartNew
  BY <1>1, <1>2 DEF StartNew, Began, Idle
<1>3. CASE StartOwn
  BY <1>1, <1>3 DEF StartOwn, Began, Idle
<1>4. CASE StartFails
  <2>1. tick'.at = "undo" /\ tick'.task = tick.task /\ tick'.event = tick.event /\ tick'.n = tick.n
        /\ tick'.id = tick.id
    BY <1>1, <1>4 DEF StartFails, TickT
  <2> QED BY <1>1, <1>4, <2>1 DEF StartFails, Began
<1> QED BY <1>2, <1>3, <1>4

LEMMA HandEnds ==
    ASSUME Types, Hand
    PROVE  Done
<1>1. tick.task \in Tasks /\ task[tick.task] \in TaskT /\ task \in [Tasks -> TaskT]
  BY DEF Types, TickT
<1>2. tick'.at = "idle" /\ \A u \in Tasks \ {tick.task} : task'[u] = task[u]
  BY <1>1, Hand DEF Hand, Idle
<1>3. CASE task[tick.task].by = tick.id
  <2>1. Handed
    BY <1>1, <1>3, Hand DEF Hand, Handed, TaskT
  <2> QED BY <1>1, <1>2, <2>1, Hand DEF Hand, Done
<1>4. CASE task[tick.task].by # tick.id
  <2>1. Kept(tick.task)
    BY <1>4, Hand DEF Hand, Kept
  <2> QED BY <1>1, <1>2, <1>4, <2>1, Hand DEF Hand, Done
<1> QED BY <1>3, <1>4

LEMMA UndoEnds ==
    ASSUME Types, Undo
    PROVE  Done
<1>1. tick.task \in Tasks /\ task[tick.task] \in TaskT /\ task \in [Tasks -> TaskT]
      /\ tick.event \in {"ready", "children"}
  BY DEF Types, TickT
<1>2. tick'.at = "idle" /\ \A u \in Tasks \ {tick.task} : task'[u] = task[u]
  BY <1>1, Undo DEF Undo, Idle
<1>3. CASE task[tick.task].by = tick.id /\ tick.event = "ready"
  <2>1. task' = [task EXCEPT ![tick.task] =
            [task[tick.task] EXCEPT !.status = "submitted", !.attempts = tick.n - 1, !.by = Nobody,
                                    !.state = NoState]]
    BY <1>3, Undo DEF Undo
  <2>2. PutBack
    BY <1>1, <1>3, <2>1, Undo DEF Undo, PutBack, TaskT
  <2> QED BY <1>1, <1>2, <2>2, Undo DEF Undo, Done
<1>4. CASE task[tick.task].by = tick.id /\ tick.event = "children"
  <2>1. task' = [task EXCEPT ![tick.task] =
            [task[tick.task] EXCEPT !.rounds = tick.n - 1, !.by = Nobody, !.state = NoState]]
    BY <1>4, Undo DEF Undo
  <2>2. PutBack
    BY <1>1, <1>4, <2>1, Undo DEF Undo, PutBack, TaskT
  <2> QED BY <1>1, <1>2, <2>2, Undo DEF Undo, Done
<1>5. CASE task[tick.task].by # tick.id
  <2>1. Kept(tick.task)
    BY <1>5, Undo DEF Undo, Kept
  <2> QED BY <1>1, <1>2, <2>1, Undo DEF Undo, Done
<1> QED BY <1>1, <1>3, <1>4, <1>5

LEMMA AskPersonEnds ==
    ASSUME Types, AskPerson
    PROVE  Done
<1>1. tick.task \in Tasks /\ task[tick.task] \in TaskT /\ task \in [Tasks -> TaskT]
  BY DEF Types, TickT
<1>2. tick'.at = "idle" /\ \A u \in Tasks \ {tick.task} : task'[u] = task[u]
  BY <1>1, AskPerson DEF AskPerson, Idle
<1>3. CASE task[tick.task].status = "working" /\ task[tick.task].by = Nobody
  <2>1. tick.at = "ask" /\ task' = [task EXCEPT ![tick.task] = [task[tick.task] EXCEPT !.status = "input-required",
                                                                           !.state = ChildrenState(tick.kids)]]
    BY <1>3, AskPerson, PersonAsked DEF AskPerson
  <2>2. Asked
    BY <1>1, <1>3, <2>1 DEF Asked, TaskT
  <2> QED BY <1>1, <1>2, <2>2, AskPerson DEF AskPerson, Done
<1>4. CASE ~(task[tick.task].status = "working" /\ task[tick.task].by = Nobody)
  <2>1. Kept(tick.task)
    BY <1>4, AskPerson DEF AskPerson, Kept
  <2> QED BY <1>1, <1>2, <2>1, AskPerson DEF AskPerson, Done
<1> QED BY <1>3, <1>4

LEMMA ReleaseEnds ==
    ASSUME Types, EndInv, Release
    PROVE  Done
<1> DEFINE t == tick.task
<1>1. t \in Tasks /\ task[t] \in TaskT /\ task \in [Tasks -> TaskT] /\ tick.id \in Ids
  BY Release DEF Release, Types, TickT
<1>2. tick'.at = "idle" /\ \A u \in Tasks \ {t} : task'[u] = task[u]
  BY <1>1, Release DEF Release, GivenBack, Idle
<1>3. CASE task[t].by # tick.id
  <2>1. Kept(t)
    BY <1>3, Release DEF Release, GivenBack, Kept
  <2> QED BY <1>1, <1>2, <2>1, Release DEF Release, Done
<1>4. CASE task[t].by = tick.id
  <2> DEFINE s == AfterRun(t, tick.id, tick.view)
  <2>1. s = "submitted" => ~(task[t].attempts >= MaxAttempts)
    BY <1>1, StatusAfterRun
  <2>2. task'[t].status = s /\ task'[t].by = Nobody /\ task'[t].attempts = task[t].attempts
    BY <1>1, <1>4, Release DEF Release, GivenBack, TaskT
  <2>3. s = "submitted" => task[t].attempts < MaxAttempts
    BY <1>1, <2>1, LimitsAssumption DEF TaskT
  <2>4. Over(tick.id) /\ tick.id \notin Agents
    BY <1>1, Release, Names DEF Release, EndInv
  <2>5. GivenUp(t)
    BY <1>1, <1>4, <2>2, <2>3, <2>4 DEF GivenUp
  <2> QED BY <1>1, <1>2, <2>5, Release DEF Release, Done
<1> QED BY <1>3, <1>4

LEMMA RunEndsEnds ==
    ASSUME Types, NEW i \in Ids, NEW st \in Endings, RunEnds(i, st)
    PROVE  Ended(i)
<1>1. run \in [Ids -> RunT] /\ run[i] \in RunT /\ st \in Closed
  BY LimitsAssumption DEF Types, Closed
<1>2. run'[i] = [run[i] EXCEPT !.st = st] /\ \A j \in Ids \ {i} : run'[j] = run[j]
  BY <1>1, RunEnds(i, st) DEF RunEnds
<1>3. run'[i].st = st /\ run'[i].task = run[i].task /\ run'[i].event = run[i].event
      /\ run'[i].n = run[i].n /\ run'[i].own = run[i].own
  BY <1>1, <1>2 DEF RunT
<1> QED BY <1>1, <1>2, <1>3, RunEnds(i, st) DEF RunEnds, Ended

\* Every step is one of these.
LEMMA Steps ==
    ASSUME Inv, [Next]_vars
    PROVE  \/ \E t \in Tasks : Edited(t)
           \/ \E i \in Ids : Found(i) \/ Ended(i)
           \/ Looked \/ Took \/ Began \/ Done \/ Crashed
<1> USE DEF Inv
<1>1. ASSUME NEW i \in Ids, ToldReads(i) PROVE Edited(Objective)
  BY <1>1 DEF ToldReads, Edited, Kept
<1>2. ASSUME UNCHANGED vars PROVE Edited(Objective)
  BY <1>2 DEF vars, Edited, Kept
<1>3. ASSUME Crash PROVE Crashed
  BY <1>3 DEF Crash, Crashed, Idle
<1>4. ASSUME Tick
      PROVE  (\E t \in Tasks : Edited(t)) \/ (\E i \in Ids : Found(i)) \/ Looked \/ Took \/ Began \/ Done
  <2>1. ASSUME NEW t \in Tasks, NEW event \in {"ready", "children"}, Find(t, event) PROVE Looked
    BY <2>1, FindLooks
  <2>2. ASSUME NEW t \in Tasks, FindGone(t) PROVE Looked
    BY <2>2, FindGoneLooks
  <2>3. ASSUME NEW t \in Tasks, LeaseEnded(t) PROVE Edited(t)
    BY <2>3, LeaseEndedEdits
  <2>4. ASSUME NEW i \in Ids, StartFound(i) PROVE Found(i)
    BY <2>4, StartFoundFinds
  <2> QED BY <1>4, <2>1, <2>2, <2>3, <2>4, TakeTakes, StartBegins, HandEnds, UndoEnds, AskPersonEnds,
             ReleaseEnds, Names DEF Tick
<1>5. ASSUME NEW i \in Ids, ToldGives(i) PROVE \E t \in Tasks : Edited(t)
  <2>1. run[i].task \in Tasks
    BY DEF Types, RunT
  <2> QED BY <1>5, <2>1, ToldGivesEdits
<1>6. ASSUME NEW i \in Ids, NEW k \in Kids, Split(i, k) PROVE k \in Tasks /\ Edited(k)
  BY <1>6, OthersEdit, Names
<1>7. ASSUME NEW i \in Ids, NEW st \in Endings, RunEnds(i, st) PROVE Ended(i)
  BY <1>7, RunEndsEnds
<1>8. ASSUME NEW t \in Tasks, NEW h \in Agents \cup Ids, NEW to \in Statuses, Move(h, t, to) PROVE Edited(t)
  BY <1>8, MoveEdits
<1>9. ASSUME NEW t \in Tasks, NEW h \in Agents \cup Ids, NEW to \in Statuses, Complete(h, t, to) PROVE Edited(t)
  BY <1>9, CompleteEdits
<1>10. ASSUME NEW t \in Tasks, NEW a \in Agents, Claim(a, t) \/ Heartbeat(a, t) PROVE Edited(t)
  BY <1>10, OthersEdit
<1>11. ASSUME NEW t \in Tasks, LeaseRunsOut(t) PROVE Edited(t)
  BY <1>11, OthersEdit
<1>12. ASSUME NEW t \in Tasks, NEW to \in {"submitted", "canceled"}, Person(t, to) PROVE Edited(t)
  BY <1>12, OthersEdit
<1> QED BY <1>1, <1>2, <1>3, <1>4, <1>5, <1>6, <1>7, <1>8, <1>9, <1>10, <1>11, <1>12, Names DEF Next

-----------------------------------------------------------------------------
(* The attempts *)

\* A task comes to be submitted with a try left, and is tried only then.
LEMMA AttemptsStep ==
    ASSUME Inv, [Next]_vars
    PROVE  AttemptsInv'
<1> USE DEF Inv
<1> SUFFICES ASSUME NEW t \in Tasks, t \notin loose'
             PROVE  Bounded(t)'
  BY DEF AttemptsInv, Bounded
<1>1. /\ task[t].attempts \in Nat /\ tick.n \in Nat /\ MaxAttempts \in Nat /\ 0 < MaxAttempts
      /\ tick.at \in {"start", "own", "undo"} => tick.n # 0
  BY LimitsAssumption DEF Types, TaskT, TickT
<1>2. t \notin loose => Bounded(t)
  BY DEF AttemptsInv, Bounded
<1>3. ASSUME NEW u \in Tasks, Edited(u) PROVE Bounded(t)'
  <2>1. tick' = tick /\ t \notin loose
    BY <1>3 DEF Edited
  <2>2. CASE t # u
    BY <1>2, <1>3, <2>1, <2>2 DEF Edited, Bounded
  <2>3. CASE t = u
    <3>1. Kept(t) \/ Made(t) \/ GivenUp(t) \/ Moved(t)
      BY <1>3, <2>3 DEF Edited
    <3>2. CASE Kept(t)
      BY <1>2, <2>1, <3>2 DEF Kept, Bounded
    <3>3. CASE Made(t)
      BY <1>1, <1>2, <2>1, <3>3 DEF Made, Bounded
    <3>4. CASE GivenUp(t)
      BY <1>2, <2>1, <3>4 DEF GivenUp, Bounded
    <3>5. CASE Moved(t)
      BY <1>2, <2>1, <3>5 DEF Moved, Closed, Bounded
    <3> QED BY <2>1, <3>1, <3>2, <3>3, <3>4, <3>5
  <2> QED BY <2>2, <2>3
<1>4. ASSUME NEW i \in Ids, Found(i) \/ Ended(i) PROVE Bounded(t)'
  BY <1>2, <1>4 DEF Found, Ended, Bounded
<1>5. ASSUME Looked \/ Crashed PROVE Bounded(t)'
  BY <1>2, <1>5 DEF Looked, Crashed, Bounded
<1>6. ASSUME Took PROVE Bounded(t)'
  <2>1. CASE t # tick.task \/ tick'.at = "idle"
    BY <1>2, <1>6, <2>1 DEF Took, Bounded
  <2>2. CASE t = tick.task /\ tick'.at # "idle"
    BY <1>1, <1>2, <1>6, <2>2 DEF Took, Bounded
  <2> QED BY <2>1, <2>2
<1>7. ASSUME Began PROVE Bounded(t)'
  BY <1>2, <1>7 DEF Began, Bounded
<1>8. ASSUME Done PROVE Bounded(t)'
  <2>1. CASE t # tick.task \/ Kept(tick.task)
    BY <1>2, <1>8, <2>1 DEF Done, Kept, Bounded
  <2>2. CASE t = tick.task /\ Handed
    <3>1. tick.task \notin loose /\ tick.at = "hand"
      BY <1>8, <2>2 DEF Done, Handed
    <3>2. task[t].status = "working"
      BY <2>2, <3>1 DEF TakenInv
    <3> QED BY <1>2, <1>8, <2>2, <3>1, <3>2 DEF Done, Handed, Bounded
  <2>3. CASE t = tick.task /\ PutBack
    BY <1>1, <1>2, <1>8, <2>3 DEF Done, PutBack, Bounded
  <2>4. CASE t = tick.task /\ Asked
    BY <1>2, <1>8, <2>4 DEF Done, Asked, Bounded
  <2>5. CASE t = tick.task /\ GivenUp(t)
    BY <1>2, <1>8, <2>5 DEF Done, GivenUp, Bounded
  <2> QED BY <1>8, <2>1, <2>2, <2>3, <2>4, <2>5 DEF Done
<1> QED BY <1>3, <1>4, <1>5, <1>6, <1>7, <1>8, Steps

-----------------------------------------------------------------------------
(* Ends, ids and keys *)

\* A run that is over stays so.
LEMMA OverStays ==
    ASSUME Inv, [Next]_vars, NEW i \in Ids, Over(i)
    PROVE  Over(i)'
<1> USE DEF Inv
<1>1. ASSUME Began PROVE run'[i] = run[i]
  <2>1. tick.id \in Ids /\ run[tick.id].st = "none"
    BY <1>1 DEF Began, FreshInv, Types, Holding
  <2>2. i # tick.id
    BY <2>1 DEF Over, Closed
  <2> QED BY <1>1, <2>2 DEF Began, Stored, Types
<1>2. ASSUME NEW j \in Ids, Ended(j) PROVE run'[i] = run[i]
  BY <1>2 DEF Ended, Over, Closed
<1>3. run'[i] = run[i]
  BY <1>1, <1>2, Steps DEF Edited, Found, Looked, Took, Done, Crashed
<1> QED BY <1>3 DEF Over

\* Only an end is told.
LEMMA EndStep ==
    ASSUME Inv, [Next]_vars
    PROVE  EndInv'
<1> USE DEF Inv
<1>1. ASSUME NEW i \in Ids, told'[i] # "no" PROVE Over(i)'
  <2>1. ASSUME told[i] # "no" PROVE Over(i)'
    BY <2>1, OverStays DEF EndInv
  <2>2. ASSUME told[i] = "no" PROVE \E st \in Endings : RunEnds(i, st)
    <3>1. ASSUME NEW j \in Ids, ToldReads(j) \/ ToldGives(j) PROVE FALSE
      BY <1>1, <2>2, <3>1 DEF ToldReads, ToldGives, Types, Views
    <3>2. ASSUME NEW j \in Ids, NEW st \in Endings, RunEnds(j, st) PROVE j = i
      BY <1>1, <2>2, <3>2 DEF RunEnds, Types
    <3>3. ~Crash
      BY <1>1 DEF Crash
    <3>4. told' # told
      BY <1>1, <2>2
    <3>5. ~Tick
      BY <3>4 DEF Tick, Find, FindGone, LeaseEnded, StartFound, Take, StartNew, StartOwn, StartFails, Hand, Undo,
                  AskPerson, Release
    <3> QED BY <3>1, <3>2, <3>3, <3>4, <3>5
            DEF Next, vars, Split, Move, Complete, Claim, Heartbeat, LeaseRunsOut, Person
  <2>3. ASSUME NEW st \in Endings, RunEnds(i, st) PROVE Over(i)'
    BY <2>3, RunEndsEnds DEF Ended, Over
  <2> QED BY <2>1, <2>2, <2>3
<1>2. ASSUME tick'.at = "release" PROVE run'[tick'.id].st \in Closed
  <2>1. CASE Looked
    BY <1>2, <2>1 DEF Looked, Over
  <2>2. CASE tick' = tick
    <3>1. tick.id \in Ids /\ Over(tick.id)
      BY <1>2, <2>2 DEF EndInv, Types
    <3>2. run'[tick.id].st \in Closed
      BY <3>1, OverStays DEF Over
    <3> QED BY <2>2, <3>2
  <2> QED BY <1>2, <2>1, <2>2, Steps DEF Edited, Found, Ended, Took, Began, Done, Crashed
<1> QED BY <1>1, <1>2 DEF EndInv, Over

\* The id of a run to come stays free.
LEMMA FreshStep ==
    ASSUME Inv, [Next]_vars
    PROVE  FreshInv'
<1> USE DEF Inv
<1>1. tick.at \notin {"idle", "ask"} => tick.id \in Ids
  BY DEF Types
<1>2. ASSUME NEW u \in Tasks, Edited(u) PROVE FreshInv'
  <2> SUFFICES ASSUME tick.at \in {"take"} \cup Holding,
                      NEW t \in Tasks, task'[t].by = tick.id
               PROVE  task[t].by = tick.id
    BY <1>2 DEF Edited, FreshInv
  <2>1. tick.id \in Ids
    BY <1>1 DEF Holding
  <2>2. CASE t = u
    BY <1>2, <2>1, <2>2, Names DEF Edited
  <2>3. CASE t # u
    BY <1>2, <2>3 DEF Edited
  <2> QED BY <2>2, <2>3
<1>3. ASSUME NEW i \in Ids, Found(i) PROVE FreshInv'
  BY <1>3 DEF Found, FreshInv, Holding
<1>4. ASSUME NEW i \in Ids, Ended(i) PROVE FreshInv'
  <2>1. ASSUME tick.at \in {"take", "start", "own", "hand"} PROVE run'[tick.id].st = "none"
    <3>1. run[tick.id].st = "none" /\ tick.id \in Ids
      BY <1>1, <2>1 DEF FreshInv, Holding
    <3> QED BY <1>4, <3>1 DEF Ended
  <2> QED BY <1>4, <2>1 DEF Ended, FreshInv, Holding
<1>5. ASSUME Looked PROVE FreshInv'
  <2>1. tick'.at = "take" => run[tick'.id].st = "none" /\ \A t \in Tasks : task[t].by # tick'.id
    BY <1>5 DEF Looked, FreeIds
  <2> QED BY <1>5, <2>1 DEF Looked, FreshInv, Holding
<1>6. ASSUME Took PROVE FreshInv'
  <2>1. run[tick.id].st = "none" /\ \A t \in Tasks : task[t].by # tick.id
    BY <1>6 DEF Took, FreshInv, Holding
  <2> QED BY <1>6, <2>1 DEF Took, FreshInv, Holding
<1>7. ASSUME Began PROVE FreshInv'
  BY <1>7 DEF Began, FreshInv, Holding
<1>8. ASSUME Done \/ Crashed PROVE FreshInv'
  BY <1>8 DEF Done, Crashed, FreshInv, Holding
<1> QED BY <1>2, <1>3, <1>4, <1>5, <1>6, <1>7, <1>8, Steps

\* A run is stored under a key that no other has.
LEMMA KeyStep ==
    ASSUME Inv, [Next]_vars
    PROVE  KeyInv'
<1> USE DEF Inv
<1>1. CASE run' = run
  BY <1>1 DEF KeyInv
<1>2. ASSUME NEW k \in Ids, Ended(k) PROVE KeyInv'
  <2>1. \A i \in Ids : /\ run'[i].task = run[i].task /\ run'[i].event = run[i].event /\ run'[i].n = run[i].n
                       /\ run'[i].own = run[i].own /\ (run'[i].st # "none" => run[i].st # "none")
    BY <1>2 DEF Ended
  <2> QED BY <2>1 DEF KeyInv
<1>3. ASSUME Began, Stored(tick.at = "own") PROVE KeyInv'
  <2>1. tick.id \in Ids /\ run[tick.id].st = "none"
    BY <1>3 DEF Began, FreshInv, Types, Holding
  <2>2. /\ \A i \in Ids \ {tick.id} : run'[i] = run[i]
        /\ run'[tick.id].own = (tick.at = "own")
        /\ run'[tick.id].task = tick.task /\ run'[tick.id].event = tick.event /\ run'[tick.id].n = tick.n
    BY <1>3, <2>1 DEF Stored, Types
  <2>3. ASSUME NEW i \in Ids \ {tick.id}, run'[i].st # "none", ~run'[i].own, ~run'[tick.id].own,
               run'[i].task = run'[tick.id].task, run'[i].event = run'[tick.id].event,
               run'[i].n = run'[tick.id].n
        PROVE  FALSE
    <3>1. tick.at = "start"
      BY <1>3, <2>2, <2>3 DEF Began
    <3>2. Known(i)
      BY <2>2, <2>3 DEF Known
    <3> QED BY <1>3, <3>1, <3>2 DEF Began
  <2> SUFFICES ASSUME NEW i \in Ids, NEW j \in Ids, run'[i].st # "none", run'[j].st # "none",
                      ~run'[i].own, ~run'[j].own, run'[i].task = run'[j].task,
                      run'[i].event = run'[j].event, run'[i].n = run'[j].n
               PROVE  i = j
    BY DEF KeyInv
  <2>4. CASE i # tick.id /\ j # tick.id
    <3>1. run'[i] = run[i] /\ run'[j] = run[j]
      BY <2>2, <2>4
    <3> QED BY <3>1 DEF KeyInv
  <2>5. CASE i = tick.id \/ j = tick.id
    BY <2>3, <2>5
  <2> QED BY <2>4, <2>5
<1> QED BY <1>1, <1>2, <1>3, Steps DEF Edited, Found, Looked, Took, Began, Done, Crashed

-----------------------------------------------------------------------------
(* The run at work *)

\* What the task loop took stays taken until it is through with it.
LEMMA TakenStep ==
    ASSUME Inv, [Next]_vars
    PROVE  TakenInv'
<1> USE DEF Inv
<1>1. ASSUME tick.at \in {"start", "own", "hand"} PROVE tick.id \in Ids /\ run[tick.id].st = "none"
  BY <1>1 DEF FreshInv, Types, Holding
<1>2. tick.task \in Tasks
  BY DEF Types, TickT
<1>3. ASSUME NEW u \in Tasks, Edited(u) PROVE TakenInv'
  <2> SUFFICES ASSUME tick.task \notin loose', tick.task \notin loose, tick.at \in {"start", "own", "hand"}
               PROVE  task'[tick.task].by = tick.id /\ task'[tick.task].status = "working"
    BY <1>3 DEF Edited, TakenInv
  <2>1. /\ task[tick.task].by = tick.id /\ task[tick.task].status = "working"
        /\ tick.id \in Ids /\ run[tick.id].st = "none"
    BY <1>1 DEF TakenInv
  <2>2. CASE u # tick.task
    BY <1>2, <1>3, <2>1, <2>2 DEF Edited
  <2>3. CASE u = tick.task
    <3>1. ~Made(u)
      BY <2>1, <2>3 DEF Made
    <3>2. ~GivenUp(u) /\ ~Moved(u)
      BY <2>1, <2>3, Names DEF GivenUp, Moved, Over, Closed
    <3>3. Kept(u)
      BY <1>3, <2>3, <3>1, <3>2 DEF Edited
    <3> QED BY <2>1, <2>3, <3>3 DEF Kept
  <2> QED BY <2>2, <2>3
<1>4. ASSUME NEW i \in Ids, Found(i) PROVE TakenInv'
  BY <1>4 DEF Found, TakenInv
<1>5. ASSUME NEW i \in Ids, Ended(i) PROVE TakenInv'
  <2>1. ASSUME tick.at = "undo"
        PROVE  /\ run'[tick.id].own = run[tick.id].own /\ run'[tick.id].task = run[tick.id].task
               /\ run'[tick.id].event = run[tick.id].event /\ run'[tick.id].n = run[tick.id].n
               /\ (run'[tick.id].st # "none" => run[tick.id].st # "none")
    <3>1. tick.id \in Ids
      BY <2>1 DEF Types
    <3> QED BY <1>5, <3>1 DEF Ended
  <2> QED BY <1>5, <2>1 DEF Ended, TakenInv
<1>6. ASSUME Took PROVE TakenInv'
  BY <1>6 DEF Took, TakenInv
<1>7. ASSUME Began PROVE TakenInv'
  <2>1. tick.id \in Ids /\ run[tick.id].st = "none"
    BY <1>1, <1>7 DEF Began
  <2>2. CASE run' = run \/ tick'.at = "idle"
    BY <1>7, <2>1, <2>2 DEF Began, TakenInv
  <2>3. CASE Stored(tick.at = "own") /\ tick'.at = "undo"
    <3>1. /\ run'[tick.id].own = (tick.at = "own") /\ run'[tick.id].task = tick.task
          /\ run'[tick.id].event = tick.event /\ run'[tick.id].n = tick.n
      BY <2>1, <2>3 DEF Stored, Types
    <3> QED BY <1>7, <2>3, <3>1 DEF Began, TakenInv
  <2> QED BY <1>7, <2>2, <2>3 DEF Began
<1>8. ASSUME Looked \/ Done \/ Crashed PROVE TakenInv'
  BY <1>8 DEF Looked, Done, Crashed, TakenInv
<1> QED BY <1>3, <1>4, <1>5, <1>6, <1>7, <1>8, Steps

\* A task taken for a run to come has none at work but the key's.
LEMMA NoOther ==
    ASSUME Inv, tick.at \in {"start", "own", "hand"}, tick.task \notin loose,
           NEW i \in Ids, run[i].st = "live", run[i].task = tick.task
    PROVE  TakenAgain(i, tick.task)
<1> USE DEF Inv
<1>1. /\ task[tick.task].by = tick.id /\ tick.id \in Ids /\ run[tick.id].st = "none"
  BY DEF TakenInv, FreshInv, Types, Holding
<1>2. ~HeldBy(i, tick.task)
  BY <1>1 DEF HeldBy
<1>3. ~DoneWith(tick.task) /\ ~GaveBack(i, tick.task)
  BY <1>1, Names DEF DoneWith, GaveBack
<1>4. ~Orphaned(tick.task)
  BY <1>1 DEF Orphaned, Holding
<1> QED BY <1>2, <1>3, <1>4 DEF LiveInv, Where

\* No run is stored for a task that has one at work.
LEMMA OneStep ==
    ASSUME Inv, [Next]_vars
    PROVE  OneRunAtWork'
<1> USE DEF Inv
<1>1. CASE run' = run /\ loose \subseteq loose'
  BY <1>1 DEF OneRunAtWork
<1>2. ASSUME NEW k \in Ids, Ended(k) PROVE OneRunAtWork'
  <2>1. \A i \in Ids : run'[i].task = run[i].task /\ (run'[i].st = "live" => run[i].st = "live")
    BY <1>2 DEF Ended, Closed
  <2> QED BY <1>2, <2>1 DEF OneRunAtWork, Ended
<1>3. ASSUME Began, Stored(tick.at = "own") PROVE OneRunAtWork'
  <2>1. tick.id \in Ids /\ run[tick.id].st = "none"
    BY <1>3 DEF Began, FreshInv, Types, Holding
  <2>2. /\ \A i \in Ids \ {tick.id} : run'[i] = run[i]
        /\ run'[tick.id].task = tick.task
    BY <1>3, <2>1 DEF Stored, Types
  <2>3. ASSUME NEW i \in Ids \ {tick.id}, run'[i].st = "live", run'[i].task = tick.task, tick.task \notin loose'
        PROVE  FALSE
    <3>1. run[i].st = "live" /\ run[i].task = tick.task /\ tick.task \notin loose
      BY <1>3, <2>2, <2>3 DEF Began
    <3>2. TakenAgain(i, tick.task)
      BY <1>3, <3>1, NoOther DEF Began
    <3> QED BY <1>3, <3>2 DEF TakenAgain, Began
  <2> SUFFICES ASSUME NEW i \in Ids, NEW j \in Ids, i # j, run'[i].st = "live", run'[j].st = "live",
                      run'[i].task = run'[j].task, run'[i].task \notin loose'
               PROVE  FALSE
    BY DEF OneRunAtWork
  <2>4. CASE i # tick.id /\ j # tick.id
    <3>1. run'[i] = run[i] /\ run'[j] = run[j]
      BY <2>2, <2>4
    <3> QED BY <1>3, <3>1 DEF OneRunAtWork, Began
  <2>5. CASE i = tick.id
    BY <2>2, <2>3, <2>5
  <2>6. CASE j = tick.id
    BY <2>2, <2>3, <2>6
  <2> QED BY <2>4, <2>5, <2>6
<1> QED BY <1>1, <1>2, <1>3, Steps DEF Edited, Found, Looked, Took, Began, Done, Crashed

\* A task whose note says the same stays where it is, but for what the loop is at.
LEMMA StaysWhere ==
    ASSUME NEW i \in Ids, NEW t \in Tasks, Kept(t),
           HeldBy(i, t) \/ DoneWith(t) \/ GaveBack(i, t) \/ Orphaned(t),
           run'[i].own = run[i].own, run'[i].event = run[i].event, run'[i].n = run[i].n,
           task[t].by \in Ids /\ run[task[t].by].st = "none" =>
               /\ run'[task[t].by].st = "none"
               /\ tick'.at \in Holding /\ tick'.id = task[t].by => tick.at \in Holding /\ tick.id = task[t].by
    PROVE  Where(i, t)'
<1>1. CASE HeldBy(i, t)
  BY <1>1 DEF Kept, HeldBy, Where
<1>2. CASE DoneWith(t)
  BY <1>2 DEF Kept, DoneWith, Where
<1>3. CASE GaveBack(i, t)
  <2>1. GaveBack(i, t)'
    BY <1>3 DEF Kept, GaveBack
  <2> QED BY <2>1 DEF Where
<1>4. CASE Orphaned(t)
  <2>1. Orphaned(t)'
    BY <1>4 DEF Kept, Orphaned
  <2> QED BY <2>1 DEF Where
<1> QED BY <1>1, <1>2, <1>3, <1>4

\* A live run's task is in one of the places that Where lists.
LEMMA LiveStep ==
    ASSUME Inv, [Next]_vars
    PROVE  LiveInv'
<1> USE DEF Inv
<1> SUFFICES ASSUME NEW i \in Ids, NEW t \in Tasks, run'[i].st = "live", run'[i].task = t, t \notin loose'
             PROVE  Where(i, t)'
  <2>1. \A i \in Ids : run'[i].task \in Tasks
    BY TypesStep DEF Types, RunT
  <2> QED BY <2>1 DEF LiveInv, Where, HeldBy, DoneWith, GaveBack, TakenAgain, Orphaned, Known
<1>1. run[i].st = "live" /\ run[i].task = t /\ t \notin loose => Where(i, t)
  BY DEF LiveInv
<1>2. tick.at \in {"start", "own", "hand"} => tick.id \in Ids /\ run[tick.id].st = "none"
  BY DEF FreshInv, Types, Holding
<1>3. tick.at \in {"start", "own", "hand"} /\ tick.task = t /\ t \notin loose =>
        task[t].by = tick.id /\ task[t].status = "working"
  BY DEF TakenInv
<1>4. ASSUME NEW u \in Tasks, Edited(u) PROVE Where(i, t)'
  <2>1. run' = run /\ tick' = tick /\ t \notin loose /\ Where(i, t) /\ run[i].st = "live"
    BY <1>1, <1>4 DEF Edited
  <2>2. CASE u # t
    <3>1. task'[t] = task[t]
      BY <1>4, <2>2 DEF Edited
    <3>2. CASE TakenAgain(i, t)
      BY <2>1, <3>2 DEF TakenAgain, Known, Where
    <3>3. CASE ~TakenAgain(i, t)
      BY <2>1, <3>1, <3>3, StaysWhere DEF Kept, Where
    <3> QED BY <3>2, <3>3
  <2>3. CASE u = t
    <3>1. CASE Kept(t)
      <4>1. CASE TakenAgain(i, t)
        BY <2>1, <4>1 DEF TakenAgain, Known, Where
      <4>2. CASE ~TakenAgain(i, t)
        BY <2>1, <3>1, <4>2, StaysWhere DEF Where
      <4> QED BY <4>1, <4>2
    <3>2. TakenAgain(i, t) => task[t].by = tick.id /\ task[t].status = "working" /\ tick.id \in Ids
                              /\ run[tick.id].st = "none"
      BY <1>2, <1>3, <2>1 DEF TakenAgain
    <3>3. ~Made(t)
      BY <2>1, <3>2 DEF Where, Made, HeldBy, DoneWith, GaveBack, Orphaned, Closed
    <3>4. ~GivenUp(t)
      BY <2>1, <3>2, Names DEF Where, GivenUp, HeldBy, DoneWith, GaveBack, Orphaned, Over, Closed
    <3>5. CASE Moved(t)
      <4>1. task[t].by = i
        BY <2>1, <3>2, <3>5, Names DEF Where, Moved, HeldBy, DoneWith, GaveBack, Orphaned
      <4> QED BY <3>5, <4>1 DEF Moved, Where, HeldBy, DoneWith
    <3> QED BY <1>4, <2>1, <2>3, <3>1, <3>3, <3>4, <3>5 DEF Edited
  <2> QED BY <2>2, <2>3
<1>5. ASSUME NEW j \in Ids, Found(j) PROVE Where(i, t)'
  <2>1. run' = run /\ task' = task /\ t \notin loose /\ Where(i, t) /\ run[i].st = "live" /\ run[i].task = t
    BY <1>1, <1>5 DEF Found
  <2>2. CASE TakenAgain(i, t)
    <3>1. Known(i) /\ Known(j)
      BY <1>5, <2>2 DEF Found, TakenAgain
    <3>2. i = j
      BY <3>1 DEF KeyInv, Known
    <3>3. tick'.at = "hand" /\ tick'.n = i /\ tick'.task = t
      BY <1>5, <2>1, <2>2, <3>2 DEF Found, TakenAgain, Over, Closed
    <3> QED BY <3>3 DEF TakenAgain, Where
  <2>3. CASE ~TakenAgain(i, t)
    BY <1>5, <2>1, <2>3, StaysWhere DEF Found, Kept, Where, Holding
  <2> QED BY <2>2, <2>3
<1>6. ASSUME NEW j \in Ids, Ended(j) PROVE Where(i, t)'
  <2>1. task' = task /\ tick' = tick /\ t \notin loose /\ i # j /\ run'[i] = run[i]
    BY <1>6 DEF Ended, Closed
  <2>2. Where(i, t)
    BY <1>1, <2>1
  <2>3. \A k \in Ids : run[k].st = "none" => run'[k].st = "none"
    BY <1>6 DEF Ended
  <2>4. CASE TakenAgain(i, t)
    BY <2>1, <2>4 DEF TakenAgain, Known, Where
  <2>5. CASE ~TakenAgain(i, t)
    BY <2>1, <2>2, <2>3, <2>5, StaysWhere DEF Kept, Where
  <2> QED BY <2>4, <2>5
<1>7. ASSUME Looked PROVE Where(i, t)'
  <2>1. run' = run /\ task' = task /\ Where(i, t) /\ ~TakenAgain(i, t)
    BY <1>1, <1>7 DEF Looked, TakenAgain
  <2> QED BY <1>7, <2>1, StaysWhere DEF Looked, Kept, Where, Holding
<1>8. ASSUME Took PROVE Where(i, t)'
  <2>1. run' = run /\ t \notin loose /\ Where(i, t) /\ ~TakenAgain(i, t) /\ run[i].st = "live" /\ run[i].task = t
    BY <1>1, <1>8 DEF Took, TakenAgain
  <2>2. CASE tick'.at = "idle"
    BY <1>8, <2>1, <2>2, StaysWhere DEF Took, Kept, Where, Holding
  <2>3. CASE tick'.at # "idle" /\ t # tick.task
    <3>1. task[t].by # tick.id
      BY <1>8, <2>3 DEF Took, FreshInv
    <3> QED BY <1>8, <2>1, <2>3, <3>1, StaysWhere DEF Took, Kept, Where, Holding
  <2>4. CASE tick'.at # "idle" /\ t = tick.task
    <3>1. CASE tick.event = "ready"
      <4>1. task[t].status = "submitted" /\ tick'.n = task[t].attempts + 1
        BY <1>8, <2>4, <3>1 DEF Took
      <4>2. GaveBack(i, t)
        BY <2>1, <4>1 DEF Where, HeldBy, DoneWith, Orphaned, Closed
      <4>3. ~run[i].own /\ run[i].event = "ready" /\ run[i].n = task[t].attempts + 1
        BY <4>1, <4>2 DEF GaveBack
      <4> QED BY <1>8, <2>1, <2>4, <3>1, <4>1, <4>3 DEF Took, Where, TakenAgain, Known
    <3>2. CASE tick.event # "ready"
      <4>1. task[t].status = "working" /\ task[t].by = Nobody /\ tick'.n = task[t].rounds + 1
        BY <1>8, <2>4, <3>2 DEF Took
      <4>2. GaveBack(i, t)
        BY <2>1, <4>1, Names DEF Where, HeldBy, DoneWith, Orphaned, Closed
      <4>3. ~run[i].own /\ run[i].event = "children" /\ run[i].n = task[t].rounds + 1
        BY <4>1, <4>2 DEF GaveBack
      <4> QED BY <1>8, <2>1, <2>4, <3>2, <4>1, <4>3 DEF Took, Where, TakenAgain, Known
    <3> QED BY <3>1, <3>2
  <2> QED BY <2>2, <2>3, <2>4
<1>9. ASSUME Began PROVE Where(i, t)'
  <2>1. /\ task' = task /\ t \notin loose /\ tick.id \in Ids /\ run[tick.id].st = "none"
        /\ tick.at \in {"start", "own"}
    BY <1>2, <1>9 DEF Began
  <2>2. \A k \in Ids \ {tick.id} : run'[k] = run[k]
    BY <1>9, <2>1 DEF Began, Stored, Types
  <2>3. CASE i = tick.id
    <3>1. Stored(tick.at = "own")
      BY <1>9, <2>1, <2>3 DEF Began
    <3>2. t = tick.task
      BY <2>1, <2>3, <3>1 DEF Stored, Types
    <3>3. task[t].by = i /\ task[t].status = "working"
      BY <1>3, <2>1, <2>3, <3>2
    <3> QED BY <2>1, <3>3 DEF Where, HeldBy
  <2>4. CASE i # tick.id
    <3>1. run[i].st = "live" /\ run[i].task = t /\ Where(i, t) /\ run'[i] = run[i]
      BY <1>1, <2>1, <2>2, <2>4
    <3>2. t # tick.task
      <4>1. ASSUME t = tick.task PROVE TakenAgain(i, tick.task)
        BY <2>1, <3>1, <4>1, NoOther
      <4> QED BY <1>9, <4>1 DEF Began, TakenAgain
    <3>3. ~TakenAgain(i, t) /\ task[t].by # tick.id
      BY <2>1, <3>2 DEF TakenAgain, FreshInv, Holding
    <3>4. task[t].by \in Ids /\ run[task[t].by].st = "none" => run'[task[t].by].st = "none"
      BY <2>2, <3>3
    <3> QED BY <1>9, <2>1, <3>1, <3>3, <3>4, StaysWhere DEF Began, Kept, Where, Holding
  <2> QED BY <2>3, <2>4
<1>10. ASSUME Done PROVE Where(i, t)'
  <2>1. run' = run /\ t \notin loose /\ Where(i, t) /\ run[i].st = "live" /\ run[i].task = t
    BY <1>1, <1>10 DEF Done
  <2>2. tick'.at \notin Holding
    BY <1>10 DEF Done, Holding
  <2>3. tick.task = t /\ tick.at = "hand" => task[t].by = tick.id
    BY <1>3, <2>1
  <2>4. TakenAgain(i, t) => tick.at = "hand" /\ tick.task = t /\ tick.n = i
    BY <1>10 DEF Done, TakenAgain
  <2>5. CASE Kept(t) /\ ~TakenAgain(i, t)
    BY <2>1, <2>2, <2>5, StaysWhere DEF Where
  <2>6. CASE t # tick.task
    BY <1>10, <2>4, <2>5, <2>6 DEF Done, Kept
  <2>7. CASE t = tick.task /\ Handed
    <3>1. task[t].by = tick.id /\ run[tick.id].st = "none" /\ tick.id \in Ids /\ task[t].status = "working"
      BY <1>2, <1>3, <2>1, <2>7 DEF Handed
    <3>2. TakenAgain(i, t)
      BY <2>1, <2>7, <3>1, NoOther DEF Handed
    <3>3. task'[t].by = i /\ task'[t].status = "working"
      BY <2>4, <2>7, <3>1, <3>2 DEF Handed
    <3> QED BY <3>3 DEF Where, HeldBy
  <2>8. CASE t = tick.task /\ PutBack
    <3>1. tick.at = "undo" /\ task[t].by = tick.id /\ tick.id \in Ids
      BY <2>8 DEF PutBack, Types
    <3>2. HeldBy(i, t)
      BY <2>1, <2>4, <3>1, Names DEF Where, DoneWith, GaveBack, Orphaned, Holding
    <3>3. i = tick.id
      BY <3>1, <3>2 DEF HeldBy
    <3>4. ~run[i].own /\ run[i].event = tick.event /\ run[i].n = tick.n /\ tick.n \in Nat /\ tick.n # 0
      BY <2>1, <2>8, <3>1, <3>3 DEF TakenInv, Types, TickT
    <3>5. CASE tick.event = "ready"
      <4>1. GaveBack(i, t)'
        BY <2>1, <2>8, <3>4, <3>5 DEF PutBack, GaveBack
      <4> QED BY <4>1 DEF Where
    <3>6. CASE tick.event # "ready"
      <4>1. CASE task[t].status = "working"
        <5>1. GaveBack(i, t)'
          BY <2>1, <2>8, <3>4, <3>6, <4>1 DEF PutBack, GaveBack
        <5> QED BY <5>1 DEF Where
      <4>2. CASE task[t].status # "working"
        BY <2>8, <3>2, <3>6, <4>2 DEF PutBack, HeldBy, DoneWith, Where
      <4> QED BY <4>1, <4>2
    <3> QED BY <3>5, <3>6
  <2>9. CASE t = tick.task /\ Asked
    BY <2>9 DEF Asked, Where, DoneWith
  <2>10. CASE t = tick.task /\ tick.at = "release" /\ GivenUp(t)
    BY <2>1, <2>4, <2>10, Names DEF Where, GivenUp, HeldBy, DoneWith, GaveBack, Orphaned, Over, Closed
  <2> QED BY <1>10, <2>3, <2>4, <2>5, <2>6, <2>7, <2>8, <2>9, <2>10 DEF Done
<1>11. ASSUME Crashed PROVE Where(i, t)'
  <2>1. run' = run /\ task' = task /\ t \notin loose /\ Where(i, t) /\ tick'.at \notin Holding
    BY <1>1, <1>11 DEF Crashed, Holding
  <2>2. CASE TakenAgain(i, t)
    <3>1. task[t].by = tick.id /\ task[t].status = "working" /\ tick.id \in Ids /\ run[tick.id].st = "none"
      BY <1>2, <1>3, <2>1, <2>2 DEF TakenAgain
    <3> QED BY <2>1, <3>1 DEF Where, Orphaned
  <2>3. CASE ~TakenAgain(i, t)
    BY <2>1, <2>3, StaysWhere DEF Kept, Where
  <2> QED BY <2>2, <2>3
<1> QED BY <1>4, <1>5, <1>6, <1>7, <1>8, <1>9, <1>10, <1>11, Steps

-----------------------------------------------------------------------------
(* A closed task *)

\* A closed task has no move but to be sent again.
LEMMA ClosedMoves ==
    ASSUME NEW from \in Closed, NEW to, CanMove(from, to)
    PROVE  to = "submitted"
<1>1. CASE from = "completed"
  BY <1>1 DEF CanMove
<1>2. CASE from \in {"failed", "canceled"}
  BY <1>2 DEF CanMove
<1> QED BY <1>1, <1>2 DEF Closed

\* The step that changes the status of a closed task sends it again.
LEMMA ClosedStep ==
    ASSUME Inv, [Next]_vars, NEW t \in Tasks, IsClosed(t), tick.at # "undo", task'[t].status # task[t].status
    PROVE  SentAgain(t)
<1> USE DEF Inv
<1>1. task \in [Tasks -> TaskT] /\ task[t] \in TaskT /\ task[t].status \in Closed
  BY DEF Types, IsClosed
<1>2. task' # task
  BY <1>1
<1>3. ~Tick
  <2>1. ASSUME NEW u \in Tasks, LeaseEnded(u) PROVE FALSE
    BY <1>1, <2>1 DEF LeaseEnded, IsClosed
  <2>2. ~Take
    <3>1. ASSUME Took PROVE FALSE
      <4>1. t = tick.task /\ tick'.at # "idle"
        BY <1>2, <3>1 DEF Took
      <4> QED BY <1>1, <3>1, <4>1 DEF Took, Closed
    <3> QED BY <3>1, TakeTakes
  <2>3. ~Hand /\ ~Undo
    <3>1. ~Hand
      <4>1. ASSUME Hand PROVE task'[t].status = task[t].status
        BY <1>1, <4>1 DEF Hand, TaskT
      <4> QED BY <4>1
    <3> QED BY <3>1 DEF Undo
  <2>4. ~AskPerson
    <3>1. ASSUME AskPerson PROVE FALSE
      BY <1>1, <3>1 DEF AskPerson, Closed
    <3> QED BY <3>1
  <2>5. ~Release
    <3>1. ASSUME Release PROVE FALSE
      <4>1. AfterRun(t, tick.id, tick.view) = task[t].status
        BY StatusAfterRun
      <4> QED BY <1>1, <3>1, <4>1 DEF Release, GivenBack, TaskT
    <3> QED BY <3>1
  <2> QED BY <1>2, <2>1, <2>2, <2>3, <2>4, <2>5
          DEF Tick, Find, FindGone, StartFound, StartNew, StartOwn, StartFails
<1>4. ASSUME NEW i \in Ids, ToldReads(i) \/ ToldGives(i) PROVE FALSE
  <2>1. ToldGives(i)
    BY <1>2, <1>4 DEF ToldReads
  <2>2. run[i].task = t => AfterRun(t, i, told[i]) = task[t].status
    BY StatusAfterRun
  <2> QED BY <1>1, <2>1, <2>2 DEF ToldGives, GivenBack, TaskT
<1>5. ASSUME NEW i \in Ids, NEW k \in Kids, Split(i, k) PROVE FALSE
  BY <1>1, <1>5 DEF Split, Closed
<1>6. ASSUME NEW u \in Tasks, NEW h \in Agents \cup Ids, NEW to \in Statuses, Move(h, u, to) PROVE SentAgain(t)
  <2>1. u = t
    BY <1>1, <1>6 DEF Move
  <2>2. to # task[t].status
    BY <1>1, <1>6, <2>1 DEF Move, Closed
  <2>3. to = "submitted"
    BY <1>1, <1>6, <2>1, <2>2, ClosedMoves DEF Move
  <2> QED BY <1>6, <2>1, <2>3 DEF SentAgain
<1>7. ASSUME NEW u \in Tasks, NEW h \in Agents \cup Ids, NEW to \in Statuses, Complete(h, u, to) PROVE FALSE
  <2>1. u = t
    BY <1>1, <1>7 DEF Complete
  <2>2. to \in Closed /\ to # "submitted"
    BY <1>7, LimitsAssumption DEF Complete, Closed
  <2> QED BY <1>1, <1>7, <2>1, <2>2, ClosedMoves DEF Complete
<1>8. ASSUME NEW u \in Tasks, NEW a \in Agents, Claim(a, u) \/ Heartbeat(a, u) PROVE FALSE
  <2>1. CASE Claim(a, u)
    BY <1>1, <2>1 DEF Claim, Ready, Closed
  <2>2. CASE Heartbeat(a, u)
    BY <1>1, <2>2 DEF Heartbeat, TaskT
  <2> QED BY <1>8, <2>1, <2>2
<1>9. ASSUME NEW u \in Tasks, LeaseRunsOut(u) PROVE FALSE
  BY <1>1, <1>9 DEF LeaseRunsOut, TaskT
<1>10. ASSUME NEW u \in Tasks, NEW to \in {"submitted", "canceled"}, Person(u, to) PROVE SentAgain(t)
  <2>1. u = t
    BY <1>1, <1>10 DEF Person
  <2>2. to = "submitted"
    BY <1>1, <1>10, <2>1 DEF Person
  <2> QED BY <1>10, <2>1, <2>2 DEF SentAgain
<1> QED BY <1>2, <1>3, <1>4, <1>5, <1>6, <1>7, <1>8, <1>9, <1>10 DEF Next, vars, RunEnds, Crash

-----------------------------------------------------------------------------
(* The counts *)

\* Whether a run was stored under the key of the n-th attempt at t.
Keyed(t, n) == \E i \in Ids : /\ run[i].st # "none" /\ ~run[i].own
                              /\ run[i].task = t /\ run[i].event = "ready" /\ run[i].n = n

\* The attempts at t that no run stands for, and none is about to.
Starting(t, n) == tick.at = "start" /\ tick.task = t /\ tick.event = "ready" /\ tick.n = n
Unpaid(t) == {n \in 1 .. task[t].attempts : ~Keyed(t, n) /\ ~Starting(t, n)}

\* Those before the one that is under way.
Before == {n \in 1 .. tick.n - 1 : ~Keyed(tick.task, n)}

\* An attempt no run stands for was a trouble: every count is one of the runs' or of the troubles'.
PaidInv ==
    /\ \A t \in Tasks : Cardinality(Unpaid(t)) <= troubles
    /\ tick.at \in {"start", "own", "undo"} /\ tick.event = "ready" => Cardinality(Before) <= troubles

\* Rounds are looked at before a coordinator is called, and taken back with its start.
RoundsInv ==
    /\ \A t \in Tasks : task[t].rounds <= MaxRounds
    /\ tick.at = "take" /\ tick.event = "children" => task[tick.task].rounds < MaxRounds
    /\ tick.at \in {"start", "own", "undo"} /\ tick.event = "children" => tick.n <= MaxRounds

CountInv ==
    /\ troubles <= MaxTroubles
    /\ tick.at \in {"idle", "take", "ask", "release"} => tick.n = 0
    /\ \A i \in Ids : run[i].n \in Counts
    /\ PaidInv /\ RoundsInv

\* The histories are of tasks, and of what was read of them.
HistoryInv == loose \subseteq Tasks /\ orphan \subseteq Tasks /\ heard \in [Kids -> Statuses]

\* Fewer, or one more.
LEMMA Fewer ==
    ASSUME NEW a \in Nat, NEW S, S \subseteq 1 .. a, NEW T \in SUBSET S
    PROVE  Cardinality(T) <= Cardinality(S) /\ Cardinality(S) \in Nat /\ Cardinality(T) \in Nat
<1>1. IsFiniteSet(1 .. a)
  BY FS_Interval
<1>2. IsFiniteSet(S)
  BY <1>1, FS_Subset
<1> QED BY <1>2, FS_Subset, FS_CardinalityType

LEMMA OneMore ==
    ASSUME NEW a \in Nat, NEW S, S \subseteq 1 .. a, NEW x, NEW T, T \subseteq S \cup {x}
    PROVE  Cardinality(T) <= Cardinality(S) + 1 /\ Cardinality(S) \in Nat /\ Cardinality(T) \in Nat
<1>1. IsFiniteSet(1 .. a)
  BY FS_Interval
<1>2. IsFiniteSet(S)
  BY <1>1, FS_Subset
<1>3. IsFiniteSet(S \cup {x}) /\ Cardinality(S \cup {x}) <= Cardinality(S) + 1
  <2>1. Cardinality(S) \in Nat
    BY <1>2, FS_CardinalityType
  <2>2. /\ IsFiniteSet(S \cup {x})
        /\ Cardinality(S \cup {x}) = IF x \in S THEN Cardinality(S) ELSE Cardinality(S) + 1
    BY <1>2, FS_AddElement
  <2> QED BY <2>1, <2>2
<1>4. IsFiniteSet(T) /\ Cardinality(T) <= Cardinality(S \cup {x})
  BY <1>3, FS_Subset
<1> QED BY <1>2, <1>3, <1>4, FS_CardinalityType

\* What the counts come to: a run each, but for those unpaid.
LEMMA CountedByRuns ==
    ASSUME Types, NEW t \in Tasks, NEW a \in Nat
    PROVE  a <= Cardinality(Ids) + Cardinality({n \in 1 .. a : ~Keyed(t, n)})
<1> DEFINE K == {n \in 1 .. a : Keyed(t, n)}
           M == {n \in 1 .. a : ~Keyed(t, n)}
           J == {i \in Ids : /\ run[i].st # "none" /\ ~run[i].own /\ run[i].task = t /\ run[i].event = "ready"
                             /\ run[i].n \in 1 .. a}
           f == [i \in J |-> run[i].n]
<1>1. IsFiniteSet(1 .. a) /\ Cardinality(1 .. a) = a
  <2>1. a > 0 => Cardinality(1 .. a) = a
    BY FS_Interval
  <2>2. a = 0 => Cardinality(1 .. a) = 0
    BY FS_Interval
  <2> QED BY <2>1, <2>2, FS_Interval
<1>2. IsFiniteSet(Ids)
  BY LimitsAssumption
<1>3. IsFiniteSet(J) /\ Cardinality(J) <= Cardinality(Ids) /\ Cardinality(J) \in Nat /\ Cardinality(Ids) \in Nat
  BY <1>2, FS_Subset, FS_CardinalityType
<1>4. f \in Surjection(J, K)
  <2>1. \A i \in J : f[i] \in K
    BY DEF Keyed
  <2>2. \A n \in K : \E i \in J : f[i] = n
    BY DEF Keyed
  <2> QED BY <2>1, <2>2 DEF Surjection
<1>5. IsFiniteSet(K) /\ Cardinality(K) <= Cardinality(J)
  BY <1>3, <1>4, FS_Surjection
<1>6. IsFiniteSet(M)
  BY <1>1, FS_Subset
<1>7. K \cup M = 1 .. a /\ K \cap M = {}
  OBVIOUS
<1>8. Cardinality(K) \in Nat /\ Cardinality(M) \in Nat
  BY <1>5, <1>6, FS_CardinalityType
<1> HIDE DEF K, M, J, f
<1>9. Cardinality(1 .. a) = Cardinality(K) + Cardinality(M)
  <2>1. Cardinality(K \cup M) = Cardinality(K) + Cardinality(M) - Cardinality(K \cap M)
    BY <1>5, <1>6, FS_Union
  <2>2. Cardinality(K \cap M) = 0
    BY <1>7, FS_EmptySet
  <2>3. Cardinality(1 .. a) = Cardinality(K \cup M)
    BY <1>7
  <2> QED BY <1>8, <2>1, <2>2, <2>3
<1>10. a <= Cardinality(Ids) + Cardinality(M)
  BY <1>1, <1>3, <1>5, <1>8, <1>9
<1> QED BY <1>10 DEF M

\* A trouble is counted.
LEMMA TroublesCount ==
    ASSUME Inv, [Next]_vars
    PROVE  troubles' = troubles \/ (troubles < MaxTroubles /\ troubles' = troubles + 1)
BY DEF Next, Tick, Find, FindGone, LeaseEnded, StartFound, Take, StartNew, StartOwn, StartFails, Hand, Undo, AskPerson,
       Release, ToldReads, ToldGives, Split, RunEnds, Move, Complete, Claim, Heartbeat, LeaseRunsOut, Person, Crash,
       Trouble, vars

\* A key stays with its run.
LEMMA KeysStay ==
    ASSUME Inv, [Next]_vars, NEW t, NEW n, Keyed(t, n)
    PROVE  Keyed(t, n)'
<1> USE DEF Inv
<1>1. PICK i \in Ids : /\ run[i].st # "none" /\ ~run[i].own
                       /\ run[i].task = t /\ run[i].event = "ready" /\ run[i].n = n
  BY DEF Keyed
<1>2. CASE run' = run
  BY <1>1, <1>2 DEF Keyed
<1>3. ASSUME NEW j \in Ids, Ended(j) PROVE Keyed(t, n)'
  <2>1. run'[i].st # "none" /\ run'[i].own = run[i].own /\ run'[i].task = run[i].task
        /\ run'[i].event = run[i].event /\ run'[i].n = run[i].n
    BY <1>1, <1>3 DEF Ended, Closed
  <2> QED BY <1>1, <2>1 DEF Keyed
<1>4. ASSUME Began, run' # run PROVE Keyed(t, n)'
  <2>1. tick.id \in Ids /\ run[tick.id].st = "none" /\ Stored(tick.at = "own")
    BY <1>4 DEF Began, FreshInv, Types, Holding
  <2>2. run'[i] = run[i]
    BY <1>1, <2>1 DEF Stored, Types
  <2> QED BY <1>1, <2>2 DEF Keyed
<1> QED BY <1>2, <1>3, <1>4, Steps DEF Edited, Found, Looked, Took, Done, Crashed

\* What a step makes of the counts of a task, but for the taking and the undoing of a start.
Same(t) == task'[t].attempts = task[t].attempts /\ task'[t].rounds = task[t].rounds
Reset(t) == task'[t].attempts = 0 /\ task'[t].rounds \in {0, task[t].rounds}
Tried(t) == /\ task'[t].attempts = task[t].attempts + 1 /\ task'[t].rounds = task[t].rounds
            /\ troubles' = troubles + 1

LEMMA EditsCount ==
    ASSUME Inv, [Next]_vars, ~Take, ~Undo, NEW t \in Tasks
    PROVE  Same(t) \/ Reset(t) \/ Tried(t)
<1> USE DEF Inv
<1>1. task \in [Tasks -> TaskT] /\ \A u \in Tasks : task[u] \in TaskT
  BY DEF Types
<1>2. task' = task => Same(t)
  BY DEF Same
<1>3. ASSUME NEW u \in Tasks, LeaseEnded(u) PROVE Same(t)
  BY <1>1, <1>3 DEF LeaseEnded, TaskT, Same
<1>4. ASSUME Hand PROVE Same(t)
  BY <1>1, <1>4 DEF Hand, TaskT, Same
<1>5. ASSUME AskPerson PROVE Same(t)
  <2>1. CASE task' = task
    BY <1>2, <2>1
  <2>2. CASE task' # task
    <3>1. task' = [task EXCEPT ![tick.task] = [task[tick.task] EXCEPT !.status = "input-required",
                                                                     !.state = ChildrenState(tick.kids)]]
      BY <1>5, <2>2, PersonAsked
    <3> QED BY <1>1, <3>1 DEF TaskT, Same
  <2> QED BY <2>1, <2>2
<1>6. ASSUME Release PROVE Same(t)
  BY <1>1, <1>6 DEF Release, GivenBack, TaskT, Same
<1>7. ASSUME NEW i \in Ids, ToldGives(i) PROVE Same(t)
  BY <1>1, <1>7 DEF ToldGives, GivenBack, TaskT, Same
<1>8. ASSUME NEW u \in Tasks, NEW h, NEW to, Move(h, u, to) PROVE Same(t)
  BY <1>1, <1>8 DEF Move, TaskT, Same
<1>9. ASSUME NEW u \in Tasks, NEW h, NEW to, Complete(h, u, to) PROVE Same(t)
  BY <1>1, <1>9 DEF Complete, TaskT, Same
<1>10. ASSUME NEW i \in Ids, NEW k \in Kids, Split(i, k) PROVE Same(t) \/ Reset(t)
  BY <1>1, <1>10, Names DEF Split, New, Same, Reset
<1>11. ASSUME NEW u \in Tasks, NEW a \in Agents, Claim(a, u) PROVE Same(t) \/ Tried(t)
  BY <1>1, <1>11 DEF Claim, Trouble, TaskT, Same, Tried
<1>12. ASSUME NEW u \in Tasks, NEW a \in Agents, Heartbeat(a, u) PROVE Same(t)
  BY <1>1, <1>12 DEF Heartbeat, TaskT, Same
<1>13. ASSUME NEW u \in Tasks, LeaseRunsOut(u) PROVE Same(t)
  BY <1>1, <1>13 DEF LeaseRunsOut, TaskT, Same
<1>14. ASSUME NEW u \in Tasks, NEW to \in {"submitted", "canceled"}, Person(u, to) PROVE Same(t) \/ Reset(t)
  <2>1. PICK n \in {0, task[u].attempts} : task' = [task EXCEPT ![u] = [@ EXCEPT !.status = to, !.attempts = n]]
    BY <1>14 DEF Person
  <2> QED BY <1>1, <2>1 DEF TaskT, Same, Reset
<1>15. \/ \E u \in Tasks, event \in {"ready", "children"} : Find(u, event)
       \/ \E u \in Tasks : FindGone(u)
       \/ \E i \in Ids : StartFound(i) \/ ToldReads(i) \/ \E st \in Endings : RunEnds(i, st)
       \/ StartNew \/ StartOwn \/ StartFails \/ Crash \/ UNCHANGED vars
       => task' = task
  BY DEF Find, FindGone, StartFound, ToldReads, RunEnds, StartNew, StartOwn, StartFails, Crash, vars
<1> QED BY <1>2, <1>3, <1>4, <1>5, <1>6, <1>7, <1>8, <1>9, <1>10, <1>11, <1>12, <1>13, <1>14, <1>15 DEF Next, Tick

\* Where the task loop goes.
LEMMA TickMoves ==
    ASSUME Inv, [Next]_vars, ~Take, ~StartFails, ~Crash, \A i \in Ids : ~StartFound(i)
    PROVE  \/ tick' = tick
           \/ /\ tick'.at \in {"idle", "take", "ask", "release"} /\ tick'.n = 0
              /\ \/ tick.at \notin {"start"}
                 \/ StartNew
              /\ tick'.at = "take" => \E t \in Tasks, event \in {"ready", "children"} : Find(t, event)
<1> USE DEF Inv
<1>1. Idle.at = "idle" /\ Idle.n = 0
  BY DEF Idle
<1>2. ASSUME NEW t \in Tasks, NEW event \in {"ready", "children"}, Find(t, event)
      PROVE  tick'.at \in {"ask", "take"} /\ tick'.n = 0 /\ tick.at = "idle"
  BY <1>2 DEF Find, Idle
<1>3. ASSUME NEW t \in Tasks, FindGone(t) PROVE tick'.at = "release" /\ tick'.n = 0 /\ tick.at = "idle"
  BY <1>3 DEF FindGone, Idle
<1>4. ASSUME StartOwn \/ Hand \/ Undo \/ AskPerson \/ Release PROVE tick' = Idle /\ tick.at # "start"
  BY <1>4 DEF StartOwn, Hand, Undo, AskPerson, Release
<1>5. ASSUME StartNew PROVE tick' = Idle
  BY <1>5 DEF StartNew
<1>6. ASSUME NEW t \in Tasks, LeaseEnded(t) PROVE tick' = tick
  BY <1>6 DEF LeaseEnded
<1>7. ASSUME ~Tick PROVE tick' = tick
  BY <1>7 DEF Next, ToldReads, ToldGives, Split, RunEnds, Move, Complete, Claim, Heartbeat, LeaseRunsOut, Person, vars
<1> QED BY <1>1, <1>2, <1>3, <1>4, <1>5, <1>6, <1>7 DEF Tick

\* What the counts are made of, as numbers.
LEMMA Countable ==
    ASSUME Types
    PROVE  /\ troubles \in Nat /\ tick.n \in Nat /\ MaxRounds \in Nat /\ MaxAttempts \in Nat \ {0} /\ MaxTroubles \in Nat
           /\ \A t \in Tasks : /\ task[t].attempts \in Nat /\ task[t].rounds \in Nat
                               /\ Unpaid(t) \subseteq 1 .. task[t].attempts
           /\ tick.n # 0 => tick.n - 1 \in Nat
           /\ Before \subseteq 1 .. tick.n - 1
           /\ tick.task \in Tasks /\ tick.event \in {"ready", "children"}
BY LimitsAssumption DEF Types, TaskT, TickT, Unpaid, Before

\* An attempt that no run stands for was paid with a trouble.
LEMMA PaidStep ==
    ASSUME Inv, CountInv, [Next]_vars
    PROVE  PaidInv'
<1> USE DEF Inv
<1> DEFINE Under == tick.at \in {"start", "own", "undo"} /\ tick.event = "ready"
           Paid(t) == Cardinality(Unpaid(t)') <= troubles'
<1>1. \A t \in Tasks : Cardinality(Unpaid(t)) <= troubles
  BY DEF CountInv, PaidInv
<1>2. Under => Cardinality(Before) <= troubles /\ tick.n # 0
  BY DEF CountInv, PaidInv, Types
<1>3. troubles' \in Nat /\ troubles <= troubles'
  BY TroublesCount, Countable
<1>4. ASSUME NEW t \in Tasks, Unpaid(t)' \subseteq Unpaid(t) PROVE Paid(t)
  BY <1>1, <1>3, <1>4, Countable, Fewer
<1>5. ASSUME NEW t \in Tasks, NEW x, Unpaid(t)' \subseteq Unpaid(t) \cup {x}, troubles' = troubles + 1 PROVE Paid(t)
  <2>1. task[t].attempts \in Nat /\ Unpaid(t) \subseteq 1 .. task[t].attempts /\ troubles \in Nat
    BY Countable
  <2>2. /\ Cardinality(Unpaid(t)') <= Cardinality(Unpaid(t)) + 1
        /\ Cardinality(Unpaid(t)) \in Nat /\ Cardinality(Unpaid(t)') \in Nat
    BY <1>5, <2>1, OneMore
  <2>3. Cardinality(Unpaid(t)) <= troubles
    BY <1>1
  <2> QED BY <1>5, <2>1, <2>2, <2>3
<1>6. ASSUME NEW t \in Tasks, Unpaid(t)' \subseteq Before, Under PROVE Paid(t)
  BY <1>2, <1>3, <1>6, Countable, Fewer
<1>7. ASSUME Before' \subseteq Before, Under PROVE Cardinality(Before') <= troubles'
  BY <1>2, <1>3, <1>7, Countable, Fewer
<1>8. ASSUME NEW t \in Tasks, Before' \subseteq Unpaid(t) PROVE Cardinality(Before') <= troubles'
  BY <1>1, <1>3, <1>8, Countable, Fewer
<1>9. \A t, n : Keyed(t, n) => Keyed(t, n)'
  BY KeysStay
<1>10. tick.task \in Tasks /\ tick.event \in {"ready", "children"} /\ \A t \in Tasks : task[t].attempts \in Nat
  BY Countable
<1> HIDE DEF Paid
<1> SUFFICES /\ \A t \in Tasks : Paid(t)
             /\ Under' => Cardinality(Before') <= troubles'
  BY DEF PaidInv, Paid
<1>11. CASE Take
  <2>1. tick.at = "take" /\ task \in [Tasks -> TaskT] /\ tick \in TickT /\ tick.n = 0
    BY <1>11 DEF Take, Types, CountInv
  <2>2. CASE tick'.at = "idle"
    <3>1. task' = task
      BY <1>11, <2>2 DEF Take, Types, TickT
    <3>2. \A t \in Tasks : Unpaid(t)' \subseteq Unpaid(t)
      BY <1>9, <2>1, <3>1 DEF Unpaid, Starting
    <3> QED BY <1>4, <2>2, <3>2
  <2>3. CASE tick'.at # "idle"
    <3>1. /\ tick'.at = "start" /\ tick'.task = tick.task /\ tick'.event = tick.event
          /\ \A u \in Tasks \ {tick.task} : task'[u] = task[u]
          /\ \/ tick.event = "ready" /\ tick'.n = task[tick.task].attempts + 1 /\ task'[tick.task].attempts = tick'.n
             \/ tick.event = "children" /\ task'[tick.task].attempts = task[tick.task].attempts
      BY <1>11, <2>3, TakeTakes DEF Took
    <3>2. ASSUME NEW t \in Tasks PROVE Unpaid(t)' \subseteq Unpaid(t)
      <4>1. CASE t = tick.task /\ tick.event = "ready"
        <5>1. \A n \in Unpaid(t)' : n \in 1 .. task[t].attempts + 1 /\ n # task[t].attempts + 1 /\ ~Keyed(t, n)
          BY <1>9, <3>1, <4>1 DEF Unpaid, Starting
        <5> QED BY <1>10, <2>1, <5>1 DEF Unpaid, Starting
      <4>2. CASE ~(t = tick.task /\ tick.event = "ready")
        <5>1. task'[t].attempts = task[t].attempts
          BY <3>1, <4>2
        <5> QED BY <1>9, <2>1, <5>1 DEF Unpaid, Starting
      <4> QED BY <4>1, <4>2
    <3>3. Under' => Before' \subseteq Unpaid(tick.task)
      <4>1. ASSUME Under' PROVE tick'.n - 1 = task[tick.task].attempts
        BY <1>10, <3>1, <4>1
      <4> QED BY <1>9, <2>1, <3>1, <4>1 DEF Before, Unpaid, Starting
    <3> QED BY <1>4, <1>8, <1>10, <3>2, <3>3
  <2> QED BY <2>2, <2>3
<1>12. CASE Undo
  <2>1. tick.at = "undo" /\ tick'.at = "idle" /\ task \in [Tasks -> TaskT] /\ tick \in TickT
    BY <1>12 DEF Undo, Idle, Types
  <2>2. ASSUME NEW t \in Tasks PROVE Paid(t)
    <3>1. CASE t = tick.task /\ PutBack /\ tick.event = "ready"
      <4>1. task'[t].attempts = tick.n - 1
        BY <3>1 DEF PutBack
      <4>2. Unpaid(t)' \subseteq Before
        BY <1>9, <3>1, <4>1 DEF Unpaid, Before
      <4> QED BY <1>6, <2>1, <3>1, <4>2
    <3>2. CASE ~(t = tick.task /\ PutBack /\ tick.event = "ready")
      <4>1. task'[t].attempts = task[t].attempts
        BY <1>12, <2>1, <3>2, UndoEnds DEF Done, Kept, Handed, PutBack, Asked
      <4>2. Unpaid(t)' \subseteq Unpaid(t)
        BY <1>9, <2>1, <4>1 DEF Unpaid, Starting
      <4> QED BY <1>4, <4>2
    <3> QED BY <3>1, <3>2
  <2> QED BY <2>1, <2>2
<1>13. ASSUME NEW i \in Ids, StartFound(i)
       PROVE  (\A t \in Tasks : Paid(t)) /\ (Under' => Cardinality(Before') <= troubles')
  <2>1. Found(i) /\ task' = task /\ run' = run
    BY <1>13, StartFoundFinds DEF Found
  <2>2. \A t \in Tasks : \A n : Starting(t, n) => Keyed(t, n)
    BY <2>1 DEF Found, Starting, Known, Keyed
  <2>3. \A t \in Tasks : Unpaid(t)' \subseteq Unpaid(t)
    BY <1>9, <2>1, <2>2 DEF Unpaid
  <2>4. Under' => Under /\ Before' \subseteq Before
    BY <1>9, <2>1 DEF Found, Before
  <2> QED BY <1>4, <1>7, <2>3, <2>4
<1>14. CASE StartFails
  <2>1. /\ troubles' = troubles + 1 /\ task' = task /\ tick.at \in {"start", "own"} /\ tick'.at = "undo"
        /\ tick'.task = tick.task /\ tick'.event = tick.event /\ tick'.n = tick.n
    BY <1>14 DEF StartFails, Trouble, Types, TickT
  <2>2. \A t \in Tasks : Unpaid(t)' \subseteq Unpaid(t) \cup {tick.n}
    BY <1>9, <2>1 DEF Unpaid, Starting
  <2>3. Under' => Under /\ Before' \subseteq Before
    BY <1>9, <2>1 DEF Before
  <2> QED BY <1>5, <1>7, <2>1, <2>2, <2>3
<1>15. CASE Crash
  <2>1. troubles' = troubles + 1 /\ task' = task /\ tick'.at = "idle"
    BY <1>15 DEF Crash, Trouble, Idle
  <2>2. \A t \in Tasks : Unpaid(t)' \subseteq Unpaid(t) \cup {tick.n}
    BY <1>9, <2>1 DEF Unpaid, Starting
  <2> QED BY <1>5, <2>1, <2>2
<1>16. ASSUME ~Take, ~Undo, ~StartFails, ~Crash, \A i \in Ids : ~StartFound(i)
       PROVE  (\A t \in Tasks : Paid(t)) /\ (Under' => Cardinality(Before') <= troubles')
  <2>1. ASSUME NEW t \in Tasks, NEW n, Starting(t, n) PROVE Starting(t, n)' \/ Keyed(t, n)'
    <3>1. CASE tick' = tick
      BY <2>1, <3>1 DEF Starting
    <3>2. CASE StartNew
      <4>1. tick.id \in Ids /\ run'[tick.id] =
                [st |-> "live", task |-> tick.task, event |-> tick.event, n |-> tick.n, own |-> FALSE]
        BY <3>2 DEF StartNew, Stored, Types
      <4> QED BY <2>1, <4>1 DEF Starting, Keyed
    <3> QED BY <1>16, <2>1, <3>1, <3>2, TickMoves DEF Starting
  <2>2. ASSUME NEW t \in Tasks PROVE Paid(t)
    <3>1. \A n \in Unpaid(t)' : n \in 1 .. task'[t].attempts /\ ~Keyed(t, n) /\ ~Starting(t, n)
      BY <1>9, <2>1 DEF Unpaid
    <3>2. CASE Same(t) \/ Reset(t)
      <4>1. Unpaid(t)' \subseteq Unpaid(t)
        BY <1>10, <3>1, <3>2 DEF Unpaid, Same, Reset
      <4> QED BY <1>4, <4>1
    <3>3. CASE Tried(t)
      <4>1. Unpaid(t)' \subseteq Unpaid(t) \cup {task[t].attempts + 1} /\ troubles' = troubles + 1
        BY <1>10, <3>1, <3>3 DEF Unpaid, Tried
      <4> QED BY <1>5, <4>1
    <3> QED BY <1>16, <3>2, <3>3, EditsCount
  <2>3. Under' => Under /\ Before' \subseteq Before
    BY <1>9, <1>16, TickMoves DEF Before
  <2> QED BY <1>7, <2>2, <2>3
<1> QED BY <1>11, <1>12, <1>13, <1>14, <1>15, <1>16

\* A coordinator is called for a round only when one is left.
LEMMA RoundsStep ==
    ASSUME Inv, CountInv, [Next]_vars
    PROVE  RoundsInv'
<1> USE DEF Inv
<1>1. /\ \A t \in Tasks : task[t].rounds \in Nat /\ task[t].rounds <= MaxRounds
      /\ tick.at = "take" /\ tick.event = "children" => task[tick.task].rounds < MaxRounds
      /\ tick.at \in {"start", "own", "undo"} /\ tick.event = "children" => tick.n <= MaxRounds
  BY Countable DEF CountInv, RoundsInv
<1>2. /\ tick.task \in Tasks /\ tick.event \in {"ready", "children"} /\ tick.n \in Nat /\ MaxRounds \in Nat
      /\ tick.at = "undo" => tick.n # 0
      /\ tick \in TickT /\ task \in [Tasks -> TaskT]
  BY Countable DEF Types
<1>3. ASSUME NEW t \in Tasks, task'[t].rounds = task[t].rounds PROVE task'[t].rounds <= MaxRounds
  BY <1>1, <1>3
<1>4. CASE Take
  <2>1. tick.at = "take"
    BY <1>4 DEF Take
  <2>2. CASE tick' = Idle /\ task' = task
    BY <1>1, <2>2 DEF RoundsInv, Idle
  <2>3. CASE ~(tick' = Idle /\ task' = task) /\ tick.event = "ready"
    <3>1. /\ task' = [task EXCEPT ![tick.task] = [task[tick.task] EXCEPT !.status = "working", !.by = tick.id,
                                                        !.lease = "none", !.attempts = task[tick.task].attempts + 1]]
          /\ tick' = [tick EXCEPT !.at = "start", !.n = task[tick.task].attempts + 1]
      BY <1>4, <2>3 DEF Take
    <3>2. \A t \in Tasks : task'[t].rounds = task[t].rounds
      BY <1>2, <3>1 DEF TaskT
    <3>3. tick'.at = "start" /\ tick'.event = "ready"
      BY <1>2, <2>3, <3>1 DEF TickT
    <3> QED BY <1>3, <3>2, <3>3 DEF RoundsInv
  <2>4. CASE ~(tick' = Idle /\ task' = task) /\ tick.event = "children"
    <3>1. /\ task' = [task EXCEPT ![tick.task] = [task[tick.task] EXCEPT !.by = tick.id, !.lease = "none",
                                                        !.rounds = task[tick.task].rounds + 1,
                                                        !.state = ChildrenState(tick.kids)]]
          /\ tick' = [tick EXCEPT !.at = "start", !.n = task[tick.task].rounds + 1]
      BY <1>4, <2>4 DEF Take
    <3>2. /\ \A t \in Tasks \ {tick.task} : task'[t].rounds = task[t].rounds
          /\ task'[tick.task].rounds = task[tick.task].rounds + 1
      BY <1>2, <3>1 DEF TaskT
    <3>3. tick'.at = "start" /\ tick'.n = task[tick.task].rounds + 1
      BY <1>2, <3>1 DEF TickT
    <3>4. task[tick.task].rounds + 1 <= MaxRounds
      BY <1>1, <1>2, <2>1, <2>4
    <3> QED BY <1>1, <1>3, <3>2, <3>3, <3>4 DEF RoundsInv
  <2> QED BY <1>2, <2>2, <2>3, <2>4
<1>5. CASE Undo
  <2>1. tick.at = "undo" /\ tick'.at = "idle"
    BY <1>5 DEF Undo, Idle
  <2>2. CASE task' = task
    BY <1>1, <2>1, <2>2 DEF RoundsInv
  <2>3. CASE task' # task /\ tick.event = "ready"
    <3>1. task' = [task EXCEPT ![tick.task] = [task[tick.task] EXCEPT !.status = "submitted",
                                                    !.attempts = tick.n - 1, !.by = Nobody, !.state = NoState]]
      BY <1>5, <2>3 DEF Undo
    <3>2. \A t \in Tasks : task'[t].rounds = task[t].rounds
      BY <1>2, <3>1 DEF TaskT
    <3> QED BY <1>3, <2>1, <3>2 DEF RoundsInv
  <2>4. CASE task' # task /\ tick.event = "children"
    <3>1. task' = [task EXCEPT ![tick.task] = [task[tick.task] EXCEPT !.rounds = tick.n - 1, !.by = Nobody,
                                                                        !.state = NoState]]
      BY <1>5, <2>4 DEF Undo
    <3>2. /\ \A t \in Tasks \ {tick.task} : task'[t].rounds = task[t].rounds
          /\ task'[tick.task].rounds = tick.n - 1
      BY <1>2, <3>1 DEF TaskT
    <3>3. tick.n - 1 <= MaxRounds
      BY <1>1, <1>2, <2>1, <2>4
    <3> QED BY <1>3, <2>1, <3>2, <3>3 DEF RoundsInv
  <2> QED BY <1>2, <2>2, <2>3, <2>4
<1>6. CASE StartFails \/ Crash \/ \E i \in Ids : StartFound(i)
  <2>1. task' = task
    BY <1>6 DEF StartFails, Crash, StartFound
  <2>2. CASE Crash
    <3>1. tick'.at = "idle"
      BY <2>2 DEF Crash, Idle
    <3> QED BY <1>1, <2>1, <3>1 DEF RoundsInv
  <2>3. CASE StartFails
    <3>1. tick'.at = "undo" /\ tick'.event = tick.event /\ tick'.n = tick.n /\ tick.at \in {"start", "own"}
      BY <1>2, <2>3 DEF StartFails, TickT
    <3> QED BY <1>1, <2>1, <3>1 DEF RoundsInv
  <2>4. ASSUME NEW i \in Ids, StartFound(i) PROVE RoundsInv'
    <3>1. \/ tick'.at = "hand"
          \/ tick'.at = "own" /\ tick'.event = tick.event /\ tick'.n = tick.n /\ tick.at = "start"
      BY <1>2, <2>4 DEF StartFound, TickT
    <3> QED BY <1>1, <2>1, <3>1 DEF RoundsInv
  <2> QED BY <1>6, <2>2, <2>3, <2>4
<1>7. ASSUME ~Take, ~Undo, ~StartFails, ~Crash, \A i \in Ids : ~StartFound(i) PROVE RoundsInv'
  <2>1. ASSUME NEW t \in Tasks PROVE task'[t].rounds \in {0, task[t].rounds}
    BY <1>7, EditsCount DEF Same, Reset, Tried
  <2>2. \A t \in Tasks : task'[t].rounds <= MaxRounds
    BY <1>1, <1>2, <2>1
  <2>3. CASE tick' = tick
    <3>1. tick.at = "take" /\ tick.event = "children" => task'[tick.task].rounds < MaxRounds
      BY <1>1, <1>2, <2>1
    <3> QED BY <1>1, <2>2, <2>3, <3>1 DEF RoundsInv
  <2>4. ASSUME NEW t \in Tasks, NEW event \in {"ready", "children"}, Find(t, event), tick'.at = "take" PROVE RoundsInv'
    <3>1. task' = task /\ tick'.task = t /\ tick'.event = event
      BY <2>4 DEF Find, Idle
    <3>2. event = "children" => ~(task[t].rounds >= MaxRounds)
      BY <2>4 DEF Find, Idle
    <3> QED BY <1>1, <1>2, <2>2, <2>4, <3>1, <3>2 DEF RoundsInv
  <2> QED BY <1>7, <2>2, <2>3, <2>4, TickMoves DEF RoundsInv
<1> QED BY <1>4, <1>5, <1>6, <1>7

\* The counts stay within what the bounds allow.
LEMMA CountsHold ==
    ASSUME Inv, CountInv
    PROVE  /\ \A t \in Tasks : task[t].attempts \in Counts /\ task[t].rounds \in Counts
           /\ tick.at \in {"start", "own", "undo"} => tick.n \in Counts
<1> USE DEF Inv
<1>0. /\ troubles \in Nat /\ troubles <= MaxTroubles
      /\ \A t \in Tasks : task[t].attempts \in Nat /\ task[t].rounds \in Nat /\ task[t].rounds <= MaxRounds
      /\ MaxRounds \in Nat /\ MaxAttempts \in Nat \ {0} /\ MaxTroubles \in Nat /\ tick.n \in Nat
      /\ tick.task \in Tasks /\ tick.event \in {"ready", "children"}
  BY Countable DEF CountInv, RoundsInv
<1>1. Cardinality(Ids) \in Nat
  BY LimitsAssumption, FS_CardinalityType
<1>2. \A n \in Nat : n <= Cardinality(Ids) + MaxTroubles + 1 \/ n <= MaxRounds => n \in Counts
  BY <1>0, <1>1 DEF Counts
<1>3. ASSUME NEW t \in Tasks PROVE task[t].attempts <= Cardinality(Ids) + MaxTroubles + 1
  <2> DEFINE M == {n \in 1 .. task[t].attempts : ~Keyed(t, n)}
  <2>1. M \subseteq Unpaid(t) \cup {tick.n}
    BY DEF Unpaid, Starting
  <2>2. Unpaid(t) \subseteq 1 .. task[t].attempts
    BY DEF Unpaid
  <2>3. Cardinality(M) <= Cardinality(Unpaid(t)) + 1 /\ Cardinality(M) \in Nat /\ Cardinality(Unpaid(t)) \in Nat
    BY <1>0, <2>1, <2>2, OneMore
  <2>4. task[t].attempts <= Cardinality(Ids) + Cardinality(M)
    BY <1>0, CountedByRuns
  <2>5. Cardinality(Unpaid(t)) <= troubles
    BY DEF CountInv, PaidInv
  <2> HIDE DEF M
  <2> QED BY <1>0, <1>1, <2>3, <2>4, <2>5
<1>4. ASSUME tick.at \in {"start", "own", "undo"} PROVE tick.n \in Counts
  <2>1. CASE tick.event = "children"
    BY <1>0, <1>2, <1>4, <2>1 DEF CountInv, RoundsInv
  <2>2. CASE tick.event = "ready"
    <3>1. tick.n - 1 \in Nat
      BY <1>0, <1>4 DEF Types
    <3>2. tick.n - 1 <= Cardinality(Ids) + Cardinality(Before)
      BY <1>0, <3>1, CountedByRuns DEF Before
    <3>3. Cardinality(Before) <= troubles
      BY <1>4, <2>2 DEF CountInv, PaidInv
    <3>4. Cardinality(Before) \in Nat
      BY <3>1, Countable, Fewer
    <3> QED BY <1>0, <1>1, <1>2, <3>1, <3>2, <3>3, <3>4
  <2> QED BY <1>0, <2>1, <2>2
<1> QED BY <1>0, <1>2, <1>3, <1>4

\* What is stored with a run is the count its task was taken with.
LEMMA CountStep ==
    ASSUME Inv, CountInv, [Next]_vars
    PROVE  CountInv'
<1> USE DEF Inv
<1>1. troubles' <= MaxTroubles
  BY TroublesCount, Countable DEF CountInv
<1>2. \A i \in Ids : run'[i].n \in Counts
  <2>1. \A i \in Ids : run[i].n \in Counts
    BY DEF CountInv
  <2>2. CASE run' = run
    BY <2>1, <2>2
  <2>3. ASSUME NEW i \in Ids, Ended(i) PROVE \A j \in Ids : run'[j].n \in Counts
    BY <2>1, <2>3 DEF Ended
  <2>4. ASSUME Began, run' # run PROVE \A j \in Ids : run'[j].n \in Counts
    <3>1. tick.at \in {"start", "own"} /\ Stored(tick.at = "own")
      BY <2>4 DEF Began
    <3>2. tick.n \in Counts
      BY <3>1, CountsHold
    <3> QED BY <2>1, <3>1, <3>2 DEF Stored, Types
  <2> QED BY <2>2, <2>3, <2>4, Steps DEF Edited, Found, Looked, Took, Done, Crashed
<1>3. tick'.at \in {"idle", "take", "ask", "release"} => tick'.n = 0
  <2>1. CASE Take
    <3>1. tick' = Idle \/ tick'.at = "start"
      BY <2>1 DEF Take, Types, TickT
    <3> QED BY <3>1 DEF Idle
  <2>2. CASE StartFails \/ Crash \/ \E i \in Ids : StartFound(i)
    <3>1. tick' = Idle \/ tick'.at \in {"own", "hand", "undo"}
      BY <2>2 DEF StartFails, Crash, StartFound, Types, TickT
    <3> QED BY <3>1 DEF Idle
  <2>3. CASE ~Take /\ ~StartFails /\ ~Crash /\ \A i \in Ids : ~StartFound(i)
    BY <2>3, TickMoves DEF CountInv
  <2> QED BY <2>1, <2>2, <2>3
<1> QED BY <1>1, <1>2, <1>3, PaidStep, RoundsStep DEF CountInv

-----------------------------------------------------------------------------
(* Theorems *)

\* The tasks at first, and the change that split the objective.
LEMMA NewTasks ==
    ASSUME Init
    PROVE  /\ task \in [Tasks -> {New("submitted"), New("none"), New("working")}]
           /\ troubles \in Nat /\ troubles <= MaxTroubles
<1>1. PICK split \in SUBSET Kids :
         /\ task = [t \in Tasks |-> New(CASE t \in split -> "submitted"
                                          [] t \in Kids \ split -> "none"
                                          [] OTHER -> IF split = {} THEN "submitted" ELSE "working")]
         /\ troubles = (IF split = {} THEN 0 ELSE 1) /\ troubles <= MaxTroubles
  BY DEF Init
<1> DEFINE Status(t) == CASE t \in split -> "submitted"
                          [] t \in Kids \ split -> "none"
                          [] OTHER -> IF split = {} THEN "submitted" ELSE "working"
<1>2. \A t \in Tasks : Status(t) \in {"submitted", "none", "working"}
  OBVIOUS
<1>3. task = [t \in Tasks |-> New(Status(t))]
  BY <1>1
<1> HIDE DEF Status
<1>4. \A t \in Tasks : New(Status(t)) \in {New("submitted"), New("none"), New("working")}
  BY <1>2
<1> QED BY <1>1, <1>3, <1>4

LEMMA InitInv == Init => Inv
<1> SUFFICES ASSUME Init PROVE Inv
  OBVIOUS
<1>1. task \in [Tasks -> {New("submitted"), New("none"), New("working")}] /\ troubles \in Nat
  BY NewTasks
<1>2. \A status \in {"submitted", "none", "working"} : New(status) \in TaskT
  BY Names, NothingKnown DEF New, TaskT, Statuses
<1>3. NoRun \in RunT /\ Idle \in TickT /\ Idle.at = "idle" /\ NoRun.st = "none"
  BY Names, NothingKnown DEF NoRun, Idle, RunT, TickT, Views
<1>4. Types
  <2>1. task \in [Tasks -> TaskT]
    BY <1>1, <1>2 DEF Init
  <2> QED BY <1>3, <2>1 DEF Init, Types
<1>5. AttemptsInv
  <2>1. \A t \in Tasks : task[t].attempts = 0 /\ tick.at = "idle"
    BY <1>1, <1>3 DEF Init, New
  <2> QED BY <2>1, LimitsAssumption DEF AttemptsInv, Bounded
<1>6. \A i \in Ids : run[i].st = "none" /\ told[i] = "no"
  BY <1>3 DEF Init
<1>7. EndInv /\ FreshInv /\ TakenInv
  BY <1>3, <1>6 DEF Init, EndInv, FreshInv, TakenInv, Holding
<1>8. KeyInv /\ LiveInv /\ OneRunAtWork
  BY <1>6 DEF KeyInv, LiveInv, OneRunAtWork
<1> QED BY <1>4, <1>5, <1>7, <1>8 DEF Inv

THEOREM Invariance == Spec => []Inv
<1>1. Inv /\ [Next]_vars => Inv'
  <2> SUFFICES ASSUME Inv, [Next]_vars PROVE Inv'
    OBVIOUS
  <2> QED BY TypesStep, AttemptsStep, EndStep, FreshStep, KeyStep, TakenStep, LiveStep, OneStep DEF Inv
<1> QED BY InitInv, <1>1, PTL DEF Spec

\* The notes, the rows of the runs and the loop are what they are declared to be, and the counts have bounds:
\* an attempt at a task is one of its runs' or was a trouble, and no coordinator is called for more rounds
\* than there are (startTask, askPerson).
THEOREM TasksTyped == Spec => []TypeOK
<1>1. Init => CountInv
  <2> SUFFICES ASSUME Init PROVE CountInv
    OBVIOUS
  <2>1. /\ \A t \in Tasks : task[t].attempts = 0 /\ task[t].rounds = 0
        /\ tick.at = "idle" /\ tick.n = 0 /\ \A i \in Ids : run[i].n = 0
        /\ troubles \in Nat /\ troubles <= MaxTroubles
    BY NewTasks DEF Init, New, Idle, NoRun
  <2>2. 0 \in Counts /\ 0 <= MaxRounds
    <3>1. Cardinality(Ids) \in Nat
      BY LimitsAssumption, FS_CardinalityType
    <3> QED BY <3>1, LimitsAssumption DEF Counts
  <2>3. PaidInv
    <3>1. \A t \in Tasks : Unpaid(t) = {}
      BY <2>1 DEF Unpaid
    <3>2. Cardinality({}) = 0
      BY FS_EmptySet
    <3> QED BY <2>1, <3>1, <3>2 DEF PaidInv
  <2>4. RoundsInv
    BY <2>1, <2>2 DEF RoundsInv
  <2> QED BY <2>1, <2>2, <2>3, <2>4 DEF CountInv
<1>2. Inv /\ CountInv /\ [Next]_vars => CountInv'
  BY CountStep
<1>3. Init => HistoryInv
  BY NothingKnown DEF Init, HistoryInv
<1>4. Inv /\ HistoryInv /\ [Next]_vars => HistoryInv'
  <2> SUFFICES ASSUME Inv, HistoryInv, [Next]_vars PROVE HistoryInv'
    OBVIOUS
  <2>1. tick.task \in Tasks
    BY Countable DEF Inv
  <2>2. \/ loose' = loose
        \/ loose' = loose \cup {tick.task}
        \/ \E t \in Tasks : loose' = loose \cup {t}
    BY DEF Next, Tick, Find, FindGone, LeaseEnded, StartFound, Take, StartNew, StartOwn, StartFails, Hand, Undo,
           AskPerson, Release, ToldReads, ToldGives, Split, RunEnds, Move, Complete, Claim, Heartbeat, LeaseRunsOut,
           Person, Crash, vars
  <2>3. orphan' = orphan \/ orphan' = orphan \cup {tick.task}
    BY DEF Next, Tick, Find, FindGone, LeaseEnded, StartFound, Take, StartNew, StartOwn, StartFails, Hand, Undo,
           AskPerson, Release, ToldReads, ToldGives, Split, RunEnds, Move, Complete, Claim, Heartbeat, LeaseRunsOut,
           Person, Crash, vars
  <2>4. heard' = heard \/ heard' = tick.kids \/ heard' = NoKids
    BY DEF Next, Tick, Find, FindGone, LeaseEnded, StartFound, Take, StartNew, StartOwn, StartFails, Hand, Undo,
           AskPerson, Release, ToldReads, ToldGives, Split, RunEnds, Move, Complete, Claim, Heartbeat, LeaseRunsOut,
           Person, Crash, vars
  <2>5. tick.kids \in [Kids -> Statuses]
    BY DEF Inv, Types, TickT
  <2> QED BY <2>1, <2>2, <2>3, <2>4, <2>5, NothingKnown DEF HistoryInv
<1>5. Inv /\ CountInv /\ HistoryInv => TypeOK
  <2> SUFFICES ASSUME Inv, CountInv, HistoryInv PROVE TypeOK
    OBVIOUS
  <2>1. ASSUME NEW t \in Tasks
        PROVE  task[t] \in [status : Statuses, by : Holders, lease : {"none", "live", "over"},
                            attempts : Counts, rounds : Counts, state : States]
    BY CountsHold DEF Inv, Types, TaskT
  <2>2. ASSUME NEW i \in Ids
        PROVE  run[i] \in [st : {"none", "live"} \cup Closed, task : Tasks, event : {"ready", "children"},
                           n : Counts, own : BOOLEAN]
    BY DEF Inv, Types, RunT, CountInv
  <2>3. tick.n \in Counts \cup Ids
    <3>1. tick.at \in {"idle", "take", "ask", "release"} \cup Holding
      BY DEF Inv, Types, TickT
    <3>2. 0 \in Counts
      BY LimitsAssumption, FS_CardinalityType DEF Counts
    <3> QED BY <3>1, <3>2, CountsHold DEF Inv, Types, CountInv, Holding
  <2>4. tick \in [at : {"idle", "take", "ask", "start", "own", "hand", "undo", "release"}, task : Tasks,
                  event : {"ready", "children"}, n : Counts \cup Ids, id : Ids \cup {0},
                  kids : [Kids -> Statuses], view : Views]
    BY <2>3 DEF Inv, Types, TickT, Holding
  <2>5. troubles \in 0 .. MaxTroubles
    BY Countable DEF Inv, CountInv
  <2>6. task \in [Tasks -> [status : Statuses, by : Holders, lease : {"none", "live", "over"},
                            attempts : Counts, rounds : Counts, state : States]]
    BY <2>1 DEF Inv, Types
  <2>7. run \in [Ids -> [st : {"none", "live"} \cup Closed, task : Tasks, event : {"ready", "children"},
                         n : Counts, own : BOOLEAN]]
    BY <2>2 DEF Inv, Types
  <2>8. told \in [Ids -> {"no", "told"} \cup Views]
    BY DEF Inv, Types
  <2> QED BY <2>4, <2>5, <2>6, <2>7, <2>8 DEF TypeOK, HistoryInv
<1> QED BY Invariance, <1>1, <1>2, <1>3, <1>4, <1>5, PTL DEF Spec

\* No task is tried more than max_attempts times as long as nobody sends it
\* again: the count is taken with the task, set back when the start fails, and
\* read when the run has failed.
THEOREM TriesAreBounded == Spec => []AttemptsBounded
<1>1. Inv => AttemptsBounded
  BY DEF Inv, AttemptsInv, Bounded, AttemptsBounded
<1> QED BY Invariance, <1>1, PTL

\* No two runs work on a task at once as long as only the task loop gives and
\* takes it, whatever starts fail, with their run stored or not, and wherever
\* the server stops.
THEOREM WorkIsNotDoubled == Spec => []OneRunAtWork
<1>1. Inv => OneRunAtWork
  BY DEF Inv
<1> QED BY Invariance, <1>1, PTL

\* A closed task stays closed until a person or its holder sends it again,
\* whatever run of it ends and whatever start is under way; only the start that
\* failed gives back what a person closed meanwhile.
THEOREM ClosedIsClosed == Spec => ClosedStaysClosed
<1> DEFINE A == \A t \in Tasks :
                   IsClosed(t) /\ tick.at # "undo" => task'[t].status = task[t].status \/ SentAgain(t)
<1>1. Inv /\ [Next]_vars => [A]_vars
  <2>1. ASSUME Inv, [Next]_vars PROVE A
    BY <2>1, ClosedStep
  <2> QED BY <2>1
<1>2. Spec => [][A]_vars
  BY Invariance, <1>1, PTL DEF Spec
<1> QED BY <1>2 DEF ClosedStaysClosed

=============================================================================
