----------------------------- MODULE TaskTrigger -----------------------------
(***************************************************************************)
(* The task trigger (internal/pipeline/tasktrigger.go) and the tasks of a  *)
(* team (internal/fleet/task.go): who holds a task, how a run or an        *)
(* outside agent takes it, and how it is given back.                       *)
(*                                                                         *)
(* A task is a note.  Every change of it is one UpdateTask, made under the *)
(* note's lock from the note as it is then; between two of them anybody    *)
(* else may change it.  The tick, one goroutine, takes a task in the name  *)
(* of a run that does not exist yet, and then starts the run, which may be *)
(* another, stored before under the same idempotency key.  The end of a    *)
(* run is told on a goroutine of its own; a crash loses it, and the tick   *)
(* finds the hold of the ended run later.                                  *)
(***************************************************************************)
EXTENDS Integers, FiniteSets

CONSTANTS
    Objective,    \* the task its coordinator splits
    Kids,         \* the tasks it may be split into
    Agents,       \* the tokens of outside agents
    Nobody,       \* holds no task
    MaxAttempts,  \* [agents] max_attempts
    MaxRounds,    \* the team's max_rounds
    Ids,          \* bound: the ids of runs, 1, 2, ...
    Endings,      \* bound: how a run ends and a holder closes its task, of Closed
    MaxTroubles   \* bound: failed starts, claims of agents, changes by a person and crashes

Tasks == Kids \cup {Objective}

ASSUME TasksAssumption ==
    /\ IsFiniteSet(Kids) /\ Objective \notin Kids
    /\ Nobody \notin Agents \cup Ids /\ Agents \cap Ids = {}
ASSUME LimitsAssumption ==
    /\ MaxAttempts \in Nat \ {0} /\ MaxRounds \in Nat
    /\ Ids \subseteq Nat \ {0} /\ IsFiniteSet(Ids)
    /\ MaxTroubles \in Nat /\ Endings \subseteq {"completed", "failed", "canceled"}

VARIABLES
    task,    \* task[t]: the note of t
    run,     \* run[i]: the row of run i
    told,    \* told[i]: how far the callback of i's end went
    tick,    \* what the task loop is at
    troubles,  \* the failed starts, claims, changes by a person and crashes so far
    loose,   \* history: the tasks a person sent again, a holder let go or an agent
             \* took, or whose start under a key of its own failed
    orphan,  \* history: the tasks held by a run a crash kept from being stored
    heard    \* history: the sub-tasks' states the coordinator, or a person, was last called for

vars == <<task, run, told, tick, troubles, loose, orphan, heard>>

Closed == {"completed", "failed", "canceled"}
Statuses == {"none", "submitted", "working", "input-required", "review"} \cup Closed
Holders == Agents \cup Ids \cup {Nobody}

\* children_state: who calls the coordinator, and whether all are closed.
NoState == [all |-> FALSE, who |-> {}]
States == [all : BOOLEAN, who : SUBSET (Kids \X Statuses)]

NoKids == [k \in Kids |-> "none"]
NoRun == [st |-> "none", task |-> Objective, event |-> "ready", n |-> 0, own |-> FALSE]
Idle == [at |-> "idle", task |-> Objective, event |-> "ready", n |-> 0, id |-> 0, kids |-> NoKids, view |-> "alone"]
New(status) == [status |-> status, by |-> Nobody, lease |-> "none", attempts |-> 0, rounds |-> 0, state |-> NoState]

Views == {"open", "parent", "alone"}
Counts == 0 .. MaxAttempts + MaxRounds + MaxTroubles + Cardinality(Ids)

TypeOK ==
    /\ task \in [Tasks -> [status : Statuses, by : Holders, lease : {"none", "live", "over"},
                           attempts : Counts, rounds : Counts, state : States]]
    /\ run \in [Ids -> [st : {"none", "live"} \cup Closed, task : Tasks, event : {"ready", "children"},
                        n : Counts, own : BOOLEAN]]
    /\ told \in [Ids -> {"no", "told"} \cup Views]
    /\ tick \in [at : {"idle", "take", "ask", "start", "own", "hand", "undo", "release"}, task : Tasks,
                 event : {"ready", "children"}, n : Counts \cup Ids, id : Ids \cup {0},
                 kids : [Kids -> Statuses], view : Views]
    /\ troubles \in 0 .. MaxTroubles /\ loose \subseteq Tasks /\ orphan \subseteq Tasks
    /\ heard \in [Kids -> Statuses]

\* The objective is new, or a person split it and set it working, which is a change by a person.
Init ==
    /\ \E split \in SUBSET Kids :
       /\ task = [t \in Tasks |-> New(CASE t \in split -> "submitted"
                                        [] t \in Kids \ split -> "none"
                                        [] OTHER -> IF split = {} THEN "submitted" ELSE "working")]
       /\ troubles = (IF split = {} THEN 0 ELSE 1) /\ troubles <= MaxTroubles
    /\ run = [i \in Ids |-> NoRun] /\ told = [i \in Ids |-> "no"]
    /\ tick = Idle
    /\ loose = {} /\ orphan = {} /\ heard = NoKids

-----------------------------------------------------------------------------
(* Helpers.                                                                 *)

IsClosed(t) == task[t].status \in Closed
Trouble == troubles < MaxTroubles /\ troubles' = troubles + 1
Over(i) == run[i].st \in Closed

\* The moves of a task, by whoever holds it (Moves and Ends of fleet/task.go).
CanMove(from, to) ==
    to \in CASE from = "submitted" -> {"working", "input-required", "canceled"}
             [] from = "working" -> {"submitted", "input-required", "review"} \cup Closed
             [] from = "input-required" -> {"submitted", "working", "canceled", "failed"}
             [] from = "review" -> {"working", "submitted"} \cup Closed
             [] from \in {"failed", "canceled"} -> {"submitted"}
             [] OTHER -> {}

\* Free for a start: submitted, and no lease running (Waits, but for the tasks it
\* depends on, which are completed).
Ready(t) == task[t].status = "submitted" /\ task[t].lease # "live"

\* The sub-tasks as they are, those there are, and those that call the coordinator: all once they are
\* closed, else those that failed or wait for a person (childrenDone).
SubTasks == [k \in Kids |-> task[k].status]
There(kids) == {k \in Kids : kids[k] # "none"}
AllClosed(kids) == There(kids) # {} /\ \A k \in There(kids) : kids[k] \in Closed
Calls(kids) == IF AllClosed(kids) THEN There(kids) ELSE {k \in Kids : kids[k] \in {"failed", "input-required"}}
ChildrenDone(kids) == Calls(kids) # {}

\* A bug: the digest does not name the sub-tasks when all are closed.
CallsState(kids) ==
    [all |-> FALSE, who |-> {<<k, kids[k]>> : k \in {j \in Calls(kids) : kids[j] # "completed"}}]

ChildrenState(kids) == [all |-> AllClosed(kids), who |-> {<<k, kids[k]>> : k \in Calls(kids)}]

\* What giveBack reads of the other tasks.
View(t) == IF t # Objective \/ There(SubTasks) = {} THEN "alone"
           ELSE IF AllClosed(SubTasks) THEN "parent" ELSE "open"

-----------------------------------------------------------------------------
(* The tick.                                                                *)

\* The least id not used yet stands for a new one.
FreeIds == {i \in Ids : run[i].st = "none" /\ \A t \in Tasks : task[t].by # i}
NewId == CHOOSE i \in FreeIds : \A j \in FreeIds : i <= j

\* tickProject reads the tasks and finds one to start a run for.
Find(t, event) ==
    /\ tick = Idle
    /\ \/ event = "ready" /\ Ready(t)
       \/ /\ event = "children" /\ t = Objective
          /\ task[t].status = "working" /\ task[t].by = Nobody
          /\ ChildrenDone(SubTasks) /\ ChildrenState(SubTasks) # task[t].state
    /\ LET found == [Idle EXCEPT !.task = t, !.event = event, !.kids = IF event = "children" THEN SubTasks ELSE @] IN
        IF event = "children" /\ task[t].rounds >= MaxRounds
        THEN tick' = [found EXCEPT !.at = "ask"]
        ELSE FreeIds # {} /\ tick' = [found EXCEPT !.at = "take", !.id = NewId]
    /\ UNCHANGED <<task, run, told, troubles, loose, orphan, heard>>

\* startTask takes it for the run to come, from the note as it is by now, or
\* leaves it.
Take ==
    /\ tick.at = "take"
    /\ LET t == tick.task
           cur == task[t] IN
        IF tick.event = "ready"
        THEN IF cur.status = "submitted" /\ (cur.by = Nobody \/ cur.lease # "live")
             THEN /\ task' = [task EXCEPT ![t] = [cur EXCEPT !.status = "working", !.by = tick.id, !.lease = "none",
                                                             !.attempts = @ + 1]]
                  /\ tick' = [tick EXCEPT !.at = "start", !.n = cur.attempts + 1]
                  /\ UNCHANGED heard
             ELSE tick' = Idle /\ UNCHANGED <<task, heard>>
        ELSE IF cur.status = "working" /\ cur.by = Nobody
             THEN /\ task' = [task EXCEPT ![t] = [cur EXCEPT !.by = tick.id, !.lease = "none", !.rounds = @ + 1,
                                                             !.state = ChildrenState(tick.kids)]]
                  /\ tick' = [tick EXCEPT !.at = "start", !.n = cur.rounds + 1]
                  /\ heard' = tick.kids
             ELSE tick' = Idle /\ UNCHANGED <<task, heard>>
    /\ UNCHANGED <<run, told, troubles, loose, orphan>>

\* A bug: the key has the run's id in it, and finds no other.
KnownByItsId(i) == i = tick.id /\ run[i].st # "none"

\* The run stored before under the key of this start.
Known(i) ==
    /\ run[i].st # "none" /\ ~run[i].own
    /\ run[i].task = tick.task /\ run[i].event = tick.event /\ run[i].n = tick.n

Stored(own) ==
    run' = [run EXCEPT ![tick.id] =
        [st |-> "live", task |-> tick.task, event |-> tick.event, n |-> tick.n, own |-> own]]

\* Start: the key's run, when there is one: the task is its own, unless it
\* ended before, and then this attempt gets a run and a key of its own.
StartFound(i) ==
    /\ tick.at = "start" /\ Known(i)
    /\ tick' = IF Over(i) THEN [tick EXCEPT !.at = "own"] ELSE [tick EXCEPT !.at = "hand", !.n = i]
    /\ UNCHANGED <<task, run, told, troubles, loose, orphan, heard>>

StartNew ==
    /\ tick.at = "start" /\ ~\E i \in Ids : Known(i)
    /\ Stored(FALSE)
    /\ tick' = Idle
    /\ UNCHANGED <<task, told, troubles, loose, orphan, heard>>

StartOwn ==
    /\ tick.at = "own"
    /\ Stored(TRUE)
    /\ tick' = Idle
    /\ UNCHANGED <<task, told, troubles, loose, orphan, heard>>

\* An error of Start: before the run is stored, or after (its first advance).
StartFails ==
    /\ \/ tick.at = "own"
       \/ tick.at = "start" /\ ~\E i \in Ids : Known(i)
    /\ Trouble
    /\ \/ UNCHANGED run
       \/ Stored(tick.at = "own")
    /\ tick' = [tick EXCEPT !.at = "undo"]
    /\ loose' = IF tick.at = "own" THEN loose \cup {tick.task} ELSE loose
    /\ UNCHANGED <<task, told, orphan, heard>>

\* The key's run holds the task it was taken for.
Hand ==
    /\ tick.at = "hand"
    /\ task' = IF task[tick.task].by = tick.id THEN [task EXCEPT ![tick.task].by = tick.n] ELSE task
    /\ tick' = Idle
    /\ UNCHANGED <<run, told, troubles, loose, orphan, heard>>

\* A bug: the attempt stays counted.
UndoCounted ==
    /\ tick.at = "undo"
    /\ LET cur == task[tick.task]
           back == IF tick.event = "ready" THEN [cur EXCEPT !.status = "submitted"]
                   ELSE [cur EXCEPT !.rounds = tick.n - 1] IN
        task' = IF cur.by = tick.id
                THEN [task EXCEPT ![tick.task] = [back EXCEPT !.by = Nobody, !.state = NoState]]
                ELSE task
    /\ heard' = IF tick.task = Objective /\ task[Objective].by = tick.id THEN NoKids ELSE heard
    /\ tick' = Idle
    /\ UNCHANGED <<run, told, troubles, loose, orphan>>

\* A bug: the attempt before is taken back as well.
UndoTwice ==
    /\ tick.at = "undo"
    /\ LET cur == task[tick.task]
           back == IF tick.event = "ready" THEN [cur EXCEPT !.status = "submitted", !.attempts = tick.n - 2]
                   ELSE [cur EXCEPT !.rounds = tick.n - 1] IN
        task' = IF cur.by = tick.id
                THEN [task EXCEPT ![tick.task] = [back EXCEPT !.by = Nobody, !.state = NoState]]
                ELSE task
    /\ heard' = IF tick.task = Objective /\ task[Objective].by = tick.id THEN NoKids ELSE heard
    /\ tick' = Idle
    /\ UNCHANGED <<run, told, troubles, loose, orphan>>

\* A task whose run did not start is given back as it was.
Undo ==
    /\ tick.at = "undo"
    /\ LET cur == task[tick.task]
           back == IF tick.event = "ready" THEN [cur EXCEPT !.status = "submitted", !.attempts = tick.n - 1]
                   ELSE [cur EXCEPT !.rounds = tick.n - 1] IN
        task' = IF cur.by = tick.id
                THEN [task EXCEPT ![tick.task] = [back EXCEPT !.by = Nobody, !.state = NoState]]
                ELSE task
    /\ heard' = IF tick.task = Objective /\ task[Objective].by = tick.id THEN NoKids ELSE heard
    /\ tick' = Idle
    /\ UNCHANGED <<run, told, troubles, loose, orphan>>

\* The objective whose rounds are spent goes to a person (askPerson).
AskPerson ==
    /\ tick.at = "ask"
    /\ LET cur == task[tick.task] IN
        IF cur.status = "working" /\ cur.by = Nobody
        THEN /\ task' = [task EXCEPT ![tick.task] = [cur EXCEPT !.status = "input-required",
                                                              !.state = ChildrenState(tick.kids)]]
             /\ heard' = tick.kids
        ELSE UNCHANGED <<task, heard>>
    /\ tick' = Idle
    /\ UNCHANGED <<run, told, troubles, loose, orphan>>

\* leaseEnded, of a task an outside agent kept past its lease.
LeaseEnded(t) ==
    /\ tick = Idle
    /\ task[t].by \in Agents /\ task[t].lease = "over" /\ ~IsClosed(t)
    /\ LET after == IF task[t].attempts >= MaxAttempts THEN "failed" ELSE "submitted" IN
        task' = [task EXCEPT ![t] = [@ EXCEPT !.status = after, !.by = Nobody, !.lease = "none"]]
    /\ UNCHANGED <<run, told, tick, troubles, loose, orphan, heard>>

\* A hold whose run ended, as the tick reads it.
FindGone(t) ==
    /\ tick = Idle
    /\ task[t].by \in Ids /\ ~IsClosed(t) /\ Over(task[t].by)
    /\ tick' = [Idle EXCEPT !.at = "release", !.task = t, !.id = task[t].by, !.view = View(t)]
    /\ UNCHANGED <<task, run, told, troubles, loose, orphan, heard>>

-----------------------------------------------------------------------------
(* The end of a run gives its task back.                                    *)

\* A bug: the state a person put the task in is not looked at.
AfterRunBlind(t, i, view) ==
    CASE view = "open" -> "working"
      [] view # "open" /\ run[i].st = "failed" ->
            IF task[t].attempts >= MaxAttempts THEN "failed" ELSE "submitted"
      [] OTHER -> "input-required"

\* The state the task of run i goes to (giveBack).
AfterRun(t, i, view) ==
    CASE IsClosed(t) \/ task[t].status = "input-required" -> task[t].status
      [] task[t].status = "review" -> "input-required"
      [] task[t].status \in {"none", "submitted", "working"} ->
            IF view = "open" THEN "working"
            ELSE IF run[i].st = "failed"
            THEN IF task[t].attempts >= MaxAttempts THEN "failed" ELSE "submitted"
            ELSE "input-required"

\* A bug: the hold goes on.
NotGivenBack(t, i, view) == UNCHANGED task

GivenBack(t, i, view) ==
    task' = IF task[t].by # i THEN task
            ELSE [task EXCEPT ![t] = [@ EXCEPT !.status = AfterRun(t, i, view), !.by = Nobody, !.lease = "none"]]

Release ==
    /\ tick.at = "release"
    /\ GivenBack(tick.task, tick.id, tick.view)
    /\ tick' = Idle
    /\ UNCHANGED <<run, told, troubles, loose, orphan, heard>>

\* taskRunEnded: the tasks read, then the one of the run.
ToldReads(i) ==
    /\ told[i] = "told"
    /\ told' = [told EXCEPT ![i] = View(run[i].task)]
    /\ UNCHANGED <<task, run, tick, troubles, loose, orphan, heard>>

ToldGives(i) ==
    /\ told[i] \in Views
    /\ GivenBack(run[i].task, i, told[i])
    /\ told' = [told EXCEPT ![i] = "no"]
    /\ UNCHANGED <<run, tick, troubles, loose, orphan, heard>>

-----------------------------------------------------------------------------
(* The holders, the persons, time and the crash.                            *)

\* A holder moves its task (fleet.Update): back to submitted it lets it go.
Move(h, t, to) ==
    /\ task[t].by = h /\ h # Nobody /\ (h \in Ids => run[h].st = "live")
    /\ to \in {"working", "input-required", "review", "submitted"}
    /\ to = task[t].status \/ CanMove(task[t].status, to)
    /\ task' = [task EXCEPT ![t] = IF to = "submitted" THEN [@ EXCEPT !.status = to, !.by = Nobody, !.lease = "none"]
                                   ELSE [@ EXCEPT !.status = to]]
    /\ loose' = IF to = "submitted" THEN loose \cup {t} ELSE loose
    /\ UNCHANGED <<run, told, tick, troubles, orphan, heard>>

\* A holder closes its task (fleet.Complete).
Complete(h, t, to) ==
    /\ task[t].by = h /\ h # Nobody /\ (h \in Ids => run[h].st = "live")
    /\ to \in Endings /\ CanMove(task[t].status, to)
    /\ task' = [task EXCEPT ![t] = [@ EXCEPT !.status = to, !.by = Nobody, !.lease = "none"]]
    /\ UNCHANGED <<run, told, tick, troubles, loose, orphan, heard>>

\* The run of a coordinator makes a sub-task.
Split(i, k) ==
    /\ run[i].st = "live" /\ run[i].task = Objective
    /\ task[k].status = "none"
    /\ task' = [task EXCEPT ![k] = New("submitted")]
    /\ UNCHANGED <<run, told, tick, troubles, loose, orphan, heard>>

\* A run ends, and its end is told.
RunEnds(i, st) ==
    /\ run[i].st = "live"
    /\ run' = [run EXCEPT ![i].st = st]
    /\ told' = [told EXCEPT ![i] = "told"]
    /\ UNCHANGED <<task, tick, troubles, loose, orphan, heard>>

\* memory_task_claim and its heartbeat.
Claim(a, t) ==
    /\ Ready(t) /\ Trouble
    /\ task' = [task EXCEPT ![t] = [@ EXCEPT !.status = "working", !.by = a, !.lease = "live",
                                          !.attempts = task[t].attempts + 1]]
    /\ loose' = loose \cup {t}
    /\ UNCHANGED <<run, told, tick, orphan, heard>>

Heartbeat(a, t) ==
    /\ task[t].by = a /\ ~IsClosed(t)
    /\ task' = [task EXCEPT ![t].lease = "live"]
    /\ UNCHANGED <<run, told, tick, troubles, loose, orphan, heard>>

LeaseRunsOut(t) ==
    /\ task[t].lease = "live"
    /\ task' = [task EXCEPT ![t].lease = "over"]
    /\ UNCHANGED <<run, told, tick, troubles, loose, orphan, heard>>

\* A person edits the note: sends the task again, its attempts perhaps set
\* back, or cancels it.  Its holder stays as the note has it.
Person(t, to) ==
    /\ Trouble
    /\ \/ to = "submitted" /\ task[t].status \in {"input-required", "review", "failed", "canceled"}
       \/ to = "canceled" /\ task[t].status \notin {"none"} \cup Closed
    /\ \E n \in IF to = "submitted" THEN {0, task[t].attempts} ELSE {task[t].attempts} :
        task' = [task EXCEPT ![t] = [@ EXCEPT !.status = to, !.attempts = n]]
    /\ loose' = loose \cup {t}
    /\ UNCHANGED <<run, told, tick, orphan, heard>>

\* The notes and the rows of the runs outlive the server; its queue goes on
\* with the live runs.
Crash ==
    /\ Trouble
    /\ told' = [i \in Ids |-> "no"] /\ tick' = Idle
    /\ orphan' = IF tick.at \in {"start", "own", "hand", "undo"} THEN orphan \cup {tick.task} ELSE orphan
    /\ UNCHANGED <<task, run, loose, heard>>

-----------------------------------------------------------------------------
Tick ==
    \/ \E t \in Tasks, event \in {"ready", "children"} : Find(t, event)
    \/ \E t \in Tasks : FindGone(t) \/ LeaseEnded(t)
    \/ \E i \in Ids : StartFound(i)
    \/ Take \/ StartNew \/ StartOwn \/ StartFails \/ Hand \/ Undo \/ AskPerson \/ Release

Next ==
    \/ Tick
    \/ \E i \in Ids : ToldReads(i) \/ ToldGives(i)
    \/ \E i \in Ids : (\E k \in Kids : Split(i, k)) \/ (\E st \in Endings : RunEnds(i, st))
    \/ \E t \in Tasks, h \in Agents \cup Ids, to \in Statuses : Move(h, t, to) \/ Complete(h, t, to)
    \/ \E t \in Tasks, a \in Agents : Claim(a, t) \/ Heartbeat(a, t)
    \/ \E t \in Tasks : LeaseRunsOut(t) \/ (\E to \in {"submitted", "canceled"} : Person(t, to))
    \/ Crash

Spec == Init /\ [][Next]_vars

\* A pass of the loop looks at every task: a hold or an objective that stays to be
\* found is.  What the tick began it ends, and a callback runs on.
\* Nobody has to end a run, to renew a lease, or to answer for a person.
FairSpec ==
    /\ Spec
    /\ WF_vars(Take \/ AskPerson \/ StartNew \/ StartOwn \/ Hand \/ Undo \/ Release \/ (\E i \in Ids : StartFound(i)))
    /\ WF_vars(Find(Objective, "children"))
    /\ \A t \in Tasks : WF_vars(FindGone(t))
    /\ \A i \in Ids : WF_vars(ToldReads(i) \/ ToldGives(i))

-----------------------------------------------------------------------------
(* Properties.                                                              *)

\* A task is tried at most max_attempts times, as long as it comes back by
\* itself: neither a person nor its holder sent it back.  About the count taken
\* with the task, set back when the start failed, and read when the run failed.
AttemptsBounded == \A t \in Tasks \ loose : task[t].attempts <= MaxAttempts

\* A task has one run at work, as long as nobody but the task loop gives and
\* takes it.  (A start under a key of its own that fails with its run stored may
\* give it a second one: no key finds that run.)  About a start that failed with its run stored, the key that finds
\* it at the next tick, and the hold handed over to it (startTask).
OneRunAtWork ==
    \A i, j \in Ids : i # j /\ run[i].st = "live" /\ run[j].st = "live" /\ run[i].task = run[j].task
                      => run[i].task \in loose

\* A task that is closed stays so, except that a person, or a holder whose task a
\* person closed, sends it again: not the end of a run that held it, nor a lease,
\* nor a start under way reopens it.  A start that failed is the exception: it
\* gives its task back as submitted whatever a person made of it meanwhile
\* (startTask).
SentAgain(t) == Person(t, "submitted") \/ \E h \in Agents \cup Ids : Move(h, t, "submitted")
ClosedStaysClosed ==
    [][\A t \in Tasks : IsClosed(t) /\ tick.at # "undo" => task'[t].status = task[t].status \/ SentAgain(t)]_vars

\* The hold of a run that is no more ends, also when the end was told to nobody.
HeldByGone(t) ==
    /\ ~IsClosed(t) /\ task[t].by \in Ids /\ run[task[t].by].st # "live"
    /\ tick.at \notin {"start", "own", "hand", "undo"}
HoldsEnd == \A t \in Tasks : HeldByGone(t) ~> (~HeldByGone(t) \/ t \in orphan)

\* The same with no exception, as tasktrigger.go has it of a tick: it gives
\* back the tasks whose holder is gone.
GoneHoldersRelease == \A t \in Tasks : HeldByGone(t) ~> ~HeldByGone(t)

\* An objective in nobody's hands goes on when its sub-tasks are all closed, or one failed or waits for a
\* person, in states its coordinator was not last called for: the coordinator takes it, or a person is
\* asked.  About the digest that says for which states the coordinator was called, taken from an older
\* reading and dropped with a failed start, the rounds, and the views taken before a hold is given back.
\* (States it was called for do not call it again, though they changed and came back meanwhile.)
Unheard == \E k \in Calls(SubTasks) : heard[k] # task[k].status
Waiting == task[Objective].status = "working" /\ task[Objective].by = Nobody /\ Unheard
ObjectiveGoesOn == Waiting ~> (~Waiting \/ FreeIds = {})
=============================================================================
