----------------------------- MODULE PipelineRun -----------------------------
(***************************************************************************)
(* pipeline.run (internal/pipeline/pipelinerun.go): the nodes of a run     *)
(* that start runs of other pipelines, its children, and wait for them or  *)
(* not.                                                                    *)
(*                                                                         *)
(* One run, the parent, whose nodes are all of this type and depend on     *)
(* nothing; each is worked on by a worker of the job queue.  A node in an  *)
(* each has several elements, a child for every one.  The parent and its   *)
(* children share nothing but the rows of the jobs database: a child's end *)
(* calls the engine back, which moves the parent's step, and the parent's  *)
(* end calls it back too, which stops the children.                        *)
(***************************************************************************)
EXTENDS Naturals, FiniteSets

CONSTANTS
    Nodes,       \* the nodes of the parent
    Size,        \* Size[n]: how many elements n has
    EachNodes,   \* the nodes in an each
    WaitNodes,   \* the nodes that wait for their children (wait, the default)
    Continues,   \* the nodes whose failure the run goes on after (on_error: continue)
    MayWait,     \* the children whose own nodes may wait
    Tries,       \* retry.attempts of the nodes
    MaxChildren, \* [pipelines] max_run_children
    MaxCrashes   \* bound: how many times the server crashes

ASSUME SizeAssumption == Size \in [Nodes -> Nat \ {0}]
ASSUME NodesAssumption ==
    /\ IsFiniteSet(Nodes) /\ Nodes # {}
    /\ EachNodes \subseteq Nodes /\ WaitNodes \subseteq Nodes /\ Continues \subseteq Nodes
    /\ \A n \in Nodes \ EachNodes : Size[n] = 1
ASSUME LimitsAssumption == Tries \in Nat /\ MaxChildren \in Nat /\ MaxCrashes \in Nat

\* A child is known by the node and the element that started it: that is its idempotency key.
Children == UNION {{n} \X (1 .. Size[n]) : n \in Nodes}
Waited == {c \in Children : c[1] \in WaitNodes}

VARIABLES
    parent,   \* the status of the parent's row
    step,     \* step[n]: the status of the row of a node
    attempt,  \* attempt[n]: its attempt
    place,    \* place[n]: where the worker of the node is
    el,       \* el[n]: the element it is at, or waits for
    result,   \* result[n]: what the node answered the worker
    child,    \* child[c]: the status of the row of a child
    told,     \* told[c]: how far the call that tells the engine of its end is
    scan,     \* the page stopChildren is at, 0 before the parent's end, Over after
    page,     \* the children of the page it has still to cancel
    pass,     \* "read" before it reads a page, then whether it canceled one of it
    crashes,
    late,     \* history: the children started after the parent's end
    expired,  \* history: the nodes whose wait expired
    refused   \* history: the nodes that had no room for a child

work == <<place, el, result>>
rows == <<parent, step, attempt>>
stopping == <<scan, page, pass>>
history == <<late, expired, refused>>
vars == <<rows, work, child, told, stopping, crashes, history>>

Ends == {"done", "failed", "canceled"}
LiveRun == {"queued", "running", "waiting"}

\* The pages of stopChildren.  It begins with one of pending runs: there are none.
Pages == <<"queued", "running", "waiting">>
Over == 4

Started == {c \in Children : child[c] # "absent"}

TypeOK ==
    /\ parent \in {"live"} \cup Ends
    /\ step \in [Nodes -> LiveRun \cup Ends]
    /\ attempt \in [Nodes -> 0 .. (Tries + MaxCrashes + 1)]
    /\ place \in [Nodes -> {"idle", "room", "start", "save"}]
    /\ el \in [Nodes -> Nat \ {0}] /\ \A n \in Nodes : el[n] <= Size[n]
    /\ result \in [Nodes -> {"none", "waiting", "done", "failed", "queued"}]
    /\ child \in [Children -> {"absent"} \cup LiveRun \cup Ends]
    /\ told \in [Children -> {"no", "due", "again", "over", "lost"}]
    /\ scan \in 0 .. Over
    /\ page \subseteq Waited
    /\ pass \in {"read", "none", "some"}
    /\ crashes \in 0 .. MaxCrashes
    /\ late \subseteq Children /\ expired \subseteq Nodes /\ refused \subseteq Nodes

Init ==
    /\ parent = "live"
    /\ step = [n \in Nodes |-> "queued"]
    /\ attempt = [n \in Nodes |-> 0]
    /\ place = [n \in Nodes |-> "idle"]
    /\ el = [n \in Nodes |-> 1]
    /\ result = [n \in Nodes |-> "none"]
    /\ child = [c \in Children |-> "absent"]
    /\ told = [c \in Children |-> "no"]
    /\ scan = 0 /\ page = {} /\ pass = "read"
    /\ crashes = 0
    /\ late = {} /\ expired = {} /\ refused = {}

-----------------------------------------------------------------------------
(* The node, under a worker *)

\* Claim: a worker takes the step, which begins with its first element.
Claim(n) ==
    /\ step[n] = "queued" /\ place[n] = "idle"
    /\ step' = [step EXCEPT ![n] = "running"]
    /\ attempt' = [attempt EXCEPT ![n] = @ + 1]
    /\ place' = [place EXCEPT ![n] = "room"]
    /\ el' = [el EXCEPT ![n] = 1]
    /\ UNCHANGED <<parent, result, child, told, stopping, crashes, history>>

\* What the node answers when it fails: the queue, while tries are left.
\* The attempt is that of the row the worker claimed.
FailOrRetry(n) == IF attempt[n] < Tries THEN "queued" ELSE "failed"

Answer(n, what) ==
    /\ result' = [result EXCEPT ![n] = what]
    /\ place' = [place EXCEPT ![n] = "save"]

\* A bug: nobody counts the children.
NoRoomNeeded(n) ==
    /\ place[n] = "room"
    /\ place' = [place EXCEPT ![n] = "start"]
    /\ UNCHANGED <<result, refused>>
    /\ UNCHANGED <<rows, el, child, told, stopping, crashes, late, expired>>

\* roomForChild: the children are counted before the one is started, unless it is there.
Room(n) ==
    /\ place[n] = "room"
    /\ IF Cardinality(Started) < MaxChildren \/ child[<<n, el[n]>>] # "absent"
       THEN /\ place' = [place EXCEPT ![n] = "start"]
            /\ UNCHANGED <<result, refused>>
       ELSE /\ Answer(n, FailOrRetry(n))
            /\ refused' = refused \cup {n}
    /\ UNCHANGED <<rows, el, child, told, stopping, crashes, late, expired>>

\* The node goes on after a child that gives its outcome at once.
NextElement(n) ==
    IF el[n] < Size[n]
    THEN /\ el' = [el EXCEPT ![n] = @ + 1]
         /\ place' = [place EXCEPT ![n] = "room"]
         /\ UNCHANGED result
    ELSE /\ Answer(n, "done")
         /\ UNCHANGED el

\* A bug: a child that ended gives its outcome, be it good or not.
StartBlindly(n) ==
    LET c == <<n, el[n]>> IN
    /\ place[n] = "start"
    /\ IF child[c] = "absent"
       THEN /\ child' = [child EXCEPT ![c] = "queued"]
            /\ late' = IF parent = "live" THEN late ELSE late \cup {c}
       ELSE UNCHANGED <<child, late>>
    /\ IF n \in WaitNodes /\ child'[c] \notin Ends
       THEN Answer(n, "waiting") /\ UNCHANGED el
       ELSE NextElement(n)
    /\ UNCHANGED <<rows, told, stopping, crashes, expired, refused>>

\* StartChild: Engine.Start gives the child of that key, a new one or the one that is
\* there, and the node looks at what it is at that moment.
StartChild(n) ==
    LET c == <<n, el[n]>> IN
    /\ place[n] = "start"
    /\ IF child[c] = "absent"
       THEN /\ child' = [child EXCEPT ![c] = "queued"]
            /\ late' = IF parent = "live" THEN late ELSE late \cup {c}
       ELSE UNCHANGED <<child, late>>
    /\ CASE n \notin WaitNodes \/ child'[c] = "done" -> NextElement(n)
         [] n \in WaitNodes /\ child'[c] \in LiveRun -> Answer(n, "waiting") /\ UNCHANGED el
         [] OTHER -> Answer(n, FailOrRetry(n)) /\ UNCHANGED el
    /\ UNCHANGED <<rows, told, stopping, crashes, expired, refused>>

\* Save: the worker writes the answer, unless the step ended meanwhile.
Save(n) ==
    /\ place[n] = "save"
    /\ step' = [step EXCEPT ![n] = IF @ \in Ends THEN @ ELSE result[n]]
    /\ place' = [place EXCEPT ![n] = "idle"]
    /\ result' = [result EXCEPT ![n] = "none"]
    /\ UNCHANGED <<parent, attempt, el, child, told, stopping, crashes, history>>

\* Expire: nothing resumed the step in time.
Expire(n) ==
    /\ step[n] = "waiting"
    /\ step' = [step EXCEPT ![n] = "failed"]
    /\ expired' = expired \cup {n}
    /\ UNCHANGED <<parent, attempt, work, child, told, stopping, crashes, late, refused>>

-----------------------------------------------------------------------------
(* A child *)

\* Its row moves as the queue moves it, up to its end, which somebody's cancel may be.
ChildMoves(c) ==
    /\ \/ child[c] = "queued" /\ child' = [child EXCEPT ![c] = "running"]
       \/ c \in MayWait /\ child[c] = "running" /\ child' = [child EXCEPT ![c] = "waiting"]
       \/ child[c] = "waiting" /\ child' = [child EXCEPT ![c] = "running"]
    /\ UNCHANGED <<rows, work, told, stopping, crashes, history>>

ChildEnds(c, how) ==
    /\ child[c] \in LiveRun
    /\ child' = [child EXCEPT ![c] = how]
    /\ told' = [told EXCEPT ![c] = IF c \in Waited THEN "due" ELSE "over"]
    /\ UNCHANGED <<rows, work, stopping, crashes, history>>

\* A bug: the end of one element's child ends the wait of the whole each.
EndWaitAlways(n, c) == IF child[c] = "done" THEN "done" ELSE "failed"

\* What a child's end makes of its parent's waiting step: RunAgain in an each, which
\* looks at the children from the first, and EndWait with the child's outcome otherwise.
Resumed(n, c) ==
    IF n \in EachNodes THEN "queued"
    ELSE IF child[c] = "done" THEN "done" ELSE "failed"

\* A bug: a parent that does not wait yet is left alone.
ResumeOnce(c) ==
    LET n == c[1] IN
    /\ told[c] = "due"
    /\ step' = IF step[n] = "waiting" THEN [step EXCEPT ![n] = Resumed(n, c)] ELSE step
    /\ attempt' = IF step[n] = "waiting" /\ n \in EachNodes
                  THEN [attempt EXCEPT ![n] = @ - 1] ELSE attempt
    /\ told' = [told EXCEPT ![c] = "over"]
    /\ UNCHANGED <<parent, work, child, stopping, crashes, history>>

\* Resume: endedChild and the goroutine that tries it again, as long as the step
\* neither waits nor ended.  The goroutine gives up after two minutes: not here.
Resume(c) ==
    LET n == c[1] IN
    /\ told[c] \in {"due", "again"}
    /\ told[c] = "again" => step[n] \in {"waiting"} \cup Ends
    /\ step' = IF step[n] = "waiting" THEN [step EXCEPT ![n] = Resumed(n, c)] ELSE step
    /\ attempt' = IF step[n] = "waiting" /\ n \in EachNodes
                  THEN [attempt EXCEPT ![n] = @ - 1] ELSE attempt
    /\ told' = [told EXCEPT ![c] = IF step[n] \in {"waiting"} \cup Ends THEN "over" ELSE "again"]
    /\ UNCHANGED <<parent, work, child, stopping, crashes, history>>

-----------------------------------------------------------------------------
(* The end of the parent *)

\* Advance: the last of its steps ended, and the parent with it.
Advance ==
    /\ parent = "live" /\ \A n \in Nodes : step[n] \in Ends
    /\ LET failed == \E n \in Nodes \ Continues : step[n] = "failed" IN
       /\ parent' = IF failed THEN "failed" ELSE "done"
       /\ scan' = IF failed THEN 1 ELSE Over
    /\ UNCHANGED <<step, attempt, work, child, told, page, pass, crashes, history>>

\* Cancel: a person or a tool stops the parent; a worker that is at one of its nodes
\* goes on, for the node does not look at its context.
Cancel ==
    /\ parent = "live"
    /\ parent' = "canceled"
    /\ step' = [n \in Nodes |-> IF step[n] \in Ends THEN step[n] ELSE "canceled"]
    /\ scan' = 1
    /\ UNCHANGED <<attempt, work, child, told, page, pass, crashes, history>>

\* StopRead: stopChildren reads the waited children of one status.
StopRead ==
    /\ scan \in 1 .. 3 /\ pass = "read"
    /\ page' = {c \in Waited : child[c] = Pages[scan]}
    /\ pass' = "none"
    /\ UNCHANGED <<rows, work, child, told, scan, crashes, history>>

\* StopOne: a child of the page is canceled, unless it ended meanwhile.
StopOne(c) ==
    /\ c \in page
    /\ page' = page \ {c}
    /\ IF child[c] \in LiveRun
       THEN /\ child' = [child EXCEPT ![c] = "canceled"]
            /\ told' = [told EXCEPT ![c] = "due"]
            /\ pass' = "some"
       ELSE UNCHANGED <<child, told, pass>>
    /\ UNCHANGED <<rows, work, scan, crashes, history>>

\* A bug: only the children that run are stopped.
StopRunning ==
    /\ scan \in 1 .. 3 /\ pass # "read" /\ page = {}
    /\ pass' = "read"
    /\ scan' = Over
    /\ UNCHANGED <<rows, work, child, told, page, crashes, history>>

\* StopNext: the same status again, until a page cancels none.
StopNext ==
    /\ scan \in 1 .. 3 /\ pass # "read" /\ page = {}
    /\ pass' = "read"
    /\ scan' = IF pass = "some" THEN scan ELSE scan + 1
    /\ UNCHANGED <<rows, work, child, told, page, crashes, history>>

-----------------------------------------------------------------------------
\* Crash: the workers and the calls of the ends are gone, the rows stay; the steps that
\* ran are queued again.
Crash ==
    /\ crashes < MaxCrashes
    /\ crashes' = crashes + 1
    /\ step' = [n \in Nodes |-> IF step[n] = "running" THEN "queued" ELSE step[n]]
    /\ place' = [n \in Nodes |-> "idle"]
    /\ el' = [n \in Nodes |-> IF step[n] = "waiting" THEN el[n] ELSE 1]
    /\ result' = [n \in Nodes |-> "none"]
    /\ told' = [c \in Children |-> IF told[c] \in {"due", "again"} THEN "lost" ELSE told[c]]
    /\ scan' = IF scan \in 1 .. 3 THEN 0 ELSE scan
    /\ page' = {} /\ pass' = "read"
    /\ UNCHANGED <<parent, attempt, child, history>>

Next ==
    \/ \E n \in Nodes : Claim(n) \/ Room(n) \/ StartChild(n) \/ Save(n) \/ Expire(n)
    \/ \E c \in Children : ChildMoves(c) \/ Resume(c)
    \/ \E c \in Children, how \in Ends : ChildEnds(c, how)
    \/ Advance
    \/ Cancel
    \/ StopRead
    \/ \E c \in Waited : StopOne(c)
    \/ StopNext
    \/ Crash

Spec == Init /\ [][Next]_vars

\* Fairness: what the server does by itself.  No child is obliged to end, no wait to expire.
FairSpec ==
    /\ Spec
    /\ \A n \in Nodes : WF_vars(Claim(n) \/ Room(n) \/ StartChild(n) \/ Save(n))
    /\ \A c \in Children : WF_vars(Resume(c))

-----------------------------------------------------------------------------
(* Properties *)

\* In an each that waits the elements go one after another: a child is started only
\* when those of the elements before it are done.
OneAfterAnother ==
    \A c \in Waited : child[c] # "absent" =>
        \A i \in 1 .. (c[2] - 1) : child[<<c[1], i>>] = "done"

\* A node that waits is done with all its children done, and fails only for one that
\* did not end well, for its wait or for want of room: no late or stale call of an end
\* gives it the outcome of another.
OutcomeOfChildren ==
    \A n \in WaitNodes :
        /\ step[n] = "done" => \A i \in 1 .. Size[n] : child[<<n, i>>] = "done"
        /\ step[n] = "failed" =>
            \/ n \in expired \cup refused
            \/ \E i \in 1 .. Size[n] : child[<<n, i>>] \in {"failed", "canceled"}

\* max_run_children is exceeded by no more than the nodes that count at once.
ChildrenBounded ==
    Cardinality(Started) <= MaxChildren + Cardinality(Nodes) - 1

\* Once stopChildren went through, no child the parent had started and waited for is
\* under way, but those it started after its end and those that may wait themselves,
\* which the reads by status, one after another, may miss between two of them.
ChildrenStopped ==
    parent \in {"failed", "canceled"} /\ scan = Over =>
        \A c \in Waited \ (late \cup MayWait) : child[c] \notin LiveRun

\* A parent that waits for a child goes on when the child ended, though it may not have
\* waited yet when it did.  A crash may lose that.
ParentGoesOn ==
    \A n \in WaitNodes :
        LET c == <<n, el[n]>> IN
            (step[n] = "waiting" /\ child[c] \in Ends /\ told[c] # "lost")
                ~> (step[n] # "waiting" \/ told[c] = "lost")
=============================================================================
