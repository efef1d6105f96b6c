---------------------------- MODULE RunLifecycle ----------------------------
(***************************************************************************)
(* What the queue promises of a run to those who start it, without         *)
(* threads, locks, retries, crashes or resources: docs/pipelines.md, "A    *)
(* node waits until every node in its after is done or skipped ...".       *)
(* A step is held until its turn comes, then open until it ends; the run   *)
(* ends when its last step does, or when it is canceled, and nothing moves *)
(* after that.  JobRunner implements it (JobRunner!LifecycleSpec).         *)
(***************************************************************************)
CONSTANTS Runs, Steps, After, Continues

VARIABLES
    phase,  \* phase[r]: "none", "open", how the run ended, or "gone"
    part    \* part[r][n]: "held", "open", or how the step ended

StepEnds == {"done", "failed", "skipped", "canceled"}

EndedWell(p, n)  == p[n] \in {"done", "skipped"} \/ (p[n] = "failed" /\ n \in Continues)
EndedBadly(p, n) == p[n] \in StepEnds /\ ~ EndedWell(p, n)
Over(p)          == \A n \in Steps : p[n] \in StepEnds

Init ==
    /\ phase = [r \in Runs |-> "none"]
    /\ part = [r \in Runs |-> [n \in Steps |-> "held"]]

Accept(r) ==
    /\ phase[r] = "none"
    /\ phase' = [phase EXCEPT ![r] = "open"]
    /\ UNCHANGED part

\* An open step ends, well or not.
EndStep(r, n) ==
    /\ phase[r] = "open" /\ part[r][n] = "open"
    /\ \E end \in {"done", "failed"} : part' = [part EXCEPT ![r][n] = end]
    /\ UNCHANGED phase

\* From p to f only held steps move: a step opens when all it waits for ended well, and
\* is canceled when something it waits for did not.
Decided(p, f) ==
    \A n \in Steps :
        \/ f[n] = p[n]
        \/ p[n] = "held" /\ f[n] \in {"open", "skipped", "failed"} /\ \A d \in After[n] : EndedWell(f, d)
        \/ p[n] = "held" /\ f[n] = "canceled" /\ \E d \in After[n] : EndedBadly(f, d)

\* Steps are decided; with the last one of them the run may end, for what its steps did.
Decide(r) ==
    /\ phase[r] = "open"
    /\ \E f \in [Steps -> StepEnds \cup {"held", "open"}] :
         /\ Decided(part[r], f)
         /\ part' = [part EXCEPT ![r] = f]
         /\ \/ UNCHANGED phase
            \/ /\ Over(f)
               /\ phase' = [phase EXCEPT ![r] =
                     IF \E n \in Steps : f[n] = "failed" /\ n \notin Continues THEN "failed" ELSE "done"]

Cancel(r) ==
    /\ phase[r] = "open"
    /\ phase' = [phase EXCEPT ![r] = "canceled"]
    /\ part' = [part EXCEPT ![r] = [n \in Steps |->
            IF part[r][n] \in StepEnds THEN part[r][n] ELSE "canceled"]]

Forget(r) ==
    /\ phase[r] \in {"done", "failed", "canceled"}
    /\ phase' = [phase EXCEPT ![r] = "gone"]
    /\ UNCHANGED part

Next == \E r \in Runs :
    Accept(r) \/ Decide(r) \/ Cancel(r) \/ Forget(r) \/ \E n \in Steps : EndStep(r, n)

vars == <<phase, part>>
Spec == Init /\ [][Next]_vars
=============================================================================
