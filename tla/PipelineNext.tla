---------------------------- MODULE PipelineNext ----------------------------
(***************************************************************************)
(* What becomes of the pending nodes of a pipeline run when one of its     *)
(* steps changed: Engine.decide and the outcome of Engine.Next             *)
(* (internal/pipeline/engine.go), and the run's own status,                *)
(* derive (internal/jobs/runner.go).                                       *)
(*                                                                         *)
(* Next decides in passes over the nodes, each pass reading what the       *)
(* passes before decided.  Here its outcome is stated at once, as the      *)
(* assignments that agree with themselves; module NextPasses runs the      *)
(* passes as the code does and checks that they end in one of these.       *)
(***************************************************************************)
EXTENDS Naturals

CONSTANTS
    Steps,        \* the nodes of the pipeline, one step each
    After,        \* After[n]: the nodes that node n waits for (Node.After)
    Continues,    \* the nodes with on_error: continue
    Conditional   \* the nodes with a when or an unless

StepStatus == {"pending", "queued", "running", "waiting",
               "done", "failed", "skipped", "canceled"}
Terminal   == {"done", "failed", "skipped", "canceled"}

\* What decide may answer; "pending" stands for its false: the node waits.
Decisions == {"pending", "queued", "skipped", "failed", "canceled"}

PendingSteps(st) == {n \in Steps : st[n] = "pending"}

\* A dependency that stops the nodes after it.
EndedBadly(st, d) == st[d] = "canceled" \/ (st[d] = "failed" /\ d \notin Continues)

Blocked(st, n)    == \E d \in After[n] : EndedBadly(st, d)
Ready(st, n)      == \A d \in After[n] : st[d] \in Terminal
AllSkipped(st, n) == After[n] # {} /\ \A d \in After[n] : st[d] = "skipped"

\* A bug: a node starts with the first of the nodes it waits for, not with the last.
VerdictsEager(st, n) ==
    IF Blocked(st, n) THEN {"canceled"}
    ELSE IF After[n] # {} /\ \A d \in After[n] : st[d] \notin Terminal THEN {"pending"}
    ELSE {"queued"}

(***************************************************************************)
(* The statuses decide may give the pending node n.  A condition is an     *)
(* expression over the outputs of the run: its value is left open, and so  *)
(* is whether evaluating it fails.                                         *)
(***************************************************************************)
Verdicts(st, n) ==
    IF Blocked(st, n) THEN {"canceled"}
    ELSE IF ~ Ready(st, n) THEN {"pending"}
    ELSE IF AllSkipped(st, n) THEN {"skipped"}
    ELSE IF n \in Conditional THEN {"queued", "skipped", "failed"}
    ELSE {"queued"}

Decide(st, g) == [n \in Steps |-> IF st[n] = "pending" THEN g[n] ELSE st[n]]

\* The statuses of the steps after Next, whose view of them is st.
NextSteps(st) ==
    {f \in {Decide(st, g) : g \in [PendingSteps(st) -> Decisions]} :
        \A n \in PendingSteps(st) : f[n] \in Verdicts(f, n)}

AllEnded(f) == \A n \in Steps : f[n] \in Terminal

Active(f)   == \E n \in Steps : f[n] \in {"queued", "running"}

\* A bug: a run whose steps all ended is done, whatever became of them.
RunAfterIsDone(status, f) ==
    IF AllEnded(f) THEN "done"
    ELSE IF Active(f)
    THEN IF status = "waiting" THEN "running" ELSE status
    ELSE IF \E n \in Steps : f[n] = "waiting" THEN "waiting" ELSE "failed"

(***************************************************************************)
(* The status of a run whose steps stand at f: what Next says when every   *)
(* step ended, else what derive says.  The last alternative is derive's    *)
(* "it could not start": nothing can move and a step is still pending.     *)
(***************************************************************************)
RunAfter(status, f) ==
    IF AllEnded(f)
    THEN IF \E n \in Steps : f[n] = "failed" /\ n \notin Continues THEN "failed" ELSE "done"
    ELSE IF Active(f)
    THEN IF status = "waiting" THEN "running" ELSE status
    ELSE IF \E n \in Steps : f[n] = "waiting" THEN "waiting" ELSE "failed"

\* The end of a run cancels the steps it leaves behind (Runner.advance).
Closed(f) == [n \in Steps |-> IF f[n] \in Terminal THEN f[n] ELSE "canceled"]
=============================================================================
