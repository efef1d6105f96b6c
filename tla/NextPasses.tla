----------------------------- MODULE NextPasses -----------------------------
(***************************************************************************)
(* Engine.Next as the code runs it (internal/pipeline/engine.go): passes   *)
(* over the nodes in the order of the pipeline, each decision read by the  *)
(* ones after it, until a pass decides none that another could wait for.   *)
(* Module PipelineNext states the outcome of all the passes at once; here  *)
(* it is checked, over every pipeline of N nodes and every state its run   *)
(* can be in when a step just ended, that the passes get there.            *)
(***************************************************************************)
EXTENDS Naturals

CONSTANT N   \* bound: how many nodes the pipeline has

ASSUME NAssumption == N \in Nat

Nodes == 1 .. N

VARIABLES
    after, continues, conditional,  \* the pipeline
    steps,     \* the statuses Next was called with
    byName,    \* the statuses with the decisions made so far
    node,      \* the node the pass is at
    pass,      \* the pass, from 0
    released,  \* whether this pass decided something other than queued
    done

pipeline == <<after, continues, conditional>>
vars == <<pipeline, steps, byName, node, pass, released, done>>

P == INSTANCE PipelineNext WITH
        Steps <- Nodes, After <- after, Continues <- continues, Conditional <- conditional

Acyclic(f) == \A S \in SUBSET Nodes : S # {} => \E n \in S : f[n] \cap S = {}

\* The statuses a node may have in a run that is under way.  An earlier call left every
\* node that could be decided decided, but for the step that just ended: what its end
\* decides is still pending, whatever the nodes after it wait for.
Reachable(n) ==
    CASE steps[n] = "pending"  -> TRUE
      [] steps[n] = "canceled" -> P!Blocked(steps, n)
      [] steps[n] = "skipped"  -> P!Ready(steps, n) /\ ~ P!Blocked(steps, n)
                                    /\ (P!AllSkipped(steps, n) \/ n \in conditional)
      [] OTHER                 -> P!Ready(steps, n) /\ ~ P!Blocked(steps, n)
                                    /\ ~ P!AllSkipped(steps, n)

Init ==
    /\ after \in {f \in [Nodes -> SUBSET Nodes] : Acyclic(f)}
    /\ continues \in SUBSET Nodes /\ conditional \in SUBSET Nodes
    /\ steps \in [Nodes -> P!StepStatus]
    /\ \A n \in Nodes : Reachable(n)
    /\ byName = steps
    /\ node = 1 /\ pass = 0 /\ released = FALSE /\ done = FALSE

\* A bug: the decisions read the statuses Next was called with.
DecideNodeStale ==
    /\ ~ done /\ node \in Nodes
    /\ IF steps[node] = "pending" /\ byName[node] = "pending"
       THEN \E v \in P!Verdicts(steps, node) :
              /\ byName' = [byName EXCEPT ![node] = v]
              /\ released' = (released \/ v \notin {"pending", "queued"})
       ELSE UNCHANGED <<byName, released>>
    /\ node' = node + 1
    /\ UNCHANGED <<pipeline, steps, pass, done>>

\* A node still pending and not decided in this call is decided.
DecideNode ==
    /\ ~ done /\ node \in Nodes
    /\ IF steps[node] = "pending" /\ byName[node] = "pending"
       THEN \E v \in P!Verdicts(byName, node) :
              /\ byName' = [byName EXCEPT ![node] = v]
              /\ released' = (released \/ v \notin {"pending", "queued"})
       ELSE UNCHANGED <<byName, released>>
    /\ node' = node + 1
    /\ UNCHANGED <<pipeline, steps, pass, done>>

\* A bug, BUG-126: one pass over the nodes.
EndPassOnce ==
    /\ ~ done /\ node = N + 1
    /\ done' = TRUE
    /\ UNCHANGED <<pipeline, steps, byName, node, pass, released>>

\* The end of a pass: another one follows when it released a node, N + 1 at most.
EndPass ==
    /\ ~ done /\ node = N + 1
    /\ IF released /\ pass < N
       THEN node' = 1 /\ pass' = pass + 1 /\ released' = FALSE /\ UNCHANGED done
       ELSE done' = TRUE /\ UNCHANGED <<node, pass, released>>
    /\ UNCHANGED <<pipeline, steps, byName>>

Next == DecideNode \/ EndPass

Spec == Init /\ [][Next]_vars

-----------------------------------------------------------------------------
\* The passes end in an assignment that agrees with itself: no pending node is left that
\* could be queued, skipped or canceled by then, whatever the order of the nodes.
PassesAgree == done => byName \in P!NextSteps(steps)

\* A run is never left with pending nodes and nothing that can move, which would end it
\* as "it could not start" (Runner.derive): the stop of a run whose last step was skipped
\* with its next ones pending was BUG-126.
NothingLeftBehind ==
    done => P!AllEnded(byName) \/ P!Active(byName) \/ \E n \in Nodes : byName[n] = "waiting"
=============================================================================
