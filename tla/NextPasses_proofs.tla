--------------------------- MODULE NextPasses_proofs ---------------------------
(***************************************************************************)
(* Proofs about NextPasses, for pipelines of any number of nodes.          *)
(*                                                                         *)
(* A pass that decides nothing another node could wait for has decided     *)
(* every node with the statuses that stay (PassInv), and N + 1 passes are  *)
(* enough to get to such a pass: each of those before it released a node   *)
(* at least, and there are N of them (CountInv).                           *)
(***************************************************************************)
EXTENDS NextPasses, FiniteSetTheorems, TLAPS

Status == P!StepStatus

TypeInv ==
    /\ after \in [Nodes -> SUBSET Nodes] /\ Acyclic(after)
    /\ conditional \subseteq Nodes
    /\ steps \in [Nodes -> Status] /\ byName \in [Nodes -> Status]
    /\ node \in 1 .. N + 1 /\ pass \in 0 .. N
    /\ released \in BOOLEAN /\ done \in BOOLEAN

\* The nodes Next has to decide, and those of them that other nodes see ended by now.
Open == {n \in Nodes : steps[n] = "pending"}
Released == {n \in Open : byName[n] \notin {"pending", "queued"}}

\* The steps that are not pending stay as they are; what was decided is what the statuses decided
\* so far make of the node.
AgreeInv ==
    /\ \A n \in Nodes \ Open : byName[n] = steps[n]
    /\ \A n \in Open : byName[n] # "pending" => byName[n] \in P!Verdicts(byName, n)

\* As long as a pass released no node, those it left pending have to wait.
PassInv ==
    ~released => \A n \in Open : n < node /\ byName[n] = "pending" => "pending" \in P!Verdicts(byName, n)

\* Every pass but the last released a node.
CountInv == Cardinality(Released) >= pass + (IF released THEN 1 ELSE 0)

\* The passes end after one that released none.
DoneInv == done => node = N + 1 /\ ~released

Inv == TypeInv /\ AgreeInv /\ PassInv /\ CountInv /\ DoneInv

-----------------------------------------------------------------------------
(* What decide answers *)

\* A node has a verdict, and waiting is its only one exactly when nothing decides it yet.
LEMMA VerdictsTyped ==
    ASSUME NEW st, NEW n
    PROVE  /\ P!Verdicts(st, n) \subseteq {"pending", "queued", "skipped", "failed", "canceled"}
           /\ \E v : v \in P!Verdicts(st, n)
           /\ "pending" \in P!Verdicts(st, n) <=> P!Verdicts(st, n) = {"pending"}
           /\ "pending" \in P!Verdicts(st, n) <=> ~P!Blocked(st, n) /\ ~P!Ready(st, n)
BY DEF P!Verdicts

\* A node is none of those it waits for.
LEMMA NotAfterItself ==
    ASSUME TypeInv, NEW n \in Nodes
    PROVE  n \notin after[n] /\ after[n] \subseteq Nodes
<1>1. \E k \in {n} : after[k] \cap {n} = {}
  <2>1. {n} \in SUBSET Nodes /\ {n} # {}
    OBVIOUS
  <2> QED BY <2>1 DEF TypeInv, Acyclic
<1> QED BY <1>1 DEF TypeInv

\* A node that does not wait for m is decided as before, whatever becomes of m.
LEMMA VerdictsApart ==
    ASSUME NEW f, NEW g, NEW n, \A d \in after[n] : f[d] = g[d]
    PROVE  P!Verdicts(f, n) = P!Verdicts(g, n)
BY DEF P!Verdicts, P!Blocked, P!EndedBadly, P!Ready, P!AllSkipped

\* A node that was decided stays so when a pending one is.
LEMMA DecidedStays ==
    ASSUME NEW f, NEW g, NEW m, f[m] = "pending", \A d : d # m => g[d] = f[d],
           NEW n, NEW v \in P!Verdicts(f, n), v # "pending"
    PROVE  v \in P!Verdicts(g, n)
<1>1. CASE P!Blocked(f, n)
  <2>1. P!Blocked(g, n) /\ v = "canceled"
    BY <1>1 DEF P!Blocked, P!EndedBadly, P!Verdicts
  <2> QED BY <2>1 DEF P!Verdicts
<1>2. CASE ~P!Blocked(f, n)
  <2>1. P!Ready(f, n)
    BY <1>2 DEF P!Verdicts
  <2>2. m \notin after[n]
    BY <2>1 DEF P!Ready, P!Terminal
  <2> QED BY <2>2, VerdictsApart
<1> QED BY <1>1, <1>2

\* A node that has to wait still has to when another is queued.
LEMMA WaitingStays ==
    ASSUME NEW f, NEW g, NEW m, g[m] = "queued", \A d : d # m => g[d] = f[d],
           NEW n, "pending" \in P!Verdicts(f, n), f[m] = "pending"
    PROVE  "pending" \in P!Verdicts(g, n)
<1>1. ~P!Blocked(f, n) /\ ~P!Ready(f, n)
  BY VerdictsTyped
<1>2. ~P!Blocked(g, n)
  BY <1>1 DEF P!Blocked, P!EndedBadly
<1>3. ~P!Ready(g, n)
  BY <1>1 DEF P!Ready, P!Terminal
<1> QED BY <1>2, <1>3, VerdictsTyped

\* What the statuses after a step make of a node.
LEMMA VerdictsPrimed ==
    ASSUME UNCHANGED pipeline, NEW n
    PROVE  P!Verdicts(byName, n)' = P!Verdicts(byName', n)
BY DEF pipeline, P!Verdicts, P!Blocked, P!EndedBadly, P!Ready, P!AllSkipped

-----------------------------------------------------------------------------
(* The steps *)

\* The released nodes are counted: there are N of them at most.
LEMMA Finite ==
    ASSUME TypeInv
    PROVE  /\ IsFiniteSet(Released) /\ Cardinality(Released) \in Nat
           /\ Cardinality(Released) <= N
<1>1. IsFiniteSet(Nodes) /\ Cardinality(Nodes) = N
  <2>1. 1 \in Int /\ N \in Int /\ N >= 0
    BY NAssumption
  <2>2. IsFiniteSet(1 .. N) /\ Cardinality(1 .. N) = IF 1 > N THEN 0 ELSE N - 1 + 1
    BY <2>1, FS_Interval
  <2> QED BY <2>1, <2>2 DEF Nodes
<1>2. Released \subseteq Nodes
  BY DEF Released, Open
<1> QED BY <1>1, <1>2, FS_Subset, FS_CardinalityType

\* The invariant holds where Next starts.
LEMMA InitInv == Init => Inv
<1> SUFFICES ASSUME Init PROVE Inv
  OBVIOUS
<1>1. TypeInv
  <2>1. after \in [Nodes -> SUBSET Nodes] /\ Acyclic(after)
    BY DEF Init
  <2>2. steps \in [Nodes -> Status] /\ byName \in [Nodes -> Status] /\ conditional \subseteq Nodes
    BY DEF Init, Status
  <2>3. node \in 1 .. N + 1 /\ pass \in 0 .. N
    <3>1. N \in Nat /\ node = 1 /\ pass = 0
      BY NAssumption DEF Init
    <3> QED BY <3>1
  <2>4. released \in BOOLEAN /\ done \in BOOLEAN
    BY DEF Init
  <2> QED BY <2>1, <2>2, <2>3, <2>4 DEF TypeInv
<1>2. AgreeInv /\ PassInv /\ DoneInv
  BY DEF Init, AgreeInv, PassInv, DoneInv, Open, Nodes
<1>3. CountInv
  BY <1>1, Finite DEF Init, CountInv
<1> QED BY <1>1, <1>2, <1>3 DEF Inv

\* The decision about a node keeps it: nothing it could change was decided by it.
LEMMA DecideStep ==
    ASSUME Inv, DecideNode
    PROVE  Inv'
<1>0. /\ TypeInv /\ AgreeInv /\ PassInv /\ CountInv /\ N \in Nat /\ ~done /\ node \in Nodes /\ node' = node + 1
      /\ UNCHANGED <<pipeline, steps, pass, done>> /\ Open' = Open
  BY NAssumption DEF Inv, DecideNode, Open
<1>1. CASE UNCHANGED <<byName, released>> /\ ~(steps[node] = "pending" /\ byName[node] = "pending")
  <2>1. TypeInv'
    BY <1>0, <1>1 DEF TypeInv, pipeline, Nodes, Acyclic
  <2>2. AgreeInv'
    BY <1>0, <1>1, VerdictsPrimed DEF AgreeInv
  <2>3. PassInv'
    <3>1. \A n \in Open : n < node' /\ byName[n] = "pending" => n < node
      BY <1>0, <1>1 DEF Open, Nodes
    <3> QED BY <1>0, <1>1, <3>1, VerdictsPrimed DEF PassInv
  <2>4. CountInv' /\ DoneInv'
    BY <1>0, <1>1 DEF CountInv, Released, DoneInv
  <2> QED BY <2>1, <2>2, <2>3, <2>4 DEF Inv
<1>2. CASE ~(steps[node] = "pending" /\ byName[node] = "pending")
  BY <1>1, <1>2 DEF DecideNode
<1>3. ASSUME steps[node] = "pending", byName[node] = "pending" PROVE Inv'
  <2>1. PICK v \in P!Verdicts(byName, node) :
          /\ byName' = [byName EXCEPT ![node] = v]
          /\ released' = (released \/ v \notin {"pending", "queued"})
    BY <1>3 DEF DecideNode
  <2>2. v \in Status /\ v \in {"pending", "queued", "skipped", "failed", "canceled"}
    BY VerdictsTyped DEF Status, P!StepStatus
  <2>3. /\ byName' \in [Nodes -> Status] /\ byName'[node] = v
        /\ \A d : d # node => byName'[d] = byName[d]
    BY <1>0, <2>1, <2>2 DEF TypeInv
  <2>4. TypeInv'
    BY <1>0, <2>1, <2>3 DEF TypeInv, pipeline, Nodes, Acyclic
  <2>5. node \in Open
    BY <1>0, <1>3 DEF Open
  <2>6. v \in P!Verdicts(byName', node)
    <3>1. \A d \in after[node] : byName[d] = byName'[d]
      BY <1>0, <2>3, NotAfterItself
    <3> QED BY <3>1, VerdictsApart
  <2>7. AgreeInv'
    <3>1. ASSUME NEW n \in Open, byName'[n] # "pending" PROVE byName'[n] \in P!Verdicts(byName', n)
      <4>1. CASE n = node
        BY <2>3, <2>6, <4>1
      <4>2. CASE n # node
        <5>1. byName'[n] = byName[n] /\ byName[n] \in P!Verdicts(byName, n)
          BY <1>0, <2>3, <3>1, <4>2 DEF AgreeInv
        <5> QED BY <1>3, <2>3, <3>1, <5>1, DecidedStays
      <4> QED BY <4>1, <4>2
    <3>2. \A n \in Nodes \ Open : byName'[n] = steps[n]
      BY <1>0, <2>3, <2>5 DEF AgreeInv
    <3> QED BY <1>0, <3>1, <3>2, VerdictsPrimed DEF AgreeInv
  <2>8. PassInv'
    <3>1. SUFFICES ASSUME ~released', NEW n \in Open, n < node + 1, byName'[n] = "pending"
                   PROVE  "pending" \in P!Verdicts(byName', n)
      BY <1>0, VerdictsPrimed DEF PassInv
    <3>2. ~released /\ v \in {"pending", "queued"}
      BY <2>1, <3>1
    <3>3. CASE n = node
      BY <2>3, <2>6, <3>1, <3>3
    <3>4. CASE n # node
      <4>1. n < node /\ byName[n] = "pending"
        BY <1>0, <2>3, <3>1, <3>4 DEF Open, Nodes
      <4>2. "pending" \in P!Verdicts(byName, n)
        BY <1>0, <3>2, <4>1 DEF PassInv
      <4>3. CASE v = "pending"
        <5>1. \A d \in after[n] : byName[d] = byName'[d]
          BY <1>3, <2>3, <4>3
        <5> QED BY <4>2, <5>1, VerdictsApart
      <4>4. CASE v = "queued"
        BY <1>3, <2>3, <4>2, <4>4, WaitingStays
      <4> QED BY <3>2, <4>3, <4>4
    <3> QED BY <3>3, <3>4
  <2>9. CountInv'
    <3>1. CASE v \in {"pending", "queued"}
      <4>1. Released' = Released /\ released' = released
        BY <1>0, <1>3, <2>1, <2>3, <2>5, <3>1 DEF Released, TypeInv
      <4> QED BY <1>0, <4>1 DEF CountInv
    <3>2. CASE v \notin {"pending", "queued"}
      <4>1. Released' = Released \cup {node} /\ node \notin Released /\ released' = TRUE
        BY <1>0, <1>3, <2>1, <2>3, <2>5, <3>2 DEF Released
      <4>2. Cardinality(Released') = Cardinality(Released) + 1
        BY <1>0, <4>1, Finite, FS_AddElement
      <4>3. pass \in Nat /\ Cardinality(Released) \in Nat
        BY <1>0, Finite DEF TypeInv
      <4> QED BY <1>0, <4>1, <4>2, <4>3 DEF CountInv
    <3> QED BY <3>1, <3>2
  <2>10. DoneInv'
    BY <1>0 DEF DoneInv
  <2> QED BY <2>4, <2>7, <2>8, <2>9, <2>10 DEF Inv
<1> QED BY <1>1, <1>2, <1>3

\* So does the end of a pass; at pass N every node was released, and none is in this pass.
LEMMA EndPassStep ==
    ASSUME Inv, EndPass
    PROVE  Inv'
<1>0. /\ TypeInv /\ AgreeInv /\ PassInv /\ CountInv /\ N \in Nat /\ node = N + 1
      /\ UNCHANGED <<pipeline, steps, byName>> /\ Open' = Open /\ Released' = Released
      /\ pass \in 0 .. N /\ released \in BOOLEAN
  BY NAssumption DEF Inv, EndPass, Open, Released, TypeInv
<1>1. AgreeInv'
  BY <1>0, VerdictsPrimed DEF AgreeInv
<1>2. CASE released /\ pass < N
  <2>1. node' = 1 /\ pass' = pass + 1 /\ released' = FALSE /\ UNCHANGED done
    BY <1>2 DEF EndPass
  <2>2. TypeInv'
    <3>1. node' \in 1 .. N + 1 /\ pass' \in 0 .. N
      BY <1>0, <1>2, <2>1
    <3>2. released' \in BOOLEAN /\ done' \in BOOLEAN
      BY <1>0, <2>1 DEF TypeInv
    <3> QED BY <1>0, <3>1, <3>2 DEF TypeInv, pipeline, Nodes, Acyclic
  <2>3. PassInv'
    BY <1>0, <2>1 DEF PassInv, Open, Nodes
  <2>4. CountInv'
    BY <1>0, <1>2, <2>1 DEF CountInv
  <2>5. DoneInv'
    BY <2>1 DEF DoneInv, EndPass
  <2> QED BY <1>1, <2>2, <2>3, <2>4, <2>5 DEF Inv
<1>3. CASE ~(released /\ pass < N)
  <2>1. done' = TRUE /\ UNCHANGED <<node, pass, released>>
    BY <1>3 DEF EndPass
  <2>2. ~released
    <3>1. Cardinality(Released) \in Nat /\ Cardinality(Released) <= N
      BY <1>0, Finite
    <3> QED BY <1>0, <1>3, <3>1 DEF CountInv
  <2>3. TypeInv'
    BY <1>0, <2>1 DEF TypeInv, pipeline, Nodes, Acyclic
  <2>4. PassInv'
    BY <1>0, <2>1, VerdictsPrimed DEF PassInv
  <2>5. CountInv' /\ DoneInv'
    BY <1>0, <2>1, <2>2 DEF CountInv, DoneInv
  <2> QED BY <1>1, <2>3, <2>4, <2>5 DEF Inv
<1> QED BY <1>2, <1>3

\* The invariant holds throughout.
LEMMA Invariance == Spec => []Inv
<1>1. Inv /\ UNCHANGED vars => Inv'
  <2> SUFFICES ASSUME Inv, UNCHANGED vars PROVE Inv'
    OBVIOUS
  <2>1. UNCHANGED <<pipeline, steps, byName, node, pass, released, done>> /\ Open' = Open /\ Released' = Released
    BY DEF vars, pipeline, Open, Released
  <2>2. TypeInv'
    BY <2>1 DEF Inv, TypeInv, pipeline, Nodes, Acyclic
  <2>3. AgreeInv' /\ PassInv'
    BY <2>1, VerdictsPrimed DEF Inv, AgreeInv, PassInv
  <2>4. CountInv' /\ DoneInv'
    BY <2>1 DEF Inv, CountInv, DoneInv
  <2> QED BY <2>2, <2>3, <2>4 DEF Inv
<1> QED BY <1>1, InitInv, DecideStep, EndPassStep, PTL DEF Spec, Next

-----------------------------------------------------------------------------
(* The theorems *)

\* With the passes over, no node was left that could be decided.
LEMMA AllDecided ==
    ASSUME Inv, done, NEW n \in Open
    PROVE  byName[n] \in P!Verdicts(byName, n)
<1>1. n < node /\ ~released
  BY NAssumption DEF Inv, DoneInv, Open, Nodes
<1>2. CASE byName[n] = "pending"
  BY <1>1, <1>2 DEF Inv, PassInv
<1>3. CASE byName[n] # "pending"
  BY <1>3 DEF Inv, AgreeInv
<1> QED BY <1>2, <1>3

\* PassesAgree: the passes of Engine.Next end in an outcome PipelineNext allows, whatever the
\* pipeline, the order of its nodes and the statuses of their steps.
THEOREM PassesEndInNext == Spec => []PassesAgree
<1>1. ASSUME Inv, done PROVE byName \in P!NextSteps(steps)
  <2> DEFINE g == [n \in P!PendingSteps(steps) |-> byName[n]]
  <2>0. P!PendingSteps(steps) = Open
    BY DEF P!PendingSteps, Open
  <2>1. \A n \in Open : byName[n] \in P!Verdicts(byName, n)
    BY <1>1, AllDecided
  <2>2. g \in [P!PendingSteps(steps) -> P!Decisions]
    BY <2>0, <2>1, VerdictsTyped DEF P!Decisions
  <2>3. byName = P!Decide(steps, g)
    BY <1>1, <2>0 DEF Inv, TypeInv, AgreeInv, P!Decide, Open
  <2> HIDE DEF g
  <2> QED BY <2>0, <2>1, <2>2, <2>3 DEF P!NextSteps
<1>2. Inv => PassesAgree
  BY <1>1 DEF PassesAgree
<1> QED BY <1>2, Invariance, PTL

\* NothingLeftBehind: a run that Next leaves under way has a step that is queued, at work or
\* waiting, whatever the pipeline: derive's "it could not start" is never reached (BUG-126).
THEOREM NextLeavesWork == Spec => []NothingLeftBehind
<1>1. ASSUME Inv, done, ~P!AllEnded(byName), ~P!Active(byName), \A n \in Nodes : byName[n] # "waiting"
      PROVE  FALSE
  <2> DEFINE Left == {n \in Nodes : byName[n] = "pending"}
  <2>1. \A n \in Nodes : n \in Left \/ byName[n] \in P!Terminal
    BY <1>1 DEF Inv, TypeInv, Status, P!StepStatus, P!Active, P!Terminal
  <2>2. Left \in SUBSET Nodes /\ Left # {}
    BY <1>1, <2>1 DEF P!AllEnded
  <2>3. PICK n \in Left : after[n] \cap Left = {}
    BY <1>1, <2>2 DEF Inv, TypeInv, Acyclic
  <2>4. n \in Open
    BY <1>1 DEF Inv, AgreeInv, Open
  <2>5. "pending" \in P!Verdicts(byName, n)
    BY <1>1, <2>4, AllDecided
  <2>6. P!Ready(byName, n)
    BY <1>1, <2>1, <2>3 DEF P!Ready, Inv, TypeInv
  <2> QED BY <2>5, <2>6, VerdictsTyped
<1>2. Inv => NothingLeftBehind
  BY <1>1 DEF NothingLeftBehind
<1> QED BY <1>2, Invariance, PTL

================================================================================
