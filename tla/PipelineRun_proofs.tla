------------------------- MODULE PipelineRun_proofs -------------------------
(***************************************************************************)
(* Proofs about PipelineRun, for every set of nodes, elements, limits and  *)
(* any number of crashes.                                                  *)
(*                                                                         *)
(* The outcome of a node is that of its children because what the worker   *)
(* is about to save already is (ResultInv), and because an end is told     *)
(* only of a child that ended (ToldInv).  The children of a stopped parent *)
(* are canceled because a status stopChildren is done with is one they     *)
(* cannot come back to, but for those that wait themselves (StopInv).      *)
(***************************************************************************)
EXTENDS PipelineRun, FiniteSetTheorems, TLAPS

\* A worker is at a step that runs or ended under it; the attempts left and used so far.
WorkInv ==
    \A n \in Nodes :
        /\ place[n] # "idle" => step[n] \in {"running"} \cup Ends /\ attempt[n] >= 1
        /\ step[n] = "waiting" => attempt[n] >= 1
        /\ step[n] = "queued" => attempt[n] <= Tries + crashes
        /\ attempt[n] <= Tries + crashes + 1
        /\ place[n] = "save" => result[n] # "none"
        /\ result[n] = "queued" => attempt[n] < Tries
        /\ place[n] = "idle" => result[n] = "none"

\* The node is at an element, or waits for it, and those before it are done.
OrderInv ==
    /\ OneAfterAnother
    /\ \A n \in WaitNodes :
          place[n] # "idle" \/ step[n] = "waiting" =>
              \A i \in 1 .. (el[n] - 1) : child[<<n, i>>] = "done"

AllDone(n) == \A i \in 1 .. Size[n] : child[<<n, i>>] = "done"
SomeBad(n) == \E i \in 1 .. Size[n] : child[<<n, i>>] \in {"failed", "canceled"}

\* What the worker is about to save is the outcome of the children.
ResultInv ==
    \A n \in WaitNodes :
        /\ result[n] = "done" => AllDone(n)
        /\ result[n] = "failed" => n \in refused \/ SomeBad(n)

\* Only the end of a child that ended is told.
ToldInv == \A c \in Children : told[c] \in {"due", "again"} => child[c] \in Ends

\* stopChildren has no child left of a status it is done with, nor one of the status it is at
\* that its page misses.
StopInv ==
    /\ parent = "live" => scan = 0
    /\ scan = 0 => pass = "read"
    /\ pass = "read" => page = {}
    /\ \A c \in Waited \ MayWait : child[c] # "waiting"
    /\ parent \in {"failed", "canceled"} =>
          \A c \in Waited \ (late \cup MayWait) :
              /\ scan \in 2 .. Over => child[c] # "queued"
              /\ scan \in 3 .. Over => child[c] # "running"
              /\ scan = 1 /\ pass # "read" /\ child[c] = "queued" => c \in page
              /\ scan = 2 /\ pass # "read" /\ child[c] = "running" => c \in page

Inv == TypeOK /\ WorkInv /\ OrderInv /\ OutcomeOfChildren /\ ResultInv /\ ToldInv /\ StopInv

-----------------------------------------------------------------------------
(* The children *)

\* A child is a node and one of its elements.
LEMMA ChildForm ==
    ASSUME NEW c \in Children
    PROVE  c[1] \in Nodes /\ c[2] \in 1 .. Size[c[1]] /\ c = <<c[1], c[2]>>
BY DEF Children

LEMMA ChildOf ==
    ASSUME NEW n \in Nodes, NEW i \in 1 .. Size[n]
    PROVE  <<n, i>> \in Children
BY DEF Children

\* What an action may do to the children: one that ended stays as it is, none comes back.
Kept ==
    /\ child' \in [Children -> {"absent"} \cup LiveRun \cup Ends]
    /\ \A c \in Children :
          /\ child[c] \in Ends => child'[c] = child[c]
          /\ child[c] # "absent" => child'[c] # "absent"

LEMMA InitInv == Init => Inv
<1> SUFFICES ASSUME Init PROVE Inv
  OBVIOUS
<1>1. \A n \in Nodes : Size[n] \in Nat \ {0}
  BY SizeAssumption
<1>2. TypeOK
  BY <1>1, LimitsAssumption DEF Init, TypeOK, LiveRun, Ends, Over
<1>3. WorkInv
  BY LimitsAssumption DEF Init, WorkInv, Ends
<1>4. OrderInv
  BY NodesAssumption DEF Init, OrderInv, OneAfterAnother, Waited
<1>5. OutcomeOfChildren /\ ResultInv
  BY NodesAssumption DEF Init, OutcomeOfChildren, ResultInv
<1>6. ToldInv /\ StopInv
  BY DEF Init, ToldInv, StopInv, Waited, Over
<1> QED BY <1>2, <1>3, <1>4, <1>5, <1>6 DEF Inv

-----------------------------------------------------------------------------
(* The steps *)

\* Every step keeps the types.
LEMMA TypeStep ==
    ASSUME Inv, [Next]_vars
    PROVE  TypeOK'
<1>1. ASSUME NEW n \in Nodes, Claim(n) PROVE TypeOK'
  <2>1. attempt[n] \in Nat /\ attempt[n] + 1 \in 0 .. (Tries + MaxCrashes + 1)
    BY <1>1, LimitsAssumption DEF Claim, Inv, TypeOK, WorkInv
  <2>2. attempt' \in [Nodes -> 0 .. (Tries + MaxCrashes + 1)]
    BY <1>1, <2>1 DEF Claim, Inv, TypeOK
  <2>3. el' \in [Nodes -> Nat \ {0}] /\ \A m \in Nodes : el'[m] <= Size[m]
    <3>1. \A m \in Nodes : Size[m] \in Nat /\ 1 <= Size[m]
      BY SizeAssumption
    <3>2. el' = [el EXCEPT ![n] = 1] /\ el \in [Nodes -> Nat \ {0}] /\ \A m \in Nodes : el[m] <= Size[m]
      BY <1>1 DEF Claim, Inv, TypeOK
    <3>3. el' \in [Nodes -> Nat \ {0}]
      BY <3>2
    <3>4. ASSUME NEW m \in Nodes PROVE el'[m] <= Size[m]
      <4>1. CASE m = n
        BY <3>1, <3>2, <4>1
      <4>2. CASE m # n
        BY <3>2, <4>2
      <4> QED BY <4>1, <4>2
    <3> QED BY <3>3, <3>4
  <2> QED BY <1>1, <2>2, <2>3 DEF Claim, Inv, TypeOK, LiveRun, Ends, rows, work, stopping, history
<1>2. ASSUME NEW n \in Nodes, Room(n) PROVE TypeOK'
  BY <1>2, SizeAssumption, NodesAssumption, LimitsAssumption, ChildForm, ChildOf
  DEF Room, Answer, FailOrRetry, Inv, TypeOK, WorkInv, LiveRun, Ends, Over, Waited, rows, work, stopping, history
<1>3. ASSUME NEW n \in Nodes, StartChild(n) PROVE TypeOK'
  <2> DEFINE c == <<n, el[n]>>
  <2>1. el[n] \in 1 .. Size[n] /\ Size[n] \in Nat /\ c \in Children
    BY SizeAssumption, ChildOf DEF Inv, TypeOK
  <2>2. /\ child' \in [Children -> {"absent"} \cup LiveRun \cup Ends] /\ late' \subseteq Children
    BY <1>3, <2>1 DEF StartChild, Inv, TypeOK, LiveRun, Ends
  <2>3. \/ NextElement(n)
        \/ \E what \in {"waiting", "queued", "failed"} : Answer(n, what) /\ UNCHANGED el
    BY <1>3 DEF StartChild, FailOrRetry
  <2>4. /\ el' \in [Nodes -> Nat \ {0}] /\ \A m \in Nodes : el'[m] <= Size[m]
        /\ place' \in [Nodes -> {"idle", "room", "start", "save"}]
        /\ result' \in [Nodes -> {"none", "waiting", "done", "failed", "queued"}]
    BY <2>1, <2>3 DEF NextElement, Answer, Inv, TypeOK
  <2> QED BY <1>3, <2>2, <2>4 DEF StartChild, Inv, TypeOK, rows, stopping
<1>4. ASSUME NEW n \in Nodes, Save(n) PROVE TypeOK'
  BY <1>4, SizeAssumption, NodesAssumption, LimitsAssumption, ChildForm, ChildOf
  DEF Save, Inv, TypeOK, WorkInv, LiveRun, Ends, Over, Waited, rows, work, stopping, history
<1>5. ASSUME NEW n \in Nodes, Expire(n) PROVE TypeOK'
  BY <1>5, SizeAssumption, NodesAssumption, LimitsAssumption, ChildForm, ChildOf
  DEF Expire, Inv, TypeOK, WorkInv, LiveRun, Ends, Over, Waited, rows, work, stopping, history
<1>6. ASSUME NEW c \in Children, ChildMoves(c) PROVE TypeOK'
  BY <1>6, SizeAssumption, NodesAssumption, LimitsAssumption, ChildForm, ChildOf
  DEF ChildMoves, Inv, TypeOK, WorkInv, LiveRun, Ends, Over, Waited, rows, work, stopping, history
<1>7. ASSUME NEW c \in Children, Resume(c) PROVE TypeOK'
  BY <1>7, SizeAssumption, NodesAssumption, LimitsAssumption, ChildForm, ChildOf
  DEF Resume, Resumed, Inv, TypeOK, WorkInv, LiveRun, Ends, Over, Waited, rows, work, stopping, history
<1>8. ASSUME NEW c \in Children, NEW how \in Ends, ChildEnds(c, how) PROVE TypeOK'
  BY <1>8, SizeAssumption, NodesAssumption, LimitsAssumption, ChildForm, ChildOf
  DEF ChildEnds, Inv, TypeOK, WorkInv, LiveRun, Ends, Over, Waited, rows, work, stopping, history
<1>9. CASE Advance
  BY <1>9, SizeAssumption, NodesAssumption, LimitsAssumption, ChildForm, ChildOf
  DEF Advance, Inv, TypeOK, WorkInv, LiveRun, Ends, Over, Waited, rows, work, stopping, history
<1>10. CASE Cancel
  BY <1>10, SizeAssumption, NodesAssumption, LimitsAssumption, ChildForm, ChildOf
  DEF Cancel, Inv, TypeOK, WorkInv, LiveRun, Ends, Over, Waited, rows, work, stopping, history
<1>11. CASE StopRead
  BY <1>11, SizeAssumption, NodesAssumption, LimitsAssumption, ChildForm, ChildOf
  DEF StopRead, Inv, TypeOK, WorkInv, LiveRun, Ends, Over, Waited, rows, work, stopping, history
<1>12. ASSUME NEW c \in Waited, StopOne(c) PROVE TypeOK'
  BY <1>12, SizeAssumption, NodesAssumption, LimitsAssumption, ChildForm, ChildOf
  DEF StopOne, Inv, TypeOK, WorkInv, LiveRun, Ends, Over, Waited, rows, work, stopping, history
<1>13. CASE StopNext
  BY <1>13, SizeAssumption, NodesAssumption, LimitsAssumption, ChildForm, ChildOf
  DEF StopNext, Inv, TypeOK, WorkInv, LiveRun, Ends, Over, Waited, rows, work, stopping, history
<1>14. CASE Crash
  BY <1>14, SizeAssumption, NodesAssumption, LimitsAssumption, ChildForm, ChildOf
  DEF Crash, Inv, TypeOK, WorkInv, LiveRun, Ends, Over, Waited, rows, work, stopping, history
<1>15. CASE UNCHANGED vars
  BY <1>15, SizeAssumption, NodesAssumption, LimitsAssumption, ChildForm, ChildOf
  DEF vars, Inv, TypeOK, WorkInv, LiveRun, Ends, Over, Waited, rows, work, stopping, history
<1> QED
  BY <1>1, <1>2, <1>3, <1>4, <1>5, <1>6, <1>7, <1>8, <1>9, <1>10, <1>11, <1>12, <1>13, <1>14, <1>15 DEF Next

\* Every step keeps the attempts and the places.
LEMMA WorkStep ==
    ASSUME Inv, TypeOK', [Next]_vars
    PROVE  WorkInv'
<1>1. ASSUME NEW n \in Nodes, Claim(n) PROVE WorkInv'
  <2>1. attempt[n] \in Nat /\ attempt[n] <= Tries + crashes /\ crashes \in Nat /\ attempt'[n] = attempt[n] + 1
    BY <1>1, LimitsAssumption DEF Claim, Inv, TypeOK, WorkInv
  <2>2. result[n] # "queued"
    BY <1>1 DEF Inv, WorkInv, Claim
  <2>3. ASSUME NEW m \in Nodes \ {n}
        PROVE  /\ place'[m] = place[m] /\ step'[m] = step[m] /\ attempt'[m] = attempt[m]
               /\ result'[m] = result[m]
    BY <1>1, <2>3 DEF Claim, Inv, TypeOK
  <2> QED BY <1>1, <2>1, <2>2, <2>3, LimitsAssumption DEF Claim, Inv, TypeOK, WorkInv, Ends
<1>2. ASSUME NEW n \in Nodes, Room(n) PROVE WorkInv'
  BY <1>2, LimitsAssumption, ChildForm
  DEF Room, Answer, FailOrRetry, Inv, TypeOK, WorkInv, LiveRun, Ends, rows, work, stopping, history
<1>3. ASSUME NEW n \in Nodes, StartChild(n) PROVE WorkInv'
  BY <1>3, LimitsAssumption, ChildForm
  DEF StartChild, NextElement, Answer, FailOrRetry, Inv, TypeOK, WorkInv, LiveRun, Ends, rows, work, stopping, history
<1>4. ASSUME NEW n \in Nodes, Save(n) PROVE WorkInv'
  BY <1>4, LimitsAssumption, ChildForm
  DEF Save, Inv, TypeOK, WorkInv, LiveRun, Ends, rows, work, stopping, history
<1>5. ASSUME NEW n \in Nodes, Expire(n) PROVE WorkInv'
  BY <1>5, LimitsAssumption, ChildForm
  DEF Expire, Inv, TypeOK, WorkInv, LiveRun, Ends, rows, work, stopping, history
<1>6. ASSUME NEW c \in Children, ChildMoves(c) PROVE WorkInv'
  BY <1>6, LimitsAssumption, ChildForm
  DEF ChildMoves, Inv, TypeOK, WorkInv, LiveRun, Ends, rows, work, stopping, history
<1>7. ASSUME NEW c \in Children, Resume(c) PROVE WorkInv'
  BY <1>7, LimitsAssumption, ChildForm
  DEF Resume, Resumed, Inv, TypeOK, WorkInv, LiveRun, Ends, rows, work, stopping, history
<1>8. ASSUME NEW c \in Children, NEW how \in Ends, ChildEnds(c, how) PROVE WorkInv'
  BY <1>8, LimitsAssumption, ChildForm
  DEF ChildEnds, Inv, TypeOK, WorkInv, LiveRun, Ends, rows, work, stopping, history
<1>9. CASE Advance
  BY <1>9, LimitsAssumption, ChildForm
  DEF Advance, Inv, TypeOK, WorkInv, LiveRun, Ends, rows, work, stopping, history
<1>10. CASE Cancel
  BY <1>10, LimitsAssumption, ChildForm
  DEF Cancel, Inv, TypeOK, WorkInv, LiveRun, Ends, rows, work, stopping, history
<1>11. CASE StopRead
  BY <1>11, LimitsAssumption, ChildForm
  DEF StopRead, Inv, TypeOK, WorkInv, LiveRun, Ends, rows, work, stopping, history
<1>12. ASSUME NEW c \in Waited, StopOne(c) PROVE WorkInv'
  BY <1>12, LimitsAssumption, ChildForm
  DEF StopOne, Inv, TypeOK, WorkInv, LiveRun, Ends, rows, work, stopping, history
<1>13. CASE StopNext
  BY <1>13, LimitsAssumption, ChildForm
  DEF StopNext, Inv, TypeOK, WorkInv, LiveRun, Ends, rows, work, stopping, history
<1>14. CASE Crash
  BY <1>14, LimitsAssumption, ChildForm
  DEF Crash, Inv, TypeOK, WorkInv, LiveRun, Ends, rows, work, stopping, history
<1>15. CASE UNCHANGED vars
  BY <1>15, LimitsAssumption, ChildForm
  DEF vars, Inv, TypeOK, WorkInv, LiveRun, Ends, rows, work, stopping, history
<1> QED
  BY <1>1, <1>2, <1>3, <1>4, <1>5, <1>6, <1>7, <1>8, <1>9, <1>10, <1>11, <1>12, <1>13, <1>14, <1>15 DEF Next

\* Every step keeps the ends of the children.
LEMMA KeptStep ==
    ASSUME Inv, TypeOK', [Next]_vars
    PROVE  Kept
<1>1. ASSUME NEW n \in Nodes, Claim(n) PROVE Kept
  BY <1>1, ChildOf
  DEF Claim, Inv, TypeOK, Kept, LiveRun, Ends, Waited, rows, work, stopping, history
<1>2. ASSUME NEW n \in Nodes, Room(n) PROVE Kept
  BY <1>2, ChildOf
  DEF Room, Answer, FailOrRetry, Inv, TypeOK, Kept, LiveRun, Ends, Waited, rows, work, stopping, history
<1>3. ASSUME NEW n \in Nodes, StartChild(n) PROVE Kept
  BY <1>3, ChildOf
  DEF StartChild, NextElement, Answer, FailOrRetry, Inv, TypeOK, Kept, LiveRun, Ends, Waited, rows, work, stopping,
      history
<1>4. ASSUME NEW n \in Nodes, Save(n) PROVE Kept
  BY <1>4, ChildOf
  DEF Save, Inv, TypeOK, Kept, LiveRun, Ends, Waited, rows, work, stopping, history
<1>5. ASSUME NEW n \in Nodes, Expire(n) PROVE Kept
  BY <1>5, ChildOf
  DEF Expire, Inv, TypeOK, Kept, LiveRun, Ends, Waited, rows, work, stopping, history
<1>6. ASSUME NEW c \in Children, ChildMoves(c) PROVE Kept
  BY <1>6, ChildOf
  DEF ChildMoves, Inv, TypeOK, Kept, LiveRun, Ends, Waited, rows, work, stopping, history
<1>7. ASSUME NEW c \in Children, Resume(c) PROVE Kept
  BY <1>7, ChildOf
  DEF Resume, Resumed, Inv, TypeOK, Kept, LiveRun, Ends, Waited, rows, work, stopping, history
<1>8. ASSUME NEW c \in Children, NEW how \in Ends, ChildEnds(c, how) PROVE Kept
  BY <1>8, ChildOf
  DEF ChildEnds, Inv, TypeOK, Kept, LiveRun, Ends, Waited, rows, work, stopping, history
<1>9. CASE Advance
  BY <1>9, ChildOf
  DEF Advance, Inv, TypeOK, Kept, LiveRun, Ends, Waited, rows, work, stopping, history
<1>10. CASE Cancel
  BY <1>10, ChildOf
  DEF Cancel, Inv, TypeOK, Kept, LiveRun, Ends, Waited, rows, work, stopping, history
<1>11. CASE StopRead
  BY <1>11, ChildOf
  DEF StopRead, Inv, TypeOK, Kept, LiveRun, Ends, Waited, rows, work, stopping, history
<1>12. ASSUME NEW c \in Waited, StopOne(c) PROVE Kept
  BY <1>12, ChildOf
  DEF StopOne, Inv, TypeOK, Kept, LiveRun, Ends, Waited, rows, work, stopping, history
<1>13. CASE StopNext
  BY <1>13, ChildOf
  DEF StopNext, Inv, TypeOK, Kept, LiveRun, Ends, Waited, rows, work, stopping, history
<1>14. CASE Crash
  BY <1>14, ChildOf
  DEF Crash, Inv, TypeOK, Kept, LiveRun, Ends, Waited, rows, work, stopping, history
<1>15. CASE UNCHANGED vars
  BY <1>15, ChildOf
  DEF vars, Inv, TypeOK, Kept, LiveRun, Ends, Waited, rows, work, stopping, history
<1> QED
  BY <1>1, <1>2, <1>3, <1>4, <1>5, <1>6, <1>7, <1>8, <1>9, <1>10, <1>11, <1>12, <1>13, <1>14, <1>15 DEF Next

\* Every step keeps the order of the elements.
LEMMA OrderStep ==
    ASSUME Inv, TypeOK', Kept, [Next]_vars
    PROVE  OrderInv'
<1>1. ASSUME NEW n \in Nodes, Claim(n) PROVE OrderInv'
  BY <1>1, NodesAssumption, ChildForm, ChildOf, SizeAssumption
  DEF Claim, Inv, TypeOK, WorkInv, OrderInv, OneAfterAnother, Waited, Kept, LiveRun, Ends, rows, work, stopping,
      history
<1>2. ASSUME NEW n \in Nodes, Room(n) PROVE OrderInv'
  BY <1>2, NodesAssumption, ChildForm, ChildOf, SizeAssumption
  DEF Room, Answer, FailOrRetry, Inv, TypeOK, WorkInv, OrderInv, OneAfterAnother, Waited, Kept, LiveRun, Ends,
      rows, work, stopping, history
<1>3. ASSUME NEW n \in Nodes, StartChild(n) PROVE OrderInv'
  <2> DEFINE c == <<n, el[n]>>
  <2>1. el[n] \in 1 .. Size[n] /\ Size[n] \in Nat /\ c \in Children /\ place[n] # "idle"
    BY <1>3, SizeAssumption, ChildOf DEF Inv, TypeOK, StartChild
  <2>2. \A d \in Children \ {c} : child'[d] = child[d]
    BY <1>3, <2>1 DEF StartChild, Inv, TypeOK
  <2>3. n \in WaitNodes => \A i \in 1 .. (el[n] - 1) : child[<<n, i>>] = "done"
    BY <2>1 DEF Inv, OrderInv
  <2>4. n \in WaitNodes => \A i \in 1 .. (el[n] - 1) : child'[<<n, i>>] = "done"
    BY <2>1, <2>2, <2>3, ChildOf
  <2>5. OneAfterAnother'
    <3> SUFFICES ASSUME NEW d \in Waited, child'[d] # "absent", NEW i \in 1 .. (d[2] - 1)
                 PROVE  child'[<<d[1], i>>] = "done"
      BY DEF OneAfterAnother
    <3>1. /\ d \in Children /\ d[1] \in WaitNodes /\ d[1] \in Nodes /\ d[2] \in 1 .. Size[d[1]]
          /\ d = <<d[1], d[2]>> /\ Size[d[1]] \in Nat
      BY ChildForm, SizeAssumption DEF Waited
    <3>2. CASE d = c
      BY <2>4, <3>1, <3>2
    <3>3. CASE d # c
      <4>1. child[<<d[1], i>>] = "done"
        BY <2>2, <3>1, <3>3 DEF Inv, OrderInv, OneAfterAnother
      <4>2. <<d[1], i>> \in Children
        BY <3>1, ChildOf
      <4> QED BY <4>1, <4>2 DEF Kept, Ends
    <3> QED BY <3>2, <3>3
  <2>6. \/ UNCHANGED el
        \/ el' = [el EXCEPT ![n] = @ + 1] /\ (n \in WaitNodes => child'[c] = "done")
    BY <1>3 DEF StartChild, NextElement
  <2>7. n \in WaitNodes => \A i \in 1 .. (el'[n] - 1) : child'[<<n, i>>] = "done"
    BY <2>1, <2>4, <2>6 DEF Inv, TypeOK
  <2>8. ASSUME NEW m \in WaitNodes \ {n}, place'[m] # "idle" \/ step'[m] = "waiting"
        PROVE  \A i \in 1 .. (el'[m] - 1) : child'[<<m, i>>] = "done"
    <3>1. m \in Nodes /\ place'[m] = place[m] /\ step'[m] = step[m] /\ el'[m] = el[m]
      BY <1>3, <2>8, NodesAssumption
      DEF StartChild, NextElement, Answer, FailOrRetry, Inv, TypeOK, rows
    <3>2. \A i \in 1 .. (el[m] - 1) : child[<<m, i>>] = "done" /\ <<m, i>> \in Children
      BY <2>8, <3>1, ChildOf, SizeAssumption DEF Inv, TypeOK, OrderInv
    <3> QED BY <3>1, <3>2 DEF Kept, Ends
  <2> QED BY <2>5, <2>7, <2>8 DEF OrderInv
<1>4. ASSUME NEW n \in Nodes, Save(n) PROVE OrderInv'
  BY <1>4, NodesAssumption, ChildForm, ChildOf, SizeAssumption
  DEF Save, Inv, TypeOK, WorkInv, OrderInv, OneAfterAnother, Waited, Kept, LiveRun, Ends, rows, work, stopping,
      history
<1>5. ASSUME NEW n \in Nodes, Expire(n) PROVE OrderInv'
  BY <1>5, NodesAssumption, ChildForm, ChildOf, SizeAssumption
  DEF Expire, Inv, TypeOK, WorkInv, OrderInv, OneAfterAnother, Waited, Kept, LiveRun, Ends, rows, work, stopping,
      history
<1>6. ASSUME NEW c \in Children, ChildMoves(c) PROVE OrderInv'
  <2>1. /\ UNCHANGED <<step, place, el>>
        /\ \A d \in Children : child'[d] # "absent" => child[d] # "absent"
    BY <1>6 DEF ChildMoves, Inv, TypeOK, rows, work
  <2>2. ASSUME NEW m \in WaitNodes, NEW k \in 1 .. Size[m], \A i \in 1 .. (k - 1) : child[<<m, i>>] = "done"
        PROVE  \A i \in 1 .. (k - 1) : child'[<<m, i>>] = "done"
    <3>1. m \in Nodes /\ Size[m] \in Nat
      BY NodesAssumption, SizeAssumption
    <3>2. \A i \in 1 .. (k - 1) : <<m, i>> \in Children
      BY <3>1, ChildOf
    <3> QED BY <2>2, <3>2 DEF Kept, Ends
  <2>3. OneAfterAnother'
    <3> SUFFICES ASSUME NEW d \in Waited, child'[d] # "absent"
                 PROVE  \A i \in 1 .. (d[2] - 1) : child'[<<d[1], i>>] = "done"
      BY DEF OneAfterAnother
    <3>1. d \in Children /\ d[1] \in WaitNodes /\ d[2] \in 1 .. Size[d[1]]
      BY ChildForm DEF Waited
    <3>2. \A i \in 1 .. (d[2] - 1) : child[<<d[1], i>>] = "done"
      BY <2>1, <3>1 DEF Inv, OrderInv, OneAfterAnother
    <3> QED BY <2>2, <3>1, <3>2
  <2>4. ASSUME NEW m \in WaitNodes, place'[m] # "idle" \/ step'[m] = "waiting"
        PROVE  \A i \in 1 .. (el'[m] - 1) : child'[<<m, i>>] = "done"
    <3>1. el[m] \in 1 .. Size[m] /\ el'[m] = el[m]
      BY <2>1, NodesAssumption, SizeAssumption DEF Inv, TypeOK
    <3>2. \A i \in 1 .. (el[m] - 1) : child[<<m, i>>] = "done"
      BY <2>1, <2>4 DEF Inv, OrderInv
    <3> QED BY <2>2, <3>1, <3>2
  <2> QED BY <2>3, <2>4 DEF OrderInv
<1>7. ASSUME NEW c \in Children, Resume(c) PROVE OrderInv'
  BY <1>7, NodesAssumption, ChildForm, ChildOf, SizeAssumption
  DEF Resume, Resumed, Inv, TypeOK, WorkInv, OrderInv, OneAfterAnother, Waited, Kept, LiveRun, Ends, rows, work,
      stopping, history
<1>8. ASSUME NEW c \in Children, NEW how \in Ends, ChildEnds(c, how) PROVE OrderInv'
  BY <1>8, NodesAssumption, ChildForm, ChildOf, SizeAssumption
  DEF ChildEnds, Inv, TypeOK, WorkInv, OrderInv, OneAfterAnother, Waited, Kept, LiveRun, Ends, rows, work,
      stopping, history
<1>9. CASE Advance
  BY <1>9, NodesAssumption, ChildForm, ChildOf, SizeAssumption
  DEF Advance, Inv, TypeOK, WorkInv, OrderInv, OneAfterAnother, Waited, Kept, LiveRun, Ends, rows, work, stopping,
      history
<1>10. CASE Cancel
  BY <1>10, NodesAssumption, ChildForm, ChildOf, SizeAssumption
  DEF Cancel, Inv, TypeOK, WorkInv, OrderInv, OneAfterAnother, Waited, Kept, LiveRun, Ends, rows, work, stopping,
      history
<1>11. CASE StopRead
  BY <1>11, NodesAssumption, ChildForm, ChildOf, SizeAssumption
  DEF StopRead, Inv, TypeOK, WorkInv, OrderInv, OneAfterAnother, Waited, Kept, LiveRun, Ends, rows, work, stopping,
      history
<1>12. ASSUME NEW c \in Waited, StopOne(c) PROVE OrderInv'
  BY <1>12, NodesAssumption, ChildForm, ChildOf, SizeAssumption
  DEF StopOne, Inv, TypeOK, WorkInv, OrderInv, OneAfterAnother, Waited, Kept, LiveRun, Ends, rows, work, stopping,
      history
<1>13. CASE StopNext
  BY <1>13, NodesAssumption, ChildForm, ChildOf, SizeAssumption
  DEF StopNext, Inv, TypeOK, WorkInv, OrderInv, OneAfterAnother, Waited, Kept, LiveRun, Ends, rows, work, stopping,
      history
<1>14. CASE Crash
  BY <1>14, NodesAssumption, ChildForm, ChildOf, SizeAssumption
  DEF Crash, Inv, TypeOK, WorkInv, OrderInv, OneAfterAnother, Waited, Kept, LiveRun, Ends, rows, work, stopping,
      history
<1>15. CASE UNCHANGED vars
  BY <1>15, NodesAssumption, ChildForm, ChildOf, SizeAssumption
  DEF vars, Inv, TypeOK, WorkInv, OrderInv, OneAfterAnother, Waited, Kept, LiveRun, Ends, rows, work, stopping,
      history
<1> QED
  BY <1>1, <1>2, <1>3, <1>4, <1>5, <1>6, <1>7, <1>8, <1>9, <1>10, <1>11, <1>12, <1>13, <1>14, <1>15 DEF Next

\* The outcomes of the nodes, by name.
Outcome ==
    \A n \in WaitNodes :
        /\ step[n] = "done" => AllDone(n)
        /\ step[n] = "failed" => n \in expired \cup refused \/ SomeBad(n)

LEMMA OutcomeNamed == OutcomeOfChildren <=> Outcome
BY DEF OutcomeOfChildren, Outcome, AllDone, SomeBad

LEMMA OutcomeNamedNext == OutcomeOfChildren' <=> Outcome'
BY DEF OutcomeOfChildren, Outcome, AllDone, SomeBad

\* What is done stays done, what went wrong stays wrong.
LEMMA OutcomesKept ==
    ASSUME Kept, NEW n \in Nodes
    PROVE  (AllDone(n) => AllDone(n)') /\ (SomeBad(n) => SomeBad(n)')
<1>1. \A i \in 1 .. Size[n] : child[<<n, i>>] \in Ends => child'[<<n, i>>] = child[<<n, i>>]
  BY ChildOf DEF Kept
<1> QED BY <1>1 DEF AllDone, SomeBad, Ends

\* A child that ended badly, or the last of the children done, makes the outcome.
LEMMA OneBad ==
    ASSUME NEW n \in Nodes, NEW i \in 1 .. Size[n], child'[<<n, i>>] \in {"failed", "canceled"}
    PROVE  SomeBad(n)'
BY DEF SomeBad

\* Every step keeps the outcomes, of the rows and of what is to be saved.
LEMMA OutcomeStep ==
    ASSUME Inv, TypeOK', Kept, [Next]_vars
    PROVE  Outcome' /\ ResultInv'
<1>1. Outcome /\ ResultInv /\ WaitNodes \subseteq Nodes
  BY OutcomeNamed, NodesAssumption DEF Inv
<1>2. \A n \in WaitNodes : (AllDone(n) => AllDone(n)') /\ (SomeBad(n) => SomeBad(n)')
  BY <1>1, OutcomesKept
<1>3. ASSUME NEW n \in Nodes, StartChild(n) PROVE Outcome' /\ ResultInv'
  <2> DEFINE c == <<n, el[n]>>
  <2>1. el[n] \in 1 .. Size[n] /\ Size[n] \in Nat /\ c \in Children /\ place[n] = "start"
    BY <1>3, SizeAssumption, ChildOf DEF Inv, TypeOK, StartChild
  <2>2. /\ UNCHANGED <<step, expired, refused>>
        /\ \A m \in Nodes \ {n} : result'[m] = result[m]
    BY <1>3 DEF StartChild, NextElement, Answer, FailOrRetry, Inv, TypeOK, rows
  <2>3. Outcome'
    BY <1>1, <1>2, <2>2 DEF Outcome
  <2>4. ASSUME n \in WaitNodes, result'[n] # result[n]
        PROVE  (result'[n] = "done" => AllDone(n)') /\ (result'[n] = "failed" => SomeBad(n)')
    <3>1. CASE child'[c] = "done"
      <4>1. NextElement(n)
        <5>1. ~(n \in WaitNodes /\ child'[c] \in LiveRun)
          BY <3>1 DEF LiveRun
        <5>2. \/ NextElement(n)
              \/ n \in WaitNodes /\ child'[c] \in LiveRun
              \/ ~(n \notin WaitNodes \/ child'[c] = "done")
          BY <1>3 DEF StartChild
        <5> QED BY <3>1, <5>1, <5>2
      <4>2. el[n] = Size[n] /\ result'[n] = "done"
        BY <2>1, <2>4, <4>1 DEF NextElement, Answer, Inv, TypeOK
      <4>3. \A i \in 1 .. (el[n] - 1) : child[<<n, i>>] = "done" /\ <<n, i>> \in Children
        BY <2>1, <2>4, ChildOf DEF Inv, OrderInv
      <4>4. \A i \in 1 .. (el[n] - 1) : child'[<<n, i>>] = "done"
        BY <4>3 DEF Kept, Ends
      <4> QED BY <2>1, <3>1, <4>2, <4>4 DEF AllDone
    <3>2. CASE child'[c] \in LiveRun
      BY <1>3, <2>4, <3>2 DEF StartChild, Answer, LiveRun, Inv, TypeOK
    <3>3. CASE child'[c] \notin LiveRun \cup {"done"}
      <4>1. child'[c] \in {"failed", "canceled"}
        BY <1>3, <2>1, <3>3 DEF StartChild, Inv, TypeOK, LiveRun, Ends
      <4>2. SomeBad(n)'
        BY <2>1, <4>1, OneBad
      <4>3. result'[n] \in {"queued", "failed"}
        BY <1>3, <2>4, <3>3 DEF StartChild, Answer, FailOrRetry, Inv, TypeOK
      <4> QED BY <4>2, <4>3
    <3> QED BY <3>1, <3>2, <3>3
  <2> QED BY <1>1, <1>2, <2>2, <2>3, <2>4 DEF ResultInv
<1>4. ASSUME NEW c \in Children, Resume(c) PROVE Outcome' /\ ResultInv'
  <2> DEFINE n == c[1]
  <2>1. n \in Nodes /\ c[2] \in 1 .. Size[n] /\ c = <<n, c[2]>>
    BY ChildForm
  <2>2. /\ UNCHANGED <<result, expired, refused, child>>
        /\ \A m \in Nodes \ {n} : step'[m] = step[m]
        /\ step'[n] # step[n] => step'[n] = Resumed(n, c)
    BY <1>4, <2>1 DEF Resume, Inv, TypeOK, work, history
  <2>3. child[c] \in Ends
    BY <1>4 DEF Resume, Inv, ToldInv
  <2>4. ASSUME step'[n] # step[n]
        PROVE  (step'[n] = "done" => AllDone(n)') /\ (step'[n] = "failed" => SomeBad(n)')
    <3>1. CASE n \in EachNodes
      BY <2>2, <2>4, <3>1 DEF Resumed
    <3>2. CASE n \notin EachNodes
      <4>1. Size[n] = 1 /\ c = <<n, 1>>
        BY <2>1, <3>2, NodesAssumption
      <4>2. CASE child[c] = "done"
        <5>1. AllDone(n)'
          BY <2>2, <4>1, <4>2 DEF AllDone
        <5> QED BY <2>2, <2>4, <3>2, <4>2, <5>1 DEF Resumed
      <4>3. CASE child[c] # "done"
        <5>1. child'[<<n, 1>>] \in {"failed", "canceled"}
          BY <2>2, <2>3, <4>1, <4>3 DEF Ends
        <5>2. SomeBad(n)'
          BY <2>1, <4>1, <5>1, OneBad
        <5> QED BY <2>2, <2>4, <3>2, <4>3, <5>2 DEF Resumed
      <4> QED BY <4>2, <4>3
    <3> QED BY <3>1, <3>2
  <2>5. Outcome'
    BY <1>1, <1>2, <2>2, <2>4 DEF Outcome
  <2> QED BY <1>1, <1>2, <2>2, <2>5 DEF ResultInv
<1>5. ASSUME NEW n \in Nodes, Claim(n) PROVE Outcome' /\ ResultInv'
  BY <1>1, <1>2, <1>5
  DEF Claim, Inv, TypeOK, Outcome, ResultInv, LiveRun, Ends, rows, work, stopping, history
<1>6. ASSUME NEW n \in Nodes, Room(n) PROVE Outcome' /\ ResultInv'
  BY <1>1, <1>2, <1>6
  DEF Room, Answer, FailOrRetry, Inv, TypeOK, Outcome, ResultInv, LiveRun, Ends, rows, work, stopping, history
<1>7. ASSUME NEW n \in Nodes, Save(n) PROVE Outcome' /\ ResultInv'
  BY <1>1, <1>2, <1>7
  DEF Save, Inv, TypeOK, Outcome, ResultInv, LiveRun, Ends, rows, work, stopping, history
<1>8. ASSUME NEW n \in Nodes, Expire(n) PROVE Outcome' /\ ResultInv'
  BY <1>1, <1>2, <1>8
  DEF Expire, Inv, TypeOK, Outcome, ResultInv, LiveRun, Ends, rows, work, stopping, history
<1>9. ASSUME NEW c \in Children, ChildMoves(c) PROVE Outcome' /\ ResultInv'
  BY <1>1, <1>2, <1>9
  DEF ChildMoves, Inv, TypeOK, Outcome, ResultInv, LiveRun, Ends, rows, work, stopping, history
<1>10. ASSUME NEW c \in Children, NEW how \in Ends, ChildEnds(c, how) PROVE Outcome' /\ ResultInv'
  BY <1>1, <1>2, <1>10
  DEF ChildEnds, Inv, TypeOK, Outcome, ResultInv, LiveRun, Ends, rows, work, stopping, history
<1>11. CASE Advance
  BY <1>1, <1>2, <1>11
  DEF Advance, Inv, TypeOK, Outcome, ResultInv, LiveRun, Ends, rows, work, stopping, history
<1>12. CASE Cancel
  BY <1>1, <1>2, <1>12
  DEF Cancel, Inv, TypeOK, Outcome, ResultInv, LiveRun, Ends, rows, work, stopping, history
<1>13. CASE StopRead
  BY <1>1, <1>2, <1>13
  DEF StopRead, Inv, TypeOK, Outcome, ResultInv, LiveRun, Ends, rows, work, stopping, history
<1>14. ASSUME NEW c \in Waited, StopOne(c) PROVE Outcome' /\ ResultInv'
  BY <1>1, <1>2, <1>14
  DEF StopOne, Inv, TypeOK, Outcome, ResultInv, LiveRun, Ends, rows, work, stopping, history
<1>15. CASE StopNext
  BY <1>1, <1>2, <1>15
  DEF StopNext, Inv, TypeOK, Outcome, ResultInv, LiveRun, Ends, rows, work, stopping, history
<1>16. CASE Crash
  BY <1>1, <1>2, <1>16
  DEF Crash, Inv, TypeOK, Outcome, ResultInv, LiveRun, Ends, rows, work, stopping, history
<1>17. CASE UNCHANGED vars
  BY <1>1, <1>2, <1>17
  DEF vars, Inv, TypeOK, Outcome, ResultInv, LiveRun, Ends, rows, work, stopping, history
<1> QED
  BY <1>3, <1>4, <1>5, <1>6, <1>7, <1>8, <1>9, <1>10, <1>11, <1>12, <1>13, <1>14, <1>15, <1>16, <1>17 DEF Next

\* Every step keeps what is told.
LEMMA ToldStep ==
    ASSUME Inv, TypeOK', Kept, [Next]_vars
    PROVE  ToldInv'
<1>1. ASSUME NEW n \in Nodes, Claim(n) PROVE ToldInv'
  BY <1>1, ChildOf
  DEF Claim, Inv, TypeOK, ToldInv, Kept, LiveRun, Ends, Waited, rows, work, stopping, history
<1>2. ASSUME NEW n \in Nodes, Room(n) PROVE ToldInv'
  BY <1>2, ChildOf
  DEF Room, Answer, FailOrRetry, Inv, TypeOK, ToldInv, Kept, LiveRun, Ends, Waited, rows, work, stopping, history
<1>3. ASSUME NEW n \in Nodes, StartChild(n) PROVE ToldInv'
  BY <1>3, ChildOf
  DEF StartChild, NextElement, Answer, FailOrRetry, Inv, TypeOK, ToldInv, Kept, LiveRun, Ends, Waited, rows, work,
      stopping, history
<1>4. ASSUME NEW n \in Nodes, Save(n) PROVE ToldInv'
  BY <1>4, ChildOf
  DEF Save, Inv, TypeOK, ToldInv, Kept, LiveRun, Ends, Waited, rows, work, stopping, history
<1>5. ASSUME NEW n \in Nodes, Expire(n) PROVE ToldInv'
  BY <1>5, ChildOf
  DEF Expire, Inv, TypeOK, ToldInv, Kept, LiveRun, Ends, Waited, rows, work, stopping, history
<1>6. ASSUME NEW c \in Children, ChildMoves(c) PROVE ToldInv'
  BY <1>6, ChildOf
  DEF ChildMoves, Inv, TypeOK, ToldInv, Kept, LiveRun, Ends, Waited, rows, work, stopping, history
<1>7. ASSUME NEW c \in Children, Resume(c) PROVE ToldInv'
  BY <1>7, ChildOf
  DEF Resume, Resumed, Inv, TypeOK, ToldInv, Kept, LiveRun, Ends, Waited, rows, work, stopping, history
<1>8. ASSUME NEW c \in Children, NEW how \in Ends, ChildEnds(c, how) PROVE ToldInv'
  BY <1>8, ChildOf
  DEF ChildEnds, Inv, TypeOK, ToldInv, Kept, LiveRun, Ends, Waited, rows, work, stopping, history
<1>9. CASE Advance
  BY <1>9, ChildOf
  DEF Advance, Inv, TypeOK, ToldInv, Kept, LiveRun, Ends, Waited, rows, work, stopping, history
<1>10. CASE Cancel
  BY <1>10, ChildOf
  DEF Cancel, Inv, TypeOK, ToldInv, Kept, LiveRun, Ends, Waited, rows, work, stopping, history
<1>11. CASE StopRead
  BY <1>11, ChildOf
  DEF StopRead, Inv, TypeOK, ToldInv, Kept, LiveRun, Ends, Waited, rows, work, stopping, history
<1>12. ASSUME NEW c \in Waited, StopOne(c) PROVE ToldInv'
  BY <1>12, ChildOf
  DEF StopOne, Inv, TypeOK, ToldInv, Kept, LiveRun, Ends, Waited, rows, work, stopping, history
<1>13. CASE StopNext
  BY <1>13, ChildOf
  DEF StopNext, Inv, TypeOK, ToldInv, Kept, LiveRun, Ends, Waited, rows, work, stopping, history
<1>14. CASE Crash
  BY <1>14, ChildOf
  DEF Crash, Inv, TypeOK, ToldInv, Kept, LiveRun, Ends, Waited, rows, work, stopping, history
<1>15. CASE UNCHANGED vars
  BY <1>15, ChildOf
  DEF vars, Inv, TypeOK, ToldInv, Kept, LiveRun, Ends, Waited, rows, work, stopping, history
<1> QED
  BY <1>1, <1>2, <1>3, <1>4, <1>5, <1>6, <1>7, <1>8, <1>9, <1>10, <1>11, <1>12, <1>13, <1>14, <1>15 DEF Next

\* Every step keeps what stopChildren knows.
LEMMA StopStep ==
    ASSUME Inv, TypeOK', [Next]_vars
    PROVE  StopInv'
<1>1. ASSUME NEW n \in Nodes, Claim(n) PROVE StopInv'
  BY <1>1, ChildForm, ChildOf
  DEF Claim, Inv, TypeOK, StopInv, LiveRun, Ends, Over, Waited, Pages, rows, work, stopping, history
<1>2. ASSUME NEW n \in Nodes, Room(n) PROVE StopInv'
  BY <1>2, ChildForm, ChildOf
  DEF Room, Answer, FailOrRetry, Inv, TypeOK, StopInv, LiveRun, Ends, Over, Waited, Pages, rows, work, stopping,
      history
<1>3. ASSUME NEW n \in Nodes, StartChild(n) PROVE StopInv'
  <2> DEFINE c == <<n, el[n]>>
  <2>1. UNCHANGED <<parent, scan, page, pass>>
    BY <1>3 DEF StartChild, rows, stopping
  <2>2. \/ UNCHANGED <<child, late>>
        \/ child' = [child EXCEPT ![c] = "queued"] /\ late' = (IF parent = "live" THEN late ELSE late \cup {c})
    BY <1>3 DEF StartChild
  <2> HIDE DEF c
  <2>3. \A d \in Children : child'[d] = child[d] \/ (child'[d] = "queued" /\ (parent # "live" => d \in late'))
    BY <2>2 DEF Inv, TypeOK
  <2>4. late \subseteq late' /\ Waited \subseteq Children
    BY <2>2 DEF Waited
  <2> QED BY <2>1, <2>3, <2>4 DEF Inv, StopInv, Over
<1>4. ASSUME NEW n \in Nodes, Save(n) PROVE StopInv'
  BY <1>4, ChildForm, ChildOf
  DEF Save, Inv, TypeOK, StopInv, LiveRun, Ends, Over, Waited, Pages, rows, work, stopping, history
<1>5. ASSUME NEW n \in Nodes, Expire(n) PROVE StopInv'
  BY <1>5, ChildForm, ChildOf
  DEF Expire, Inv, TypeOK, StopInv, LiveRun, Ends, Over, Waited, Pages, rows, work, stopping, history
<1>6. ASSUME NEW c \in Children, ChildMoves(c) PROVE StopInv'
  BY <1>6, ChildForm, ChildOf
  DEF ChildMoves, Inv, TypeOK, StopInv, LiveRun, Ends, Over, Waited, Pages, rows, work, stopping, history
<1>7. ASSUME NEW c \in Children, Resume(c) PROVE StopInv'
  BY <1>7, ChildForm, ChildOf
  DEF Resume, Resumed, Inv, TypeOK, StopInv, LiveRun, Ends, Over, Waited, Pages, rows, work, stopping, history
<1>8. ASSUME NEW c \in Children, NEW how \in Ends, ChildEnds(c, how) PROVE StopInv'
  BY <1>8, ChildForm, ChildOf
  DEF ChildEnds, Inv, TypeOK, StopInv, LiveRun, Ends, Over, Waited, Pages, rows, work, stopping, history
<1>9. CASE Advance
  BY <1>9, ChildForm, ChildOf
  DEF Advance, Inv, TypeOK, StopInv, LiveRun, Ends, Over, Waited, Pages, rows, work, stopping, history
<1>10. CASE Cancel
  BY <1>10, ChildForm, ChildOf
  DEF Cancel, Inv, TypeOK, StopInv, LiveRun, Ends, Over, Waited, Pages, rows, work, stopping, history
<1>11. CASE StopRead
  BY <1>11, ChildForm, ChildOf
  DEF StopRead, Inv, TypeOK, StopInv, LiveRun, Ends, Over, Waited, Pages, rows, work, stopping, history
<1>12. ASSUME NEW c \in Waited, StopOne(c) PROVE StopInv'
  BY <1>12, ChildForm, ChildOf
  DEF StopOne, Inv, TypeOK, StopInv, LiveRun, Ends, Over, Waited, Pages, rows, work, stopping, history
<1>13. CASE StopNext
  BY <1>13, ChildForm, ChildOf
  DEF StopNext, Inv, TypeOK, StopInv, LiveRun, Ends, Over, Waited, Pages, rows, work, stopping, history
<1>14. CASE Crash
  BY <1>14, ChildForm, ChildOf
  DEF Crash, Inv, TypeOK, StopInv, LiveRun, Ends, Over, Waited, Pages, rows, work, stopping, history
<1>15. CASE UNCHANGED vars
  BY <1>15, ChildForm, ChildOf
  DEF vars, Inv, TypeOK, StopInv, LiveRun, Ends, Over, Waited, Pages, rows, work, stopping, history
<1> QED
  BY <1>1, <1>2, <1>3, <1>4, <1>5, <1>6, <1>7, <1>8, <1>9, <1>10, <1>11, <1>12, <1>13, <1>14, <1>15 DEF Next

\* Every step keeps the invariant.
LEMMA StepInv == Inv /\ [Next]_vars => Inv'
<1> SUFFICES ASSUME Inv, [Next]_vars PROVE Inv'
  OBVIOUS
<1>1. TypeOK'
  BY TypeStep
<1>2. Kept
  BY <1>1, KeptStep
<1>3. WorkInv' /\ OrderInv' /\ ToldInv' /\ StopInv'
  BY <1>1, <1>2, WorkStep, OrderStep, ToldStep, StopStep
<1>4. OutcomeOfChildren' /\ ResultInv'
  BY <1>1, <1>2, OutcomeStep, OutcomeNamedNext
<1> QED BY <1>1, <1>3, <1>4 DEF Inv

-----------------------------------------------------------------------------
(* The count of the children *)

\* The nodes that counted and have their child still to start.
Starting == {n \in Nodes : place[n] = "start" /\ child[<<n, el[n]>>] = "absent"}

\* Whoever counts finds room for one, beside those that counted and did not start yet.
CountInv ==
    /\ IsFiniteSet(Started)
    /\ Cardinality(Started) + Cardinality(Starting) <= MaxChildren + Cardinality(Nodes) - 1

\* The sets that are counted are finite, and their sizes numbers.
LEMMA Counted ==
    ASSUME IsFiniteSet(Started)
    PROVE  /\ IsFiniteSet(Starting) /\ Cardinality(Starting) \in Nat
           /\ Cardinality(Started) \in Nat
           /\ Cardinality(Nodes) \in Nat
           /\ Cardinality(Starting) <= Cardinality(Nodes)
<1>1. IsFiniteSet(Nodes) /\ Starting \subseteq Nodes
  BY NodesAssumption DEF Starting
<1> QED BY <1>1, FS_Subset, FS_CardinalityType

\* A step that starts no child and lets no node count keeps the bound.
LEMMA CountKept ==
    ASSUME CountInv, MaxChildren \in Nat,
           Started' = Started, IsFiniteSet(Starting), Starting' \subseteq Starting
    PROVE  CountInv'
<1>1. Cardinality(Starting)' <= Cardinality(Starting) /\ Cardinality(Starting)' \in Nat
  BY FS_Subset, FS_CardinalityType
<1>2. Cardinality(Started)' = Cardinality(Started) /\ IsFiniteSet(Started)'
  BY DEF CountInv
<1>3. Cardinality(Started) \in Nat /\ Cardinality(Starting) \in Nat /\ Cardinality(Nodes) \in Nat
  BY Counted DEF CountInv
<1> QED BY <1>1, <1>2, <1>3 DEF CountInv

\* Every step keeps the bound.
LEMMA CountStep ==
    ASSUME TypeOK, CountInv, [Next]_vars
    PROVE  CountInv'
<1>1. /\ IsFiniteSet(Started) /\ IsFiniteSet(Starting) /\ MaxChildren \in Nat
      /\ Cardinality(Starting) \in Nat /\ Cardinality(Started) \in Nat
      /\ Cardinality(Nodes) \in Nat /\ Cardinality(Nodes) > 0
  BY Counted, NodesAssumption, LimitsAssumption, FS_EmptySet DEF CountInv
<1>2. ASSUME NEW n \in Nodes, Room(n) PROVE CountInv'
  <2>1. /\ Started' = Started /\ UNCHANGED <<child, el>>
        /\ \A m \in Nodes \ {n} : place'[m] = place[m]
        /\ Starting' \subseteq Nodes
    BY <1>2 DEF Room, Answer, TypeOK, Started, Starting
  <2>2. CASE Cardinality(Started) < MaxChildren
    <3>1. Cardinality(Starting)' <= Cardinality(Nodes) /\ Cardinality(Starting)' \in Nat
      BY <2>1, NodesAssumption, FS_Subset, FS_CardinalityType
    <3>2. Cardinality(Started)' = Cardinality(Started) /\ IsFiniteSet(Started)'
      BY <1>1, <2>1
    <3> QED BY <1>1, <2>2, <3>1, <3>2 DEF CountInv
  <2>3. CASE ~(Cardinality(Started) < MaxChildren)
    <3>1. n \notin Starting'
      BY <1>2, <2>1, <2>3 DEF Room, Answer, TypeOK, Starting
    <3>2. Starting' \subseteq Starting
      BY <2>1, <3>1 DEF Starting
    <3> QED BY <1>1, <2>1, <3>2, CountKept
  <2> QED BY <2>2, <2>3
<1>3. ASSUME NEW n \in Nodes, StartChild(n) PROVE CountInv'
  <2> DEFINE c == <<n, el[n]>>
  <2>1. el[n] \in 1 .. Size[n] /\ c \in Children /\ place[n] = "start"
    BY <1>3, SizeAssumption, ChildOf DEF TypeOK, StartChild
  <2>2. /\ \A m \in Nodes \ {n} : place'[m] = place[m] /\ el'[m] = el[m]
        /\ place'[n] # "start"
    BY <1>3 DEF StartChild, NextElement, Answer, TypeOK
  <2>3. CASE child[c] # "absent"
    <3>1. UNCHANGED child
      BY <1>3, <2>3 DEF StartChild
    <3>2. Started' = Started /\ Starting' \subseteq Starting
      BY <2>2, <3>1 DEF Started, Starting
    <3> QED BY <1>1, <3>2, CountKept
  <2>4. CASE child[c] = "absent"
    <3>1. child' = [child EXCEPT ![c] = "queued"]
      BY <1>3, <2>4 DEF StartChild
    <3>2. Started' = Started \cup {c} /\ c \notin Started
      BY <2>1, <2>4, <3>1 DEF Started, TypeOK
    <3>3. n \in Starting /\ Starting' \subseteq Starting \ {n}
      BY <2>1, <2>2, <2>4, <3>1 DEF Starting, TypeOK
    <3>4. Cardinality(Started)' = Cardinality(Started) + 1 /\ IsFiniteSet(Started)'
      BY <1>1, <3>2, FS_AddElement
    <3>5. /\ IsFiniteSet(Starting \ {n})
          /\ Cardinality(Starting \ {n}) = Cardinality(Starting) - 1
      BY <1>1, <3>3, FS_RemoveElement
    <3>6. Cardinality(Starting)' <= Cardinality(Starting) - 1 /\ Cardinality(Starting)' \in Nat
      BY <3>3, <3>5, FS_Subset, FS_CardinalityType
    <3> QED BY <1>1, <3>4, <3>6 DEF CountInv
  <2> QED BY <2>3, <2>4
<1>4. ASSUME NEW n \in Nodes, Claim(n) \/ Save(n) \/ Expire(n) PROVE CountInv'
  <2>1. Started' = Started /\ Starting' \subseteq Starting
    BY <1>4 DEF Claim, Save, Expire, TypeOK, Started, Starting, work
  <2> QED BY <1>1, <2>1, CountKept
<1>5. ASSUME UNCHANGED work, \A c \in Children : child'[c] = "absent" <=> child[c] = "absent"
      PROVE  CountInv'
  <2>1. Started' = Started
    BY <1>5 DEF Started
  <2>2. \A m \in Nodes : <<m, el[m]>> \in Children
    BY SizeAssumption, ChildOf DEF TypeOK
  <2>3. Starting' \subseteq Starting
    BY <1>5, <2>2 DEF Starting, work
  <2> QED BY <1>1, <2>1, <2>3, CountKept
<1>6. ASSUME NEW c \in Children, ChildMoves(c) PROVE CountInv'
  BY <1>5, <1>6 DEF ChildMoves, TypeOK
<1>7. ASSUME NEW c \in Children, Resume(c) PROVE CountInv'
  BY <1>5, <1>7 DEF Resume
<1>8. ASSUME NEW c \in Children, NEW how \in Ends, ChildEnds(c, how) PROVE CountInv'
  BY <1>5, <1>8 DEF ChildEnds, TypeOK, LiveRun, Ends
<1>9. CASE Advance \/ Cancel \/ StopRead \/ StopNext
  BY <1>5, <1>9 DEF Advance, Cancel, StopRead, StopNext
<1>10. ASSUME NEW c \in Waited, StopOne(c) PROVE CountInv'
  BY <1>5, <1>10 DEF StopOne, Waited, TypeOK, LiveRun
<1>11. CASE Crash
  <2>1. Started' = Started /\ Starting' \subseteq Starting
    BY <1>11 DEF Crash, Started, Starting
  <2> QED BY <1>1, <2>1, CountKept
<1>12. CASE UNCHANGED vars
  BY <1>5, <1>12 DEF vars
<1> QED
  BY <1>2, <1>3, <1>4, <1>6, <1>7, <1>8, <1>9, <1>10, <1>11, <1>12 DEF Next

\* Init has no child.
LEMMA CountInit == Init => CountInv
<1> SUFFICES ASSUME Init PROVE CountInv
  OBVIOUS
<1>1. Started = {} /\ Starting = {}
  BY DEF Init, Started, Starting
<1>2. Cardinality(Nodes) \in Nat /\ Cardinality(Nodes) > 0
  BY NodesAssumption, FS_EmptySet, FS_CardinalityType
<1> QED BY <1>1, <1>2, FS_EmptySet, LimitsAssumption DEF CountInv

-----------------------------------------------------------------------------
(* The theorems *)

LEMMA Invariance == Spec => []Inv
<1>1. Init => Inv
  BY InitInv
<1>2. Inv /\ [Next]_vars => Inv'
  BY StepInv
<1> QED BY <1>1, <1>2, PTL DEF Spec

\* TypeOK: the variables keep their types, and the attempts of a node their bound, whatever
\* is retried, resumed or taken back after a crash (retry.attempts, RunAgain).
THEOREM ChildrenTyped == Spec => []TypeOK
<1>1. Inv => TypeOK
  BY DEF Inv
<1> QED BY <1>1, Invariance, PTL

\* OneAfterAnother: an each that waits starts a child only after those before it are done
\* (StartChild, EndWait, RunAgain).
THEOREM ElementsInOrder == Spec => []OneAfterAnother
<1>1. Inv => OneAfterAnother
  BY DEF Inv, OrderInv
<1> QED BY <1>1, Invariance, PTL

\* OutcomeOfChildren: no call of an end, late or repeated, gives a node another outcome than
\* its children's (endedChild).
THEOREM NodesEndAsTheirChildren == Spec => []OutcomeOfChildren
<1>1. Inv => OutcomeOfChildren
  BY DEF Inv
<1> QED BY <1>1, Invariance, PTL

\* ChildrenStopped: stopChildren leaves no child under way but those started after the end
\* and those that may wait themselves.
THEOREM StoppedParentsStopChildren == Spec => []ChildrenStopped
<1>1. Inv => ChildrenStopped
  BY DEF Inv, TypeOK, StopInv, ChildrenStopped, LiveRun, Over, Waited
<1> QED BY <1>1, Invariance, PTL

\* ChildrenBounded: max_run_children is exceeded by fewer children than there are nodes, for
\* a node counts before it starts and not with it (roomForChild, StartChild).
THEOREM ChildrenAreBounded == Spec => []ChildrenBounded
<1>1. Init => CountInv
  BY CountInit
<1>2. TypeOK /\ CountInv /\ [Next]_vars => CountInv'
  BY CountStep
<1>3. CountInv => ChildrenBounded
  <2> SUFFICES ASSUME CountInv PROVE ChildrenBounded
    OBVIOUS
  <2>1. /\ Cardinality(Starting) \in Nat /\ Cardinality(Started) \in Nat
        /\ Cardinality(Nodes) \in Nat
    BY Counted DEF CountInv
  <2> QED BY <2>1, LimitsAssumption DEF CountInv, ChildrenBounded
<1> QED BY <1>1, <1>2, <1>3, ChildrenTyped, PTL DEF Spec
=============================================================================
