---------------------------- MODULE InFolder_proofs ----------------------------
(***************************************************************************)
(* Proofs about InFolder, for any paths, contents, writes, pipelines and   *)
(* bounds.                                                                 *)
(*                                                                         *)
(* The disk, the rows and the runs have no lock in common.  What ties them *)
(* is the stamp of a write: one file and one row have it at most, and what *)
(* a version was hashed to or told of is looked up by it.                  *)
(***************************************************************************)
EXTENDS InFolder, TLAPS

\* The runs that may be, and what the variables hold, as far as the proofs need it.
RunIds == {NoRun} \cup {InKey(f, c) : f \in Paths, c \in Contents \cup {none}}
             \cup {BatchKey(n) : n \in Nat} \cup {HandRun(n) : n \in Nat}
RowT == [stamp : Nat, sha : Contents \cup {none}, status : ValidStatus, run : RunIds, batch : Nat]
RunT == [state : {"live", "ended", "told", "untold"}, asked : SUBSET Nat]
SumT == [path : Paths, stamp : Nat, sha : Contents \cup {none}]
SinkT == [batch : Nat, start : SUBSET RunIds, mark : RunIds]
MoverT == [at : {"idle", "moved", "removed", "status"}, from : Paths \cup {none}, to : Paths \cup {none},
           run : RunIds, status : ValidStatus]
HandT == [run : RunIds, path : Paths \cup {none}]

Types ==
    /\ clock \in Nat /\ clock <= MaxWrites
    /\ disk \in [Paths -> Nat] /\ seen \in [Paths -> Nat]
    /\ content \in [Stamps -> Contents \cup {none}]
    /\ row \in [Paths -> RowT] /\ open \in Nat /\ batches \in Nat
    /\ DOMAIN runs \subseteq RunIds /\ runs \in [DOMAIN runs -> RunT]
    /\ pc \in [Closers -> {"idle", "walked", "list", "hash", "sink"}]
    /\ sum \in {NoSum} \cup SumT
    /\ sink \in SinkT /\ mover \in MoverT /\ hand \in HandT
    /\ told \in [Stamps -> Nat]

\* Who holds the lock, and what is at work when.
PlaceInv ==
    /\ (lock = "mover") = (mover.at \in {"moved", "removed"})
    /\ \A t \in Closers : (lock = t) = (pc[t] \in {"walked", "sink"})
    /\ mover.at \in {"moved", "removed"} => mover.from \in Paths
    /\ mover.at = "moved" => mover.to \in Paths /\ mover.from # mover.to
    /\ (\A t \in Closers : pc[t] # "sink") => sink.mark = NoRun
    /\ NoRun \notin sink.start
    /\ pc["scan"] # "hash" => todo = {} /\ sum = NoSum

\* A stamp is of one write: one file, one row, one look have it at most.
StampInv ==
    /\ \A f \in Paths : /\ disk[f] <= clock /\ seen[f] <= clock /\ row[f].stamp <= clock
                        /\ row[f].batch <= batches
    /\ \A f, g \in Paths : /\ disk[f] = disk[g] /\ disk[f] # 0 => f = g
                           /\ seen[f] = seen[g] /\ seen[f] # 0 => f = g
                           /\ row[f].stamp = row[g].stamp /\ row[f].stamp # 0 => f = g
    /\ open <= batches
    /\ \A s \in Stamps : told[s] # 0 => s <= clock

\* A hash, kept or about to be, is that of the version.
HashInv ==
    /\ \A f \in Paths : row[f].sha # none =>
          row[f].stamp # 0 /\ (row[f].sha = content[row[f].stamp] \/ row[f].stamp \in back)
    /\ sum # NoSum /\ disk[sum.path] = sum.stamp =>
          sum.sha = content[sum.stamp] \/ sum.stamp \in back

\* The versions the scan has still to hash have no hash, wherever they were moved.
Listed == IF sum = NoSum THEN todo ELSE todo \cup {<<sum.path, sum.stamp>>}
TodoInv ==
    /\ \A p \in Listed : p[1] \in Paths /\ p[2] \in Nat /\ p[2] # 0 /\ p[2] <= clock /\ p = <<p[1], p[2]>>
    /\ \A p, q \in Listed : p[2] = q[2] => p = q
    /\ \A p \in Listed, f \in Paths : row[f].stamp = p[2] => row[f].sha = none
    /\ sum # NoSum => <<sum.path, sum.stamp>> \notin todo

\* A batch that is told has its hashes, and its files are those its runs were asked for.
SinkInv ==
    (\E t \in Closers : pc[t] = "sink") =>
        /\ sink.mark # NoRun => sink.mark \in DOMAIN runs
        /\ \A f \in Paths : row[f].stamp # 0 /\ row[f].batch = sink.batch =>
              /\ row[f].sha # none
              /\ sink.mark # NoRun /\ sink.mark \in {InKey(f, row[f].sha), BatchKey(sink.batch)} =>
                    row[f].stamp \in runs[sink.mark].asked

\* What was written at f since somebody looked: no row knows of it.
Fresh(f) == disk[f] = 0 \/ (told[disk[f]] = 0 /\ \A g \in Paths : row[g].stamp # disk[f] /\ seen[g] # disk[f])

\* The row of the file at f is at Home(f), and nowhere else.
Home(f) == IF mover.at = "moved" /\ mover.to = f THEN mover.from ELSE f
AtHome == \A f, g \in Paths : disk[f] # 0 /\ disk[f] \notin torn /\ row[g].stamp = disk[f] => g = Home(f)

\* A file that was told of has its row.
ToldHome == \A f \in Paths : disk[f] # 0 /\ disk[f] \notin torn /\ told[disk[f]] # 0 => row[Home(f)].stamp = disk[f]

\* Where a file was moved or removed from, and where the disk is not what the walk saw, a file is new.
LeftFresh == mover.at \in {"moved", "removed"} => Fresh(mover.from)
WalkFresh == pc["scan"] = "walked" =>
    \A f \in Paths : /\ disk[f] = seen[f] \/ Fresh(f)
                     /\ seen[f] # 0 /\ seen[f] \notin torn /\ told[seen[f]] # 0 => row[f].stamp = seen[f]

\* What was told of is not in the open batch.
ToldClosed == \A f \in Paths : row[f].stamp # 0 /\ row[f].stamp \notin torn /\ told[row[f].stamp] # 0 =>
    open = 0 \/ row[f].batch # open

ToldInv == AtHome /\ ToldHome /\ LeftFresh /\ WalkFresh /\ ToldClosed

Inv ==
    /\ Types /\ PlaceInv /\ StampInv /\ HashInv /\ TodoInv /\ SinkInv /\ ToldInv
    /\ WorkingForItsRun /\ ToldOnce /\ SettledOnceTold

-----------------------------------------------------------------------------
(* Values *)

LEMMA Numbers ==
    /\ MaxWrites \in Nat /\ Stamps = 1 .. MaxWrites
    /\ none \notin Paths /\ none \notin Contents
    /\ ByHand \subseteq ValidStatus
<1>1. MaxWrites \in Nat
  BY WritesAssumption DEF MaxWrites
<1> QED BY <1>1, NoneAssumption, StatusAssumption DEF Stamps, Contents

LEMMA Keys ==
    /\ NoRun \in RunIds /\ NoRun[1] = ""
    /\ \A f \in Paths, c \in Contents \cup {none} : InKey(f, c) \in RunIds /\ InKey(f, c)[1] = "in"
    /\ \A n \in Nat : BatchKey(n) \in RunIds /\ BatchKey(n)[1] = "inbatch"
    /\ \A n \in Nat : HandRun(n) \in RunIds /\ HandRun(n)[1] = "hand"
<1>1. NoRun[1] = ""
  BY DEF NoRun
<1>2. \A f \in Paths, c \in Contents \cup {none} : InKey(f, c)[1] = "in"
  BY DEF InKey
<1>3. \A n \in Nat : BatchKey(n)[1] = "inbatch" /\ HandRun(n)[1] = "hand"
  BY DEF BatchKey, HandRun
<1>4. NoRun \in RunIds
  BY DEF RunIds
<1>5. \A f \in Paths, c \in Contents \cup {none} : InKey(f, c) \in RunIds
  BY DEF RunIds
<1>6. \A n \in Nat : BatchKey(n) \in RunIds /\ HandRun(n) \in RunIds
  BY DEF RunIds
<1> QED BY <1>1, <1>2, <1>3, <1>4, <1>5, <1>6

LEMMA Nothings ==
    /\ NoRow \in RowT /\ NoRow.stamp = 0 /\ NoRow.sha = none /\ NoRow.status = "new" /\ NoRow.batch = 0
    /\ NoSink \in SinkT /\ NoSink.mark = NoRun /\ NoSink.start = {} /\ NoSink.batch = 0
    /\ NoMove \in MoverT /\ NoMove.at = "idle"
    /\ NoHand \in HandT
    /\ NoSum.path = none
BY Keys DEF NoRow, RowT, NoSink, SinkT, NoMove, MoverT, NoHand, HandT, NoSum, ValidStatus

-----------------------------------------------------------------------------
(* What a step does to the rows *)

\* Statuses and runs apart, the rows stay.
RowsKept ==
    \A f \in Paths : row'[f].stamp = row[f].stamp /\ row'[f].sha = row[f].sha /\ row'[f].batch = row[f].batch

\* SetStatus changes the status and the run of the rows there are.
LEMMA StatusRows ==
    ASSUME Types, NEW fs, NEW status \in ValidStatus, NEW r \in RunIds, row' = WithStatus(fs, status, r)
    PROVE  /\ row' \in [Paths -> RowT] /\ RowsKept
           /\ \A f \in Paths : \/ row'[f] = row[f]
                               \/ /\ f \in fs /\ row[f].stamp # 0 /\ row'[f].status = status
                                  /\ r # NoRun => row'[f].run = r
                                  /\ r = NoRun => row'[f].run = row[f].run
<1> DEFINE W(f) == [row[f] EXCEPT !.status = status, !.run = IF r = NoRun THEN row[f].run ELSE r]
<1>1. ASSUME NEW f \in Paths
      PROVE  /\ W(f) \in RowT /\ W(f).stamp = row[f].stamp /\ W(f).sha = row[f].sha /\ W(f).batch = row[f].batch
             /\ W(f).status = status /\ W(f).run = IF r = NoRun THEN row[f].run ELSE r
  <2>1. row[f] \in RowT
    BY DEF Types
  <2>2. row[f].run \in RunIds
    BY <2>1 DEF RowT
  <2> QED BY <2>1, <2>2 DEF RowT
<1>2. row' = [f \in Paths |-> IF f \notin fs \/ row[f].stamp = 0 THEN row[f] ELSE W(f)]
  BY DEF WithStatus
<1>3. \A f \in Paths : row[f] \in RowT
  BY DEF Types
<1> HIDE DEF W
<1> QED BY <1>1, <1>2, <1>3 DEF RowsKept

\* The end of a run settles its files.
LEMMA EndedRows ==
    ASSUME Types, NEW r, RunEnded(r)
    PROVE  /\ row' \in [Paths -> RowT] /\ RowsKept
           /\ \A f \in Paths : \/ row'[f] = row[f] /\ ~(row[f].run = r /\ row[f].status = "working")
                               \/ row'[f].status = "done" /\ row'[f].run = r
<1> DEFINE D(f) == [row[f] EXCEPT !.status = "done"]
<1>1. \A f \in Paths : row[f] \in RowT
  BY DEF Types
<1>2. \A f \in Paths : /\ D(f) \in RowT /\ D(f).stamp = row[f].stamp /\ D(f).sha = row[f].sha
                       /\ D(f).batch = row[f].batch /\ D(f).status = "done" /\ D(f).run = row[f].run
  BY <1>1 DEF RowT, ValidStatus
<1>3. row' = [f \in Paths |-> IF f \in Settles(r) THEN D(f) ELSE row[f]]
  BY RunEnded(r) DEF RunEnded
<1> HIDE DEF D
<1>4. \A f \in Paths : f \in Settles(r) <=> row[f].run = r /\ row[f].status = "working"
  BY DEF Settles
<1> QED BY <1>1, <1>2, <1>3, <1>4 DEF RowsKept

\* Whoever marks files keeps the rest of their rows.
LEMMA MarkedRows ==
    ASSUME Types, PlaceInv,
           \/ \E t \in Closers : Mark(t)
           \/ MoveStatus \/ MarkByHand
           \/ \E f \in Paths, r \in Acting \cup {NoRun}, status \in ByHand : SetStatus(f, status, r)
    PROVE  row' \in [Paths -> RowT] /\ RowsKept
<1>1. ASSUME NEW t \in Closers, Mark(t) PROVE row' \in [Paths -> RowT] /\ RowsKept
  <2>1. row' = WithStatus(Takes(sink.mark, sink.batch), "working", sink.mark)
    BY <1>1 DEF Mark
  <2>2. sink.mark \in RunIds /\ "working" \in ValidStatus
    BY DEF Types, SinkT, ValidStatus
  <2> QED BY <2>1, <2>2, StatusRows DEF RowsKept
<1>2. ASSUME MoveStatus PROVE row' \in [Paths -> RowT] /\ RowsKept
  <2>1. row' = WithStatus({mover.to}, mover.status, mover.run)
    BY <1>2 DEF MoveStatus, SetAt
  <2>2. mover.run \in RunIds /\ mover.status \in ValidStatus
    BY DEF Types, MoverT
  <2> QED BY <2>1, <2>2, StatusRows DEF RowsKept
<1>3. ASSUME MarkByHand PROVE row' \in [Paths -> RowT] /\ RowsKept
  <2>1. row' = WithStatus({hand.path}, "working", hand.run)
    BY <1>3 DEF MarkByHand, SetAt
  <2>2. hand.run \in RunIds /\ "working" \in ValidStatus
    BY DEF Types, HandT, ValidStatus
  <2> QED BY <2>1, <2>2, StatusRows DEF RowsKept
<1>4. ASSUME NEW f \in Paths, NEW r \in Acting \cup {NoRun}, NEW status \in ByHand, SetStatus(f, status, r)
      PROVE  row' \in [Paths -> RowT] /\ RowsKept
  <2>1. row' = WithStatus({f}, status, r)
    BY <1>4 DEF SetStatus, SetAt
  <2>2. r \in RunIds /\ status \in ValidStatus
    BY Keys, Numbers DEF Types, Acting
  <2> QED BY <2>1, <2>2, StatusRows DEF RowsKept
<1> QED BY <1>1, <1>2, <1>3, <1>4

\* What a person, a node or a start by hand sets working is given to its run, late if the end of that
\* is told.
LEMMA GivenRows ==
    ASSUME Types,
           \/ MoveStatus \/ MarkByHand
           \/ \E f \in Paths, r \in Acting \cup {NoRun}, status \in ByHand : SetStatus(f, status, r)
    PROVE  /\ given \subseteq given' /\ late \subseteq late' /\ runs' = runs
           /\ \A g \in Paths :
                 \/ row'[g] = row[g]
                 \/ row'[g].status = "working" =>
                       /\ <<row'[g].stamp, row'[g].run>> \in given'
                       /\ State(row'[g].run) = "told" => <<row'[g].stamp, row'[g].run>> \in late'
<1>1. ASSUME NEW f, NEW status \in ValidStatus, NEW r \in RunIds, SetAt(f, status, r)
      PROVE  /\ given \subseteq given' /\ late \subseteq late' /\ runs' = runs
             /\ \A g \in Paths :
                   \/ row'[g] = row[g]
                   \/ row'[g].status = "working" =>
                         /\ <<row'[g].stamp, row'[g].run>> \in given'
                         /\ State(row'[g].run) = "told" => <<row'[g].stamp, row'[g].run>> \in late'
  <2> DEFINE set == SetWorking({f}, status, r)
  <2>1. row' = WithStatus({f}, status, r) /\ given' = given \cup set /\ late' = late \cup Late(set) /\ runs' = runs
    BY <1>1 DEF SetAt
  <2>2. ASSUME NEW g \in Paths, row'[g] # row[g], row'[g].status = "working"
        PROVE  <<row'[g].stamp, row'[g].run>> \in set
    <3>1. /\ RowsKept
          /\ g \in {f} /\ row[g].stamp # 0 /\ row'[g].status = status
          /\ (r # NoRun => row'[g].run = r) /\ (r = NoRun => row'[g].run = row[g].run)
      BY ONLY Types, <1>1, <2>1, <2>2, StatusRows
    <3>2. row'[g].stamp = row[g].stamp
      BY <3>1 DEF RowsKept
    <3> QED BY <2>2, <3>1, <3>2 DEF SetWorking
  <2>3. \A x \in set : State(x[2]) = "told" => x \in Late(set)
    BY DEF Late
  <2> HIDE DEF set
  <2>4. \A s, q : <<s, q>>[2] = q
    OBVIOUS
  <2> QED BY <2>1, <2>2, <2>3, <2>4
<1>2. CASE MoveStatus
  <2>1. SetAt(mover.to, mover.status, mover.run) /\ mover.status \in ValidStatus /\ mover.run \in RunIds
    BY <1>2 DEF MoveStatus, Types, MoverT
  <2> QED BY ONLY <1>1, <2>1
<1>3. CASE MarkByHand
  <2>1. SetAt(hand.path, "working", hand.run) /\ "working" \in ValidStatus /\ hand.run \in RunIds
    BY <1>3 DEF MarkByHand, Types, HandT, ValidStatus
  <2> QED BY ONLY <1>1, <2>1
<1>4. ASSUME NEW f \in Paths, NEW r \in Acting \cup {NoRun}, NEW status \in ByHand, SetStatus(f, status, r)
      PROVE  SetAt(f, status, r) /\ status \in ValidStatus /\ r \in RunIds
  BY <1>4, Keys, Numbers DEF SetStatus, Types, Acting
<1> QED BY <1>1, <1>2, <1>3, <1>4

\* A kept hash is all that HashStore writes.
LEMMA HashedRows ==
    ASSUME Types, HashStore
    PROVE  /\ row' \in [Paths -> RowT]
           /\ \A f \in Paths : /\ row'[f].stamp = row[f].stamp /\ row'[f].batch = row[f].batch
                               /\ row'[f].status = row[f].status /\ row'[f].run = row[f].run
                               /\ \/ row'[f].sha = row[f].sha
                                  \/ /\ f = sum.path /\ disk[f] = sum.stamp /\ row[f].stamp = sum.stamp
                                     /\ row'[f].sha = sum.sha
<1>1. sum \in SumT /\ row \in [Paths -> RowT]
  BY HashStore DEF HashStore, Types
<1>2. sum.path \in Paths /\ sum.sha \in Contents \cup {none}
  BY <1>1 DEF SumT
<1>3. row[sum.path] \in RowT
  BY <1>1, <1>2
<1>4. CASE Keeps(sum.path, sum.stamp)
  <2> DEFINE v == [row[sum.path] EXCEPT !.sha = sum.sha]
  <2>1. /\ v \in RowT /\ v.stamp = row[sum.path].stamp /\ v.batch = row[sum.path].batch
        /\ v.status = row[sum.path].status /\ v.run = row[sum.path].run /\ v.sha = sum.sha
    BY <1>2, <1>3 DEF RowT
  <2>2. row' = [row EXCEPT ![sum.path] = v]
    BY <1>4, HashStore DEF HashStore
  <2>3. disk[sum.path] = sum.stamp /\ row[sum.path].stamp = sum.stamp
    BY <1>4 DEF Keeps
  <2> HIDE DEF v
  <2> QED BY <1>1, <1>2, <2>1, <2>2, <2>3
<1>5. CASE ~Keeps(sum.path, sum.stamp)
  BY <1>1, <1>5, HashStore DEF HashStore
<1> QED BY <1>4, <1>5

\* The rows are what the walk saw: a version known keeps its row, the others are new.
LEMMA ReconciledRows ==
    ASSUME Types, StampInv, Reconcile
    PROVE  /\ row' \in [Paths -> RowT] /\ open' \in Nat /\ batches' \in Nat /\ batches <= batches'
           /\ open' = open \/ (open = 0 /\ open' = batches + 1 /\ batches' = open')
           /\ \A f \in Paths : /\ row'[f].stamp = seen[f]
                               /\ \/ seen[f] = row[f].stamp /\ row'[f] = row[f]
                                  \/ /\ seen[f] # row[f].stamp /\ row'[f].sha = none /\ row'[f].status = "new"
                                     /\ row'[f].batch \in {0, open'}
<1> DEFINE Changed == {f \in Paths : seen[f] \notin {0, row[f].stamp}}
           Opens == Changed # {} /\ open = 0
           b == IF Opens THEN batches + 1 ELSE open
           N(f) == [stamp |-> seen[f], sha |-> none, status |-> "new", run |-> NoRun, batch |-> b]
<1>1. row' = [f \in Paths |-> Reconciled(f, seen[f], b)] /\ open' = b
      /\ batches' = IF Opens THEN batches + 1 ELSE batches
  BY Reconcile DEF Reconcile
<1>2. b \in Nat /\ batches' \in Nat /\ batches <= batches'
      /\ (open' = open \/ (open = 0 /\ open' = batches + 1 /\ batches' = open'))
  BY <1>1 DEF Types
<1>3. \A f \in Paths : seen[f] \in Nat /\ row[f] \in RowT
  BY DEF Types
<1>4. \A f \in Paths : /\ N(f) \in RowT /\ N(f).stamp = seen[f] /\ N(f).sha = none
                       /\ N(f).status = "new" /\ N(f).batch = b
  BY <1>2, <1>3, Keys DEF RowT, ValidStatus
<1>5. \A f \in Paths : Reconciled(f, seen[f], b) =
          IF seen[f] = row[f].stamp THEN row[f] ELSE IF seen[f] = 0 THEN NoRow ELSE N(f)
  BY DEF Reconciled
<1> HIDE DEF N, b
<1>6. row' \in [Paths -> RowT]
  BY <1>1, <1>3, <1>4, <1>5, Nothings
<1> QED BY <1>1, <1>2, <1>3, <1>4, <1>5, <1>6, Nothings

\* The row goes with its file.
LEMMA MovedRows ==
    ASSUME Types, PlaceInv, MoveRow
    PROVE  /\ row' \in [Paths -> RowT]
           /\ \/ row' = row /\ row[mover.from].stamp = 0
              \/ /\ row[mover.from].stamp # 0
                 /\ row'[mover.to] = row[mover.from] /\ row'[mover.from] = NoRow
                 /\ \A f \in Paths \ {mover.from, mover.to} : row'[f] = row[f]
<1>1. mover.from \in Paths /\ mover.to \in Paths /\ mover.from # mover.to
  BY MoveRow DEF MoveRow, PlaceInv
<1>2. row' = Moved(mover.from, mover.to)
  BY MoveRow DEF MoveRow
<1> QED BY <1>1, <1>2, Nothings DEF Types, Moved

LEMMA RemovedRows ==
    ASSUME Types, PlaceInv, Removed
    PROVE  /\ row' \in [Paths -> RowT] /\ row'[mover.from] = NoRow /\ mover.from \in Paths
           /\ \A f \in Paths \ {mover.from} : row'[f] = row[f]
<1>1. mover.from \in Paths
  BY Removed DEF Removed, PlaceInv
<1> QED BY <1>1, Removed, Nothings DEF Removed, Types

-----------------------------------------------------------------------------
(* Types *)

\* The runs a batch asks for are runs.
LEMMA AskedAreRuns ==
    ASSUME Types, NEW n \in Nat
    PROVE  Asked(n) \subseteq RunIds /\ NoRun \notin Asked(n)
<1>1. \A f \in Paths : InKey(f, row[f].sha) \in RunIds /\ InKey(f, row[f].sha)[1] = "in"
  BY Keys DEF Types, RowT
<1>2. Files(n) \subseteq Paths
  BY DEF Files
<1>3. NoRun[1] = "" /\ BatchKey(n) \in RunIds /\ BatchKey(n)[1] = "inbatch"
  BY Keys
<1> QED BY <1>1, <1>2, <1>3 DEF Asked

LEMMA VersionsAreStamps ==
    ASSUME Types, NEW r, NEW n
    PROVE  Versions(r, n) \subseteq Nat
<1>1. \A f \in Paths : row[f].stamp \in Nat
  BY DEF Types, RowT
<1> QED BY <1>1 DEF Versions, Takes, Files

\* What each step makes of the runs.
LEMMA RunSteps ==
    ASSUME Types, NEW r
    PROVE  /\ \A t \in Closers : StartRun(t, r) =>
                 /\ DOMAIN runs' = DOMAIN runs \cup {r} /\ r \in RunIds
                 /\ runs' \in [DOMAIN runs' -> RunT]
                 /\ \A q \in DOMAIN runs : runs'[q].state = runs[q].state /\ runs[q].asked \subseteq runs'[q].asked
                 /\ r \notin DOMAIN runs => runs'[r].state = "live"
                 /\ Versions(r, sink.batch) \subseteq runs'[r].asked
           /\ RunEnds(r) \/ RunEnded(r) =>
                 /\ DOMAIN runs' = DOMAIN runs /\ runs' \in [DOMAIN runs' -> RunT]
                 /\ \A q \in DOMAIN runs : /\ runs'[q].asked = runs[q].asked
                                           /\ q # r => runs'[q] = runs[q]
           /\ RunEnds(r) => r \in DOMAIN runs /\ runs'[r].state = "ended"
<1>1. \A q \in DOMAIN runs : runs[q] \in RunT
  BY DEF Types
<1>2. ASSUME NEW t \in Closers, StartRun(t, r)
      PROVE  /\ DOMAIN runs' = DOMAIN runs \cup {r} /\ r \in RunIds
             /\ runs' \in [DOMAIN runs' -> RunT]
             /\ \A q \in DOMAIN runs : runs'[q].state = runs[q].state /\ runs[q].asked \subseteq runs'[q].asked
             /\ r \notin DOMAIN runs => runs'[r].state = "live"
             /\ Versions(r, sink.batch) \subseteq runs'[r].asked
  <2> DEFINE asked == Versions(r, sink.batch)
             more == [runs[r] EXCEPT !.asked = @ \cup asked]
             new == [state |-> "live", asked |-> asked]
  <2>1. runs' = [q \in DOMAIN runs \cup {r} |->
                    IF q # r THEN runs[q] ELSE IF r \in DOMAIN runs THEN more ELSE new]
    BY <1>2 DEF StartRun
  <2>2. asked \subseteq Nat
    BY VersionsAreStamps
  <2>3. new \in RunT /\ new.state = "live" /\ new.asked = asked
    BY <2>2 DEF RunT
  <2>4. r \in DOMAIN runs => more \in RunT /\ more.state = runs[r].state /\ runs[r].asked \subseteq more.asked
                             /\ asked \subseteq more.asked
    BY <1>1, <2>2 DEF RunT
  <2>5. r \in RunIds
    BY <1>2 DEF StartRun, Types, SinkT
  <2> HIDE DEF asked, more, new
  <2>6. DOMAIN runs' = DOMAIN runs \cup {r} /\ runs' \in [DOMAIN runs' -> RunT]
    BY <1>1, <2>1, <2>3, <2>4
  <2>7. \A q \in DOMAIN runs : runs'[q].state = runs[q].state /\ runs[q].asked \subseteq runs'[q].asked
    BY <2>1, <2>4
  <2>8. (r \notin DOMAIN runs => runs'[r].state = "live") /\ asked \subseteq runs'[r].asked
    BY <2>1, <2>3, <2>4
  <2> QED BY <2>5, <2>6, <2>7, <2>8 DEF asked
<1>3. ASSUME RunEnds(r) \/ RunEnded(r)
      PROVE  /\ DOMAIN runs' = DOMAIN runs /\ runs' \in [DOMAIN runs' -> RunT]
             /\ \A q \in DOMAIN runs : runs'[q].asked = runs[q].asked /\ (q # r => runs'[q] = runs[q])
             /\ RunEnds(r) => r \in DOMAIN runs /\ runs'[r].state = "ended"
  <2>1. r \in DOMAIN runs
    BY <1>3 DEF RunEnds, RunEnded, Live, State
  <2>2. PICK st \in {"ended", "told"} :
            /\ runs' = [runs EXCEPT ![r] = [runs[r] EXCEPT !.state = st]]
            /\ RunEnds(r) => st = "ended"
    <3>1. CASE RunEnds(r)
      BY <3>1 DEF RunEnds
    <3>2. CASE ~RunEnds(r)
      BY <1>3, <3>2 DEF RunEnded
    <3> QED BY <3>1, <3>2
  <2> DEFINE v == [runs[r] EXCEPT !.state = st]
  <2>3. v \in RunT /\ v.asked = runs[r].asked /\ v.state = st
    BY <1>1, <2>1 DEF RunT
  <2>4. runs \in [DOMAIN runs -> RunT]
    BY DEF Types
  <2> HIDE DEF v
  <2>5. runs' = [runs EXCEPT ![r] = v]
    BY <2>2 DEF v
  <2> QED BY <2>1, <2>2, <2>3, <2>4, <2>5
<1> QED BY <1>2, <1>3

\* A run started by hand is new.
LEMMA HandStarts ==
    ASSUME Types, NEW f \in Paths, NEW leave \in BOOLEAN, StartByHand(f, leave)
    PROVE  /\ hand' \in HandT
           /\ runs' \in [DOMAIN runs' -> RunT] /\ DOMAIN runs' \subseteq RunIds /\ DOMAIN runs \subseteq DOMAIN runs'
           /\ \A q \in DOMAIN runs : runs'[q] = runs[q]
           /\ \A q \in DOMAIN runs' \ DOMAIN runs : runs'[q].state = "live"
<1>1. PICK n \in 1 .. MaxDeeds :
          /\ HandRun(n) \notin DOMAIN runs
          /\ runs' = [q \in DOMAIN runs \cup {HandRun(n)} |->
                         IF q \in DOMAIN runs THEN runs[q] ELSE [state |-> "live", asked |-> {}]]
          /\ hand' = IF leave THEN NoHand ELSE [run |-> HandRun(n), path |-> f]
  BY StartByHand(f, leave) DEF StartByHand
<1>2. n \in Nat
  BY <1>1, BoundsAssumption
<1>3. HandRun(n) \in RunIds
  BY <1>2, Keys
<1> DEFINE new == [state |-> "live", asked |-> {}]
<1>4. new \in RunT /\ new.state = "live"
  BY DEF RunT
<1>5. \A q \in DOMAIN runs : runs[q] \in RunT
  BY DEF Types
<1>6. runs' = [q \in DOMAIN runs \cup {HandRun(n)} |-> IF q \in DOMAIN runs THEN runs[q] ELSE new]
  BY <1>1
<1> HIDE DEF new
<1>7. DOMAIN runs' = DOMAIN runs \cup {HandRun(n)}
  BY <1>6
<1>8. DOMAIN runs' \subseteq RunIds
  BY <1>3, <1>7 DEF Types
<1>9. hand' \in HandT
  <2>1. CASE leave
    BY <1>1, <2>1, Nothings
  <2>2. CASE ~leave
    BY <1>1, <1>3, <2>2 DEF HandT
  <2> QED BY <2>1, <2>2
<1> QED BY <1>3, <1>4, <1>5, <1>6, <1>7, <1>8, <1>9

\* The end of what was not told is not told any more.
LEMMA CrashedRuns ==
    ASSUME Types, Crash
    PROVE  /\ runs' \in [DOMAIN runs' -> RunT] /\ DOMAIN runs' = DOMAIN runs
           /\ \A q \in DOMAIN runs : runs'[q].asked = runs[q].asked
                                     /\ (runs'[q].state = "told" => runs[q].state = "told")
<1> DEFINE U(r) == [runs[r] EXCEPT !.state = "untold"]
<1>1. \A r \in DOMAIN runs : runs[r] \in RunT
  BY DEF Types
<1>2. \A r \in DOMAIN runs : U(r) \in RunT /\ U(r).asked = runs[r].asked /\ U(r).state = "untold"
  BY <1>1 DEF RunT
<1>3. runs' = [r \in DOMAIN runs |-> IF runs[r].state = "ended" THEN U(r) ELSE runs[r]]
  BY Crash DEF Crash
<1> HIDE DEF U
<1> QED BY <1>1, <1>2, <1>3

\* Every step keeps the types.
LEMMA TypesStep ==
    ASSUME Inv, [Next]_vars
    PROVE  Types'
<1> USE DEF Inv, outside, rows, work, counts, history
<1>1. ASSUME NEW f \in Paths, NEW c \in Contents \cup {none}, Write(f, c) PROVE Types'
  <2>1. clock + 1 \in Stamps /\ clock' = clock + 1 /\ clock' <= MaxWrites
    BY <1>1, Numbers DEF Write, Types
  <2>2. disk' \in [Paths -> Nat] /\ content' \in [Stamps -> Contents \cup {none}]
    BY <1>1, <2>1 DEF Write, Types
  <2> QED BY <1>1, <2>1, <2>2 DEF Write, Types
<1>2. ASSUME NEW f \in Paths, Delete(f) PROVE Types'
  BY <1>2 DEF Delete, Types
<1>3. ASSUME NEW f \in Paths, RemoveFile(f) PROVE Types'
  <2>1. mover' = [NoMove EXCEPT !.at = "removed", !.from = f] /\ NoMove \in MoverT
    BY <1>3, Nothings DEF RemoveFile
  <2>2. mover' \in MoverT
    BY <2>1 DEF MoverT
  <2> QED BY <1>3, <2>2 DEF RemoveFile, Types
<1>4. ASSUME NEW f \in Paths, NEW leave \in BOOLEAN, StartByHand(f, leave) PROVE Types'
  BY <1>4, HandStarts DEF StartByHand, Types
<1>5. ASSUME Walk PROVE Types'
  BY <1>5 DEF Walk, Types
<1>6. ASSUME Reconcile PROVE Types'
  <2>1. seen' \in [Paths -> Nat] /\ pc' \in [Closers -> {"idle", "walked", "list", "hash", "sink"}]
    BY <1>6 DEF Reconcile, Types
  <2> QED BY <1>6, <2>1, ReconciledRows DEF Reconcile, Types
<1>7. ASSUME HashList \/ NotYet PROVE Types'
  BY <1>7 DEF HashList, NotYet, Types
<1>8. ASSUME NEW x \in todo, HashRead(x[1], x[2]) PROVE Types'
  <2>1. x \in Listed
    BY DEF Listed
  <2>2. x[1] \in Paths /\ x[2] \in Nat
    BY <2>1 DEF TodoInv
  <2>3. disk[x[1]] # 0 => disk[x[1]] \in Stamps
    BY <2>2, Numbers DEF Types, StampInv
  <2>4. sum' \in {NoSum} \cup SumT
    BY <1>8, <2>2, <2>3 DEF HashRead, SumT, Types
  <2> QED BY <1>8, <2>4 DEF HashRead, Types
<1>9. ASSUME HashStore PROVE Types'
  BY <1>9, HashedRows DEF HashStore, Types
<1>10. ASSUME MoveRow PROVE Types'
  <2>1. mover' \in MoverT
    BY <1>10, Nothings DEF MoveRow, MoverT, Types
  <2> QED BY <1>10, <2>1, MovedRows DEF MoveRow, Types
<1>11. ASSUME MoveStatus PROVE Types'
  BY <1>11, MarkedRows, Nothings DEF MoveStatus, SetAt, Types
<1>12. ASSUME Removed PROVE Types'
  BY <1>12, RemovedRows, Nothings DEF Removed, Types
<1>13. ASSUME MarkByHand PROVE Types'
  BY <1>13, MarkedRows, Nothings DEF MarkByHand, SetAt, Types
<1>14. ASSUME Crash PROVE Types'
  <2>1. seen' \in [Paths -> Nat] /\ pc' \in [Closers -> {"idle", "walked", "list", "hash", "sink"}]
    BY <1>14 DEF Crash
  <2> QED BY <1>14, <2>1, CrashedRuns, Nothings DEF Crash, Types
<1>15. ASSUME NEW t \in Closers, Close(t) PROVE Types'
  <2>1. open' = 0 /\ UNCHANGED <<outside, row, batches, runs, work, mover, hand>>
    BY <1>15 DEF Close
  <2>2. pc' \in [Closers -> {"idle", "walked", "list", "hash", "sink"}]
    BY <1>15 DEF Close, Types
  <2>3. sink' \in SinkT
    <3>1. Asked(open) \subseteq RunIds
      BY AskedAreRuns DEF Types
    <3>2. CASE Files(open) = {}
      BY <1>15, <3>2 DEF Close, Types
    <3>3. CASE Files(open) # {}
      <4>1. sink' = [batch |-> open, start |-> Asked(open), mark |-> NoRun] /\ open \in Nat
        BY <1>15, <3>3 DEF Close, Types
      <4> QED BY <3>1, <4>1, Keys DEF SinkT
    <3> QED BY <3>2, <3>3
  <2>4. told' \in [Stamps -> Nat]
    <3>1. \A s \in Stamps : told[s] \in Nat
      BY DEF Types
    <3> QED BY <1>15, <3>1 DEF Close, Types
  <2> QED BY <2>1, <2>2, <2>3, <2>4 DEF Types
<1>16. ASSUME NEW t \in Closers, Mark(t) PROVE Types'
  <2>1. sink' \in SinkT
    BY <1>16, Keys DEF Mark, Types, SinkT
  <2> QED BY <1>16, <2>1, MarkedRows DEF Mark, Types
<1>17. ASSUME NEW t \in Closers, SinkDone(t) PROVE Types'
  BY <1>17, Nothings DEF SinkDone, Types
<1>18. ASSUME NEW t \in Closers, NEW r \in sink.start, StartRun(t, r) PROVE Types'
  <2>1. r \in RunIds
    BY DEF Types, SinkT
  <2>2. sink' \in SinkT
    BY <1>18, <2>1, Keys DEF StartRun, Types, SinkT
  <2>3. DOMAIN runs' = DOMAIN runs \cup {r} /\ runs' \in [DOMAIN runs' -> RunT]
    BY <1>18, RunSteps
  <2> QED BY <1>18, <2>1, <2>2, <2>3 DEF StartRun, Types
<1>19. ASSUME NEW t \in Closers, NEW r \in sink.start, StartFails(t, r) PROVE Types'
  <2>1. sink' \in SinkT
    BY <1>19 DEF StartFails, Types, SinkT
  <2> QED BY <1>19, <2>1 DEF StartFails, Types
<1>20. ASSUME NEW r \in DOMAIN runs, RunEnds(r) PROVE Types'
  <2>1. DOMAIN runs' = DOMAIN runs /\ runs' \in [DOMAIN runs' -> RunT]
    BY <1>20, RunSteps
  <2> QED BY <1>20, <2>1 DEF RunEnds, Types
<1>21. ASSUME NEW r \in DOMAIN runs, RunEnded(r) PROVE Types'
  <2>1. DOMAIN runs' = DOMAIN runs /\ runs' \in [DOMAIN runs' -> RunT]
    BY <1>21, RunSteps
  <2> QED BY <1>21, <2>1, EndedRows DEF RunEnded, Types
<1>22. ASSUME NEW f \in Paths, NEW g \in Paths, NEW r \in Acting \cup {NoRun}, NEW status \in ByHand,
              MoveFile(f, g, r, status)
       PROVE  Types'
  <2>1. r \in RunIds /\ status \in ValidStatus
    BY Keys, Numbers DEF Types, Acting
  <2>2. mover' \in MoverT
    BY <1>22, <2>1 DEF MoveFile, MoverT
  <2>3. disk' \in [Paths -> Nat]
    BY <1>22 DEF MoveFile, Types
  <2> QED BY <1>22, <2>2, <2>3 DEF MoveFile, Types
<1>23. ASSUME NEW f \in Paths, NEW r \in Acting \cup {NoRun}, NEW status \in ByHand, SetStatus(f, status, r)
       PROVE  Types'
  BY <1>23, MarkedRows DEF SetStatus, SetAt, Types
<1>24. ASSUME UNCHANGED vars PROVE Types'
  BY <1>24 DEF vars, Types
<1> QED BY <1>1, <1>2, <1>3, <1>4, <1>5, <1>6, <1>7, <1>8, <1>9, <1>10, <1>11, <1>12, <1>13, <1>14, <1>15, <1>16,
           <1>17, <1>18, <1>19, <1>20, <1>21, <1>22, <1>23, <1>24
        DEF Next, Scanning, Moving, Closing

\* The lock is held by one, who is where he needs it.
LEMMA PlaceStep ==
    ASSUME Inv, [Next]_vars
    PROVE  PlaceInv'
<1> USE DEF Inv, outside, rows, work, counts, history
<1>1. ASSUME NEW f \in Paths, (\E c \in Contents \cup {none} : Write(f, c)) \/ Delete(f) PROVE PlaceInv'
  BY <1>1 DEF Write, Delete, PlaceInv
<1>2. ASSUME NEW f \in Paths, RemoveFile(f) PROVE PlaceInv'
  <2>1. mover'.at = "removed" /\ mover'.from = f /\ lock' = "mover" /\ lock = "free"
    BY <1>2 DEF RemoveFile, NoMove
  <2> QED BY <1>2, <2>1 DEF RemoveFile, PlaceInv, Closers
<1>3. ASSUME NEW f \in Paths, NEW leave \in BOOLEAN, StartByHand(f, leave) PROVE PlaceInv'
  BY <1>3 DEF StartByHand, PlaceInv
<1>4. ASSUME Walk PROVE PlaceInv'
  BY <1>4 DEF Walk, PlaceInv, Closers, Types
<1>5. ASSUME Reconcile PROVE PlaceInv'
  BY <1>5 DEF Reconcile, PlaceInv, Closers, Types
<1>6. ASSUME HashList \/ NotYet PROVE PlaceInv'
  BY <1>6 DEF HashList, NotYet, AtClose, PlaceInv, Closers, Types
<1>7. ASSUME (\E x \in todo : HashRead(x[1], x[2])) \/ HashStore PROVE PlaceInv'
  BY <1>7 DEF HashRead, HashStore, PlaceInv
<1>8. ASSUME MoveRow PROVE PlaceInv'
  <2>1. mover'.at \in {"idle", "status"}
    BY <1>8, Nothings DEF MoveRow, Types, MoverT
  <2> QED BY <1>8, <2>1 DEF MoveRow, PlaceInv, Closers
<1>9. ASSUME MoveStatus PROVE PlaceInv'
  BY <1>9, Nothings DEF MoveStatus, SetAt, PlaceInv
<1>10. ASSUME Removed PROVE PlaceInv'
  BY <1>10, Nothings DEF Removed, PlaceInv, Closers
<1>11. ASSUME MarkByHand PROVE PlaceInv'
  BY <1>11 DEF MarkByHand, SetAt, PlaceInv
<1>12. ASSUME Crash PROVE PlaceInv'
  BY <1>12, Nothings DEF Crash, PlaceInv, Closers
<1>13. ASSUME NEW t \in Closers, Close(t) PROVE PlaceInv'
  <2>1. CASE Files(open) = {}
    BY <1>13, <2>1 DEF Close, AtClose, PlaceInv, Closers, Types
  <2>2. CASE Files(open) # {}
    <3>1. NoRun \notin sink'.start /\ sink'.mark = NoRun
      BY <1>13, <2>2, AskedAreRuns DEF Close, Types
    <3> QED BY <1>13, <2>2, <3>1 DEF Close, AtClose, PlaceInv, Closers, Types
  <2> QED BY <2>1, <2>2
<1>14. ASSUME NEW t \in Closers, Mark(t) PROVE PlaceInv'
  <2>1. sink'.mark = NoRun /\ sink'.start = sink.start
    BY <1>14 DEF Mark, Types, SinkT
  <2> QED BY <1>14, <2>1 DEF Mark, PlaceInv
<1>15. ASSUME NEW t \in Closers, SinkDone(t) PROVE PlaceInv'
  BY <1>15, Nothings DEF SinkDone, PlaceInv, Closers, Types
<1>16. ASSUME NEW t \in Closers, NEW r \in sink.start, StartRun(t, r) \/ StartFails(t, r) PROVE PlaceInv'
  <2>1. sink'.start \subseteq sink.start /\ pc[t] = "sink"
    <3>1. sink \in SinkT /\ pc[t] = "sink"
      BY <1>16 DEF StartRun, StartFails, Types
    <3>2. PICK m : sink' = [sink EXCEPT !.start = @ \ {r}, !.mark = m] \/ sink' = [sink EXCEPT !.start = @ \ {r}]
      BY <1>16 DEF StartRun, StartFails
    <3> QED BY <3>1, <3>2 DEF SinkT
  <2> QED BY <1>16, <2>1 DEF StartRun, StartFails, PlaceInv
<1>17. ASSUME NEW r \in DOMAIN runs, RunEnds(r) \/ RunEnded(r) PROVE PlaceInv'
  BY <1>17 DEF RunEnds, RunEnded, PlaceInv
<1>18. ASSUME NEW f \in Paths, NEW g \in Paths, NEW r \in Acting \cup {NoRun}, NEW status \in ByHand,
              MoveFile(f, g, r, status)
       PROVE  PlaceInv'
  <2>1. mover'.at = "moved" /\ mover'.from = f /\ mover'.to = g /\ f # g
        /\ lock' = "mover" /\ lock = "free"
    BY <1>18 DEF MoveFile
  <2> QED BY <1>18, <2>1 DEF MoveFile, PlaceInv, Closers
<1>19. ASSUME NEW f \in Paths, NEW r \in Acting \cup {NoRun}, NEW status \in ByHand, SetStatus(f, status, r)
       PROVE  PlaceInv'
  BY <1>19 DEF SetStatus, SetAt, PlaceInv
<1>20. ASSUME UNCHANGED vars PROVE PlaceInv'
  BY <1>20 DEF vars, PlaceInv
<1> QED BY <1>1, <1>2, <1>3, <1>4, <1>5, <1>6, <1>7, <1>8, <1>9, <1>10, <1>11, <1>12, <1>13, <1>14, <1>15, <1>16,
           <1>17, <1>18, <1>19, <1>20
        DEF Next, Scanning, Moving, Closing

LEMMA Fields ==
    ASSUME Types
    PROVE  /\ \A f \in Paths : /\ row[f] \in RowT /\ row[f].stamp \in Nat /\ row[f].batch \in Nat
                               /\ row[f].sha \in Contents \cup {none}
                               /\ disk[f] \in Nat /\ seen[f] \in Nat
           /\ clock \in Nat /\ open \in Nat /\ batches \in Nat
           /\ \A s \in Stamps : s \in Nat /\ told[s] \in Nat
           /\ sum = NoSum \/ (sum.path \in Paths /\ sum.stamp \in Nat /\ sum.sha \in Contents \cup {none})
BY Numbers DEF Types, RowT, SumT

-----------------------------------------------------------------------------
(* Stamps, hashes and what is told *)

\* What leaves the disk, the rows and the walk alone leaves their stamps alone.
LEMMA SameStamps ==
    ASSUME StampInv, RowsKept, UNCHANGED <<disk, seen, clock, open, batches, told>>
    PROVE  StampInv'
BY DEF StampInv, RowsKept

\* A write has a stamp of its own, which goes where its file goes.
LEMMA StampStep ==
    ASSUME Inv, [Next]_vars
    PROVE  StampInv'
<1> USE DEF Inv, outside, rows, work, counts, history
<1>1. ASSUME NEW f \in Paths, NEW c \in Contents \cup {none}, Write(f, c) PROVE StampInv'
  <2>1. clock' = clock + 1 /\ (\A g \in Paths : disk'[g] = IF g = f THEN clock + 1 ELSE disk[g])
        /\ UNCHANGED <<row, open, batches, seen, told>>
    BY <1>1 DEF Write, Types
  <2> QED BY <2>1, Fields DEF StampInv
<1>2. ASSUME NEW f \in Paths, Delete(f) \/ RemoveFile(f) PROVE StampInv'
  <2>1. (\A g \in Paths : disk'[g] = IF g = f THEN 0 ELSE disk[g])
        /\ UNCHANGED <<row, open, batches, seen, told, clock>>
    BY <1>2 DEF Delete, RemoveFile, Types
  <2> QED BY <2>1, Fields DEF StampInv
<1>3. ASSUME NEW f \in Paths, NEW g \in Paths, NEW r \in Acting \cup {NoRun}, NEW status \in ByHand,
             MoveFile(f, g, r, status)
      PROVE  StampInv'
  <2>1. (\A h \in Paths : disk'[h] = IF h = g THEN disk[f] ELSE IF h = f THEN 0 ELSE disk[h]) /\ f # g
        /\ UNCHANGED <<row, open, batches, seen, told, clock>>
    BY <1>3 DEF MoveFile, Types
  <2> QED BY <2>1, Fields DEF StampInv
<1>4. ASSUME Walk PROVE StampInv'
  BY <1>4 DEF Walk, StampInv
<1>5. ASSUME Reconcile PROVE StampInv'
  <2>1. seen' = [f \in Paths |-> 0] /\ UNCHANGED <<disk, clock, told>>
    BY <1>5 DEF Reconcile
  <2>2. \A f \in Paths : row'[f].stamp = seen[f] /\ row'[f].batch <= batches'
    <3>1. open' <= batches' /\ batches <= batches'
      BY <1>5, ReconciledRows, Fields DEF StampInv
    <3>2. \A f \in Paths : row'[f].batch \in {0, open', row[f].batch}
      BY <1>5, ReconciledRows
    <3> QED BY <1>5, <3>1, <3>2, ReconciledRows, Fields DEF StampInv
  <2>3. open' <= batches'
    BY <1>5, ReconciledRows, Fields DEF StampInv
  <2> QED BY <2>1, <2>2, <2>3, Fields DEF StampInv
<1>6. ASSUME MoveRow PROVE StampInv'
  <2>1. UNCHANGED <<disk, seen, clock, open, batches, told>>
    BY <1>6 DEF MoveRow
  <2>2. mover.from \in Paths /\ mover.to \in Paths /\ mover.from # mover.to
    BY <1>6 DEF MoveRow, PlaceInv
  <2> QED BY <1>6, <2>1, <2>2, MovedRows, Fields, Nothings DEF StampInv
<1>7. ASSUME Removed PROVE StampInv'
  <2>1. UNCHANGED <<disk, seen, clock, open, batches, told>>
    BY <1>7 DEF Removed
  <2> QED BY <1>7, <2>1, RemovedRows, Fields, Nothings DEF StampInv
<1>8. ASSUME NEW t \in Closers, Close(t) PROVE StampInv'
  <2>1. UNCHANGED <<disk, seen, clock, row, batches>> /\ open' = 0
    BY <1>8 DEF Close
  <2>2. ASSUME NEW s \in Stamps, told'[s] # 0 PROVE s <= clock
    <3>1. CASE told'[s] = told[s]
      BY <2>2, <3>1 DEF StampInv
    <3>2. CASE told'[s] # told[s]
      <4>1. PICK f \in Files(open) : row[f].stamp = s
        BY <1>8, <3>2 DEF Close
      <4> QED BY <4>1 DEF Files, StampInv
    <3> QED BY <3>1, <3>2
  <2> QED BY <2>1, <2>2, Fields DEF StampInv
<1>9. ASSUME Crash PROVE StampInv'
  BY <1>9, Fields DEF Crash, StampInv
<1>10. ASSUME HashStore PROVE StampInv'
  BY <1>10, HashedRows DEF HashStore, StampInv
<1>11. ASSUME \/ \E t \in Closers : Mark(t)
              \/ MoveStatus \/ MarkByHand
              \/ \E f \in Paths, r \in Acting \cup {NoRun}, status \in ByHand : SetStatus(f, status, r)
       PROVE  StampInv'
  <2>1. UNCHANGED <<disk, seen, clock, open, batches, told>>
    BY <1>11 DEF Mark, MoveStatus, MarkByHand, SetStatus, SetAt
  <2> QED BY <1>11, <2>1, MarkedRows, SameStamps
<1>12. ASSUME NEW r \in DOMAIN runs, RunEnded(r) PROVE StampInv'
  BY <1>12, EndedRows, SameStamps DEF RunEnded
<1>13. ASSUME UNCHANGED <<disk, seen, clock, open, batches, told, row>> PROVE StampInv'
  BY <1>13, SameStamps DEF RowsKept
<1>14. ASSUME \/ \E f \in Paths, leave \in BOOLEAN : StartByHand(f, leave)
              \/ HashList \/ NotYet
              \/ \E x \in todo : HashRead(x[1], x[2])
              \/ \E t \in Closers : SinkDone(t) \/ \E r \in sink.start : StartRun(t, r) \/ StartFails(t, r)
              \/ \E r \in DOMAIN runs : RunEnds(r)
              \/ UNCHANGED vars
       PROVE  StampInv'
  <2>1. UNCHANGED <<disk, seen, clock, open, batches, told, row>>
    BY <1>14 DEF StartByHand, HashList, NotYet, HashRead, SinkDone, StartRun, StartFails, RunEnds, vars
  <2> QED BY <1>13, <2>1
<1> QED BY <1>1, <1>2, <1>3, <1>4, <1>5, <1>6, <1>7, <1>8, <1>9, <1>10, <1>11, <1>12, <1>14
        DEF Next, Scanning, Moving, Closing

\* A hash is stored for the version it was read of.
LEMMA HashStep ==
    ASSUME Inv, [Next]_vars
    PROVE  HashInv'
<1> USE DEF Inv, outside, rows, work, counts, history
<1>0. ASSUME UNCHANGED <<disk, content, back, sum>>,
             \A f \in Paths : \/ row'[f].stamp = 0 /\ row'[f].sha = none
                              \/ row'[f].sha = none
                              \/ \E g \in Paths : row'[f].stamp = row[g].stamp /\ row'[f].sha = row[g].sha
      PROVE  HashInv'
  BY <1>0 DEF HashInv
<1>1. ASSUME NEW f \in Paths, NEW c \in Contents \cup {none}, Write(f, c) PROVE HashInv'
  <2>1. \A g \in Paths : disk'[g] = IF g = f THEN clock + 1 ELSE disk[g]
    BY <1>1 DEF Write, Types
  <2>2. \A s \in Stamps : s <= clock => content'[s] = content[s]
    BY <1>1, Fields DEF Write, Types
  <2>3. UNCHANGED <<row, sum, back>>
    BY <1>1 DEF Write
  <2>4. \A g \in Paths : row[g].stamp # 0 => row[g].stamp \in Stamps /\ row[g].stamp <= clock
    BY Fields, Numbers DEF StampInv, Types
  <2>5. sum # NoSum => sum.stamp \in Stamps /\ sum.stamp <= clock
    <3>1. sum # NoSum => <<sum.path, sum.stamp>> \in Listed
      BY DEF Listed
    <3>2. sum # NoSum => sum.stamp \in Nat /\ sum.stamp # 0 /\ sum.stamp <= clock
      BY <3>1 DEF TodoInv
    <3> QED BY <3>2, Numbers, Fields DEF Types
  <2>6. sum # NoSum /\ disk'[sum.path] = sum.stamp => disk[sum.path] = sum.stamp
    BY <2>1, <2>5, Fields
  <2> QED BY <2>2, <2>3, <2>4, <2>5, <2>6 DEF HashInv
<1>2. ASSUME NEW f \in Paths, Delete(f) \/ RemoveFile(f) PROVE HashInv'
  <2>1. (\A g \in Paths : disk'[g] = IF g = f THEN 0 ELSE disk[g]) /\ UNCHANGED <<row, content, sum, back>>
    BY <1>2 DEF Delete, RemoveFile, Types
  <2>2. sum # NoSum => <<sum.path, sum.stamp>> \in Listed
    BY DEF Listed
  <2>3. sum # NoSum => sum.stamp # 0
    BY <2>2 DEF TodoInv
  <2> QED BY <2>1, <2>3, Fields DEF HashInv
<1>3. ASSUME NEW f \in Paths, NEW g \in Paths, NEW r \in Acting \cup {NoRun}, NEW status \in ByHand,
             MoveFile(f, g, r, status)
      PROVE  HashInv'
  <2>1. (\A h \in Paths : disk'[h] = IF h = g THEN disk[f] ELSE IF h = f THEN 0 ELSE disk[h]) /\ f # g
    BY <1>3 DEF MoveFile, Types
  <2>2. UNCHANGED <<row, content, sum>> /\ back \subseteq back'
        /\ (sum.path = g /\ sum.stamp = disk[f] => disk[f] \in back')
    BY <1>3 DEF MoveFile
  <2>3. sum # NoSum => <<sum.path, sum.stamp>> \in Listed
    BY DEF Listed
  <2>4. sum # NoSum => sum.stamp # 0
    BY <2>3 DEF TodoInv
  <2> QED BY <2>1, <2>2, <2>4, Fields DEF HashInv
<1>4. ASSUME Reconcile PROVE HashInv'
  <2>1. UNCHANGED <<disk, content, back, sum>>
    BY <1>4 DEF Reconcile
  <2> QED BY <1>0, <1>4, <2>1, ReconciledRows
<1>5. ASSUME MoveRow PROVE HashInv'
  <2>1. UNCHANGED <<disk, content, back, sum>> /\ mover.from \in Paths /\ mover.to \in Paths
    BY <1>5 DEF MoveRow, PlaceInv
  <2> QED BY <1>0, <1>5, <2>1, MovedRows, Nothings
<1>6. ASSUME Removed PROVE HashInv'
  <2>1. UNCHANGED <<disk, content, back, sum>>
    BY <1>6 DEF Removed
  <2> QED BY <1>0, <1>6, <2>1, RemovedRows, Nothings
<1>7. ASSUME HashStore PROVE HashInv'
  <2>1. sum' = NoSum /\ sum # NoSum /\ UNCHANGED <<disk, content, back>>
    BY <1>7 DEF HashStore
  <2>2. <<sum.path, sum.stamp>> \in Listed
    BY <2>1 DEF Listed
  <2>3. sum.stamp # 0
    BY <2>2 DEF TodoInv
  <2> QED BY <1>7, <2>1, <2>3, HashedRows DEF HashInv
<1>8. ASSUME NEW x \in todo, HashRead(x[1], x[2]) PROVE HashInv'
  <2>1. UNCHANGED <<disk, content, back, row>>
    BY <1>8 DEF HashRead
  <2>2. sum' # NoSum => sum'.stamp = x[2] /\ sum'.path = x[1] /\ sum'.sha = content[disk[x[1]]]
    BY <1>8 DEF HashRead
  <2> QED BY <2>1, <2>2 DEF HashInv
<1>9. ASSUME Crash PROVE HashInv'
  BY <1>9 DEF Crash, HashInv
<1>10. ASSUME \/ \E t \in Closers : Mark(t)
              \/ MoveStatus \/ MarkByHand
              \/ \E f \in Paths, r \in Acting \cup {NoRun}, status \in ByHand : SetStatus(f, status, r)
       PROVE  HashInv'
  <2>1. UNCHANGED <<disk, content, back, sum>>
    BY <1>10 DEF Mark, MoveStatus, MarkByHand, SetStatus, SetAt
  <2> QED BY <1>0, <1>10, <2>1, MarkedRows DEF RowsKept
<1>11. ASSUME NEW r \in DOMAIN runs, RunEnded(r) PROVE HashInv'
  <2>1. UNCHANGED <<disk, content, back, sum>>
    BY <1>11 DEF RunEnded
  <2> QED BY <1>0, <1>11, <2>1, EndedRows DEF RowsKept
<1>12. ASSUME \/ \E f \in Paths, leave \in BOOLEAN : StartByHand(f, leave)
              \/ Walk \/ HashList \/ NotYet
              \/ \E t \in Closers : \/ Close(t) \/ SinkDone(t)
                                    \/ \E r \in sink.start : StartRun(t, r) \/ StartFails(t, r)
              \/ \E r \in DOMAIN runs : RunEnds(r)
              \/ UNCHANGED vars
       PROVE  HashInv'
  <2>1. UNCHANGED <<disk, content, back, sum, row>>
    BY <1>12 DEF StartByHand, Walk, HashList, NotYet, Close, SinkDone, StartRun, StartFails, RunEnds, vars
  <2> QED BY <1>0, <2>1
<1> QED BY <1>1, <1>2, <1>3, <1>4, <1>5, <1>6, <1>7, <1>8, <1>9, <1>10, <1>11, <1>12
        DEF Next, Scanning, Moving, Closing

\* The scan hashes what has no hash, and each version once.
LEMMA TodoStep ==
    ASSUME Inv, [Next]_vars
    PROVE  TodoInv'
<1> USE DEF Inv, outside, rows, work, counts, history
<1>1. ASSUME Listed' \subseteq Listed, clock <= clock', clock' \in Nat,
             (sum' # NoSum => <<sum'.path, sum'.stamp>> \notin todo'),
             \A f \in Paths : row'[f].sha = none \/ row'[f].stamp = 0 \/
                 \E g \in Paths : row'[f].stamp = row[g].stamp /\ row'[f].sha = row[g].sha
      PROVE  TodoInv'
  <2>1. \A p \in Listed' : p[1] \in Paths /\ p[2] \in Nat /\ p[2] # 0 /\ p[2] <= clock' /\ p = <<p[1], p[2]>>
    BY <1>1, Fields DEF TodoInv
  <2>2. \A p, q \in Listed' : p[2] = q[2] => p = q
    BY <1>1 DEF TodoInv
  <2>3. \A p \in Listed', f \in Paths : row'[f].stamp = p[2] => row'[f].sha = none
    BY <1>1, <2>1 DEF TodoInv
  <2> QED BY <1>1, <2>1, <2>2, <2>3 DEF TodoInv
<1>2. UNCHANGED <<todo, sum>> => Listed' = Listed /\ (sum' # NoSum => <<sum'.path, sum'.stamp>> \notin todo')
  BY DEF Listed, TodoInv
<1>3. ASSUME NEW f \in Paths, NEW c \in Contents \cup {none}, Write(f, c) PROVE TodoInv'
  <2>1. UNCHANGED <<todo, sum, row>> /\ clock' = clock + 1
    BY <1>3 DEF Write
  <2> QED BY <1>1, <1>2, <2>1, Fields
<1>4. ASSUME Reconcile \/ Crash PROVE TodoInv'
  <2>1. todo' = {} /\ sum' = NoSum
    BY <1>4 DEF Reconcile, Crash, PlaceInv
  <2> QED BY <2>1 DEF TodoInv, Listed
<1>5. ASSUME HashList PROVE TodoInv'
  <2>1. sum' = NoSum /\ UNCHANGED <<clock, row>>
        /\ todo' = {<<f, row[f].stamp>> : f \in {g \in Paths : row[g].stamp # 0 /\ row[g].sha = none}}
    BY <1>5 DEF HashList, PlaceInv
  <2>2. \A p \in todo' : \E f \in Paths : /\ p = <<f, row[f].stamp>> /\ p[1] = f /\ p[2] = row[f].stamp
                                         /\ row[f].stamp # 0 /\ row[f].sha = none
    BY <2>1
  <2>3. Listed' = todo'
    BY <2>1 DEF Listed
  <2>4. \A p \in Listed' : p[1] \in Paths /\ p[2] \in Nat /\ p[2] # 0 /\ p[2] <= clock' /\ p = <<p[1], p[2]>>
    BY <2>1, <2>2, <2>3, Fields DEF StampInv
  <2>5. \A p, q \in Listed' : p[2] = q[2] => p = q
    BY <2>2, <2>3 DEF StampInv
  <2>6. \A p \in Listed', f \in Paths : row'[f].stamp = p[2] => row'[f].sha = none
    BY <2>1, <2>2, <2>3 DEF StampInv
  <2> QED BY <2>1, <2>4, <2>5, <2>6 DEF TodoInv
<1>6. ASSUME NEW x \in todo, HashRead(x[1], x[2]) PROVE TodoInv'
  <2>1. sum = NoSum /\ todo' = todo \ {<<x[1], x[2]>>} /\ UNCHANGED <<clock, row>>
    BY <1>6 DEF HashRead
  <2>2. Listed = todo /\ x = <<x[1], x[2]>>
    BY <2>1 DEF Listed, TodoInv
  <2>3. sum' # NoSum => sum'.path = x[1] /\ sum'.stamp = x[2]
    BY <1>6 DEF HashRead
  <2>4. Listed' \subseteq Listed /\ (sum' # NoSum => <<sum'.path, sum'.stamp>> \notin todo')
    BY <2>1, <2>2, <2>3 DEF Listed
  <2> QED BY <1>1, <2>1, <2>4, Fields
<1>7. ASSUME HashStore PROVE TodoInv'
  <2>1. sum' = NoSum /\ sum # NoSum /\ UNCHANGED <<clock, todo>>
    BY <1>7 DEF HashStore
  <2>2. Listed = todo \cup {<<sum.path, sum.stamp>>} /\ Listed' = todo /\ <<sum.path, sum.stamp>> \notin todo
    BY <2>1 DEF Listed, TodoInv
  <2>3. \A p \in todo : p[2] # sum.stamp
    BY <2>2 DEF TodoInv
  <2>4. \A p \in todo, f \in Paths : row'[f].stamp = p[2] => row'[f].sha = none
    BY <1>7, <2>2, <2>3, HashedRows DEF TodoInv
  <2> QED BY <2>1, <2>2, <2>4 DEF TodoInv
<1>8. ASSUME MoveRow PROVE TodoInv'
  <2>1. UNCHANGED <<todo, sum, clock>> /\ mover.from \in Paths /\ mover.to \in Paths
    BY <1>8 DEF MoveRow, PlaceInv
  <2> QED BY <1>1, <1>2, <1>8, <2>1, Fields, MovedRows, Nothings
<1>9. ASSUME Removed PROVE TodoInv'
  <2>1. UNCHANGED <<todo, sum, clock>>
    BY <1>9 DEF Removed
  <2> QED BY <1>1, <1>2, <1>9, <2>1, Fields, RemovedRows, Nothings
<1>10. ASSUME \/ \E t \in Closers : Mark(t)
              \/ MoveStatus \/ MarkByHand
              \/ \E f \in Paths, r \in Acting \cup {NoRun}, status \in ByHand : SetStatus(f, status, r)
       PROVE  TodoInv'
  <2>1. UNCHANGED <<todo, sum, clock>>
    BY <1>10 DEF Mark, MoveStatus, MarkByHand, SetStatus, SetAt
  <2> QED BY <1>1, <1>2, <1>10, <2>1, Fields, MarkedRows DEF RowsKept
<1>11. ASSUME NEW r \in DOMAIN runs, RunEnded(r) PROVE TodoInv'
  <2>1. UNCHANGED <<todo, sum, clock>>
    BY <1>11 DEF RunEnded
  <2> QED BY <1>1, <1>2, <1>11, <2>1, Fields, EndedRows DEF RowsKept
<1>12. ASSUME \/ \E f \in Paths : Delete(f) \/ RemoveFile(f) \/ (\E leave \in BOOLEAN : StartByHand(f, leave))
              \/ \E f, g \in Paths, r \in Acting \cup {NoRun}, status \in ByHand : MoveFile(f, g, r, status)
              \/ Walk \/ NotYet
              \/ \E t \in Closers : \/ Close(t) \/ SinkDone(t)
                                    \/ \E r \in sink.start : StartRun(t, r) \/ StartFails(t, r)
              \/ \E r \in DOMAIN runs : RunEnds(r)
              \/ UNCHANGED vars
       PROVE  TodoInv'
  <2>1. UNCHANGED <<todo, sum, clock, row>>
    BY <1>12 DEF Delete, RemoveFile, StartByHand, MoveFile, Walk, NotYet, Close, SinkDone, StartRun,
                 StartFails, RunEnds, vars
  <2> QED BY <1>1, <1>2, <2>1, Fields
<1> QED BY <1>3, <1>4, <1>5, <1>6, <1>7, <1>8, <1>9, <1>10, <1>11, <1>12
        DEF Next, Scanning, Moving, Closing

-----------------------------------------------------------------------------
(* Runs and their files *)

\* While a batch is told, its files stay as they were when it was closed.
LEMMA SinkStep ==
    ASSUME Inv, [Next]_vars
    PROVE  SinkInv'
<1> USE DEF Inv, outside, rows, work, counts, history
<1>1. ASSUME \A t \in Closers : pc'[t] = "sink" => pc[t] = "sink",
             sink' = sink, DOMAIN runs \subseteq DOMAIN runs',
             \A q \in DOMAIN runs : runs[q].asked \subseteq runs'[q].asked,
             (\E t \in Closers : pc[t] = "sink") =>
                 \A f \in Paths : row'[f].stamp # 0 /\ row'[f].batch = sink.batch =>
                     row'[f].stamp = row[f].stamp /\ row'[f].batch = row[f].batch /\ row'[f].sha = row[f].sha
      PROVE  SinkInv'
  BY <1>1 DEF SinkInv
<1>2. ASSUME NEW t \in Closers, pc[t] = "sink"
      PROVE  /\ lock = t /\ lock # "free" /\ lock # "mover"
             /\ \A u \in Closers \ {t} : pc[u] \notin {"walked", "sink"}
             /\ mover.at \notin {"moved", "removed"}
  BY <1>2 DEF PlaceInv, Closers
<1>3. ASSUME Walk \/ Reconcile \/ MoveRow \/ Removed \/ Crash PROVE SinkInv'
  <2>1. \A t \in Closers : pc'[t] # "sink"
    <3>1. CASE Crash
      BY <3>1 DEF Crash
    <3>2. CASE ~Crash
      <4>1. \A t \in Closers : pc[t] # "sink"
        BY <1>2, <1>3, <3>2 DEF Walk, Reconcile, MoveRow, Removed, Closers
      <4> QED BY <1>3, <3>2, <4>1 DEF Walk, Reconcile, MoveRow, Removed, Closers, Types
    <3> QED BY <3>1, <3>2
  <2> QED BY <2>1 DEF SinkInv
<1>4. ASSUME NEW t \in Closers, Close(t) PROVE SinkInv'
  <2>1. \A u \in Closers : pc[u] # "sink"
    BY <1>2, <1>4 DEF Close
  <2>2. CASE Files(open) = {}
    BY <1>4, <2>1, <2>2 DEF Close, SinkInv, Types
  <2>3. CASE Files(open) # {}
    <3>1. sink'.mark = NoRun /\ sink'.batch = open /\ row' = row
      BY <1>4, <2>3 DEF Close
    <3>2. \A f \in Paths : row[f].stamp # 0 /\ row[f].batch = open => row[f].sha # none
      BY <1>4 DEF Close, Hashed, Files
    <3> QED BY <3>1, <3>2 DEF SinkInv
  <2> QED BY <2>2, <2>3
<1>5. ASSUME NEW t \in Closers, SinkDone(t) PROVE SinkInv'
  <2>1. \A u \in Closers : pc'[u] # "sink"
    BY <1>2, <1>5 DEF SinkDone, Types
  <2> QED BY <2>1 DEF SinkInv
<1>6. ASSUME NEW t \in Closers, Mark(t) PROVE SinkInv'
  <2>1. sink'.mark = NoRun /\ sink'.batch = sink.batch /\ UNCHANGED <<pc, runs>>
    BY <1>6 DEF Mark, Types, SinkT
  <2> QED BY <1>6, <2>1, MarkedRows DEF SinkInv, RowsKept
<1>7. ASSUME NEW t \in Closers, NEW r \in sink.start, StartRun(t, r) PROVE SinkInv'
  <2>1. PICK m \in {NoRun, r} : sink' = [sink EXCEPT !.start = @ \ {r}, !.mark = m]
    BY <1>7 DEF StartRun
  <2>2. sink'.mark \in {NoRun, r} /\ sink'.batch = sink.batch
    BY <2>1 DEF Types, SinkT
  <2>3. UNCHANGED <<pc, row>> /\ pc[t] = "sink"
    BY <1>7 DEF StartRun
  <2>4. r \in DOMAIN runs' /\ Versions(r, sink.batch) \subseteq runs'[r].asked
    BY <1>7, RunSteps
  <2>5. \A f \in Paths : row[f].stamp # 0 /\ row[f].batch = sink.batch =>
            /\ row[f].sha # none
            /\ r \in {InKey(f, row[f].sha), BatchKey(sink.batch)} => row[f].stamp \in runs'[r].asked
    <3>1. \A f \in Paths : row[f].stamp # 0 /\ row[f].batch = sink.batch =>
              (r \in {InKey(f, row[f].sha), BatchKey(sink.batch)} => row[f].stamp \in Versions(r, sink.batch))
      BY DEF Versions, Takes, Files
    <3> QED BY <2>3, <2>4, <3>1 DEF SinkInv
  <2> QED BY <2>2, <2>3, <2>4, <2>5 DEF SinkInv
<1>8. ASSUME NEW t \in Closers, NEW r \in sink.start, StartFails(t, r) PROVE SinkInv'
  <2>1. sink' = [sink EXCEPT !.start = @ \ {r}] /\ UNCHANGED <<pc, row, runs>>
    BY <1>8 DEF StartFails
  <2>2. sink'.mark = sink.mark /\ sink'.batch = sink.batch
    BY <2>1 DEF Types, SinkT
  <2> QED BY <2>1, <2>2 DEF SinkInv
<1>9. ASSUME HashStore PROVE SinkInv'
  <2>1. UNCHANGED <<pc, sink, runs>> /\ sum # NoSum
    BY <1>9 DEF HashStore
  <2>2. <<sum.path, sum.stamp>> \in Listed
    BY <2>1 DEF Listed
  <2>3. \A f \in Paths : row[f].stamp = sum.stamp => row[f].sha = none
    BY <2>2 DEF TodoInv
  <2>4. sum.stamp # 0
    BY <2>2 DEF TodoInv
  <2>5. (\E t \in Closers : pc[t] = "sink") =>
            \A f \in Paths : row'[f].stamp # 0 /\ row'[f].batch = sink.batch =>
                row'[f].stamp = row[f].stamp /\ row'[f].batch = row[f].batch /\ row'[f].sha = row[f].sha
    BY <1>9, <2>3, <2>4, HashedRows DEF SinkInv
  <2> QED BY <1>1, <2>1, <2>5
<1>10. ASSUME \/ MoveStatus \/ MarkByHand
              \/ \E f \in Paths, r \in Acting \cup {NoRun}, status \in ByHand : SetStatus(f, status, r)
       PROVE  SinkInv'
  <2>1. UNCHANGED <<pc, sink, runs>>
    BY <1>10 DEF MoveStatus, MarkByHand, SetStatus, SetAt
  <2> QED BY <1>1, <1>10, <2>1, MarkedRows DEF RowsKept
<1>11. ASSUME NEW r \in DOMAIN runs, RunEnded(r) PROVE SinkInv'
  <2>1. UNCHANGED <<pc, sink>>
    BY <1>11 DEF RunEnded
  <2> QED BY <1>1, <1>11, <2>1, EndedRows, RunSteps DEF RowsKept
<1>12. ASSUME NEW r \in DOMAIN runs, RunEnds(r) PROVE SinkInv'
  <2>1. UNCHANGED <<pc, sink, row>>
    BY <1>12 DEF RunEnds
  <2> QED BY <1>1, <1>12, <2>1, RunSteps
<1>13. ASSUME NEW f \in Paths, NEW leave \in BOOLEAN, StartByHand(f, leave) PROVE SinkInv'
  <2>1. UNCHANGED <<pc, sink, row>>
    BY <1>13 DEF StartByHand
  <2> QED BY <1>1, <1>13, <2>1, HandStarts
<1>14. ASSUME \/ \E f \in Paths : (\E c \in Contents \cup {none} : Write(f, c)) \/ Delete(f) \/ RemoveFile(f)
              \/ \E f, g \in Paths, r \in Acting \cup {NoRun}, status \in ByHand : MoveFile(f, g, r, status)
              \/ HashList \/ NotYet
              \/ \E x \in todo : HashRead(x[1], x[2])
              \/ UNCHANGED vars
       PROVE  SinkInv'
  <2>1. UNCHANGED <<sink, row, runs>>
    BY <1>14 DEF Write, Delete, RemoveFile, MoveFile, HashList, NotYet, HashRead, vars
  <2>2. \A t \in Closers : pc'[t] = "sink" => pc[t] = "sink"
    BY <1>14 DEF Write, Delete, RemoveFile, MoveFile, HashList, NotYet, HashRead, vars, Closers, Types
  <2> QED BY <1>1, <2>1, <2>2
<1> QED BY <1>3, <1>4, <1>5, <1>6, <1>7, <1>8, <1>9, <1>10, <1>11, <1>12, <1>13, <1>14
        DEF Next, Scanning, Moving, Closing

\* Who sets a file working for a run: the engine one the run was asked for, and the others give it to the run.
LEMMA WorkStep ==
    ASSUME Inv, [Next]_vars
    PROVE  WorkingForItsRun'
<1> USE DEF Inv, outside, rows, work, counts, history
<1>1. ASSUME DOMAIN runs \subseteq DOMAIN runs', given \subseteq given',
             \A q \in DOMAIN runs : runs[q].asked \subseteq runs'[q].asked,
             \A f \in Paths : \/ row'[f].status # "working"
                              \/ <<row'[f].stamp, row'[f].run>> \in given'
                              \/ \E g \in Paths : /\ row'[f].stamp = row[g].stamp /\ row'[f].run = row[g].run
                                                  /\ row[g].status = "working"
      PROVE  WorkingForItsRun'
  BY <1>1 DEF WorkingForItsRun, AskedOf
<1>2. ASSUME NEW t \in Closers, Mark(t) PROVE WorkingForItsRun'
  <2>1. /\ row' = WithStatus(Takes(sink.mark, sink.batch), "working", sink.mark)
        /\ pc[t] = "sink" /\ sink.mark # NoRun /\ UNCHANGED <<runs, given>>
    BY <1>2 DEF Mark
  <2>2. sink.mark \in RunIds /\ "working" \in ValidStatus
    BY DEF Types, SinkT, ValidStatus
  <2>3. \A f \in Paths : \/ row'[f] = row[f]
                         \/ f \in Takes(sink.mark, sink.batch) /\ row'[f].run = sink.mark
    <3>1. Types /\ row' = WithStatus(Takes(sink.mark, sink.batch), "working", sink.mark)
      BY <2>1 DEF Inv
    <3>2. \A f \in Paths : \/ row'[f] = row[f]
                           \/ f \in Takes(sink.mark, sink.batch) /\ (sink.mark # NoRun => row'[f].run = sink.mark)
      BY ONLY <2>2, <3>1, StatusRows
    <3> QED BY ONLY <2>1, <3>2
  <2>4. \A f \in Paths : row'[f].stamp = row[f].stamp
    BY <1>2, MarkedRows DEF RowsKept
  <2>5. \A f \in Takes(sink.mark, sink.batch) : sink.mark \in DOMAIN runs /\ row[f].stamp \in runs[sink.mark].asked
    BY <2>1 DEF Takes, Files, SinkInv
  <2> QED BY <2>1, <2>3, <2>4, <2>5 DEF WorkingForItsRun, AskedOf
<1>3. ASSUME \/ MoveStatus \/ MarkByHand
             \/ \E f \in Paths, r \in Acting \cup {NoRun}, status \in ByHand : SetStatus(f, status, r)
      PROVE  WorkingForItsRun'
  <2>1. /\ given \subseteq given' /\ runs' = runs
        /\ \A f \in Paths : \/ row'[f] = row[f]
                            \/ row'[f].status = "working" => <<row'[f].stamp, row'[f].run>> \in given'
    BY <1>3, GivenRows
  <2> QED BY <1>1, <2>1
<1>4. ASSUME NEW r \in DOMAIN runs, RunEnded(r) PROVE WorkingForItsRun'
  <2>1. (\A f \in Paths : row'[f] = row[f] \/ row'[f].status = "done") /\ UNCHANGED given
    BY <1>4, EndedRows DEF RunEnded
  <2> QED BY <1>1, <1>4, <2>1, RunSteps
<1>5. ASSUME NEW r \in DOMAIN runs, RunEnds(r) PROVE WorkingForItsRun'
  <2>1. UNCHANGED <<row, given>>
    BY <1>5 DEF RunEnds
  <2> QED BY <1>1, <1>5, <2>1, RunSteps
<1>6. ASSUME NEW f \in Paths, NEW leave \in BOOLEAN, StartByHand(f, leave) PROVE WorkingForItsRun'
  <2>1. UNCHANGED <<row, given>>
    BY <1>6 DEF StartByHand
  <2> QED BY <1>1, <1>6, <2>1, HandStarts
<1>7. ASSUME NEW t \in Closers, NEW r \in sink.start, StartRun(t, r) PROVE WorkingForItsRun'
  <2>1. UNCHANGED <<row, given>>
    BY <1>7 DEF StartRun
  <2> QED BY <1>1, <1>7, <2>1, RunSteps
<1>8. ASSUME Crash PROVE WorkingForItsRun'
  <2>1. UNCHANGED <<row, given>>
    BY <1>8 DEF Crash
  <2> QED BY <1>1, <1>8, <2>1, CrashedRuns
<1>9. ASSUME Reconcile PROVE WorkingForItsRun'
  <2>1. UNCHANGED <<runs, given>>
    BY <1>9 DEF Reconcile
  <2> QED BY <1>1, <1>9, <2>1, ReconciledRows
<1>10. ASSUME HashStore PROVE WorkingForItsRun'
  <2>1. UNCHANGED <<runs, given>>
    BY <1>10 DEF HashStore
  <2> QED BY <1>1, <1>10, <2>1, HashedRows
<1>11. ASSUME MoveRow PROVE WorkingForItsRun'
  <2>1. UNCHANGED <<runs, given>> /\ mover.from \in Paths /\ mover.to \in Paths
    BY <1>11 DEF MoveRow, PlaceInv
  <2> QED BY <1>1, <1>11, <2>1, MovedRows, Nothings
<1>12. ASSUME Removed PROVE WorkingForItsRun'
  <2>1. UNCHANGED <<runs, given>>
    BY <1>12 DEF Removed
  <2> QED BY <1>1, <1>12, <2>1, RemovedRows, Nothings
<1>13. ASSUME \/ \E f \in Paths : (\E c \in Contents \cup {none} : Write(f, c)) \/ Delete(f) \/ RemoveFile(f)
              \/ \E f, g \in Paths, r \in Acting \cup {NoRun}, status \in ByHand : MoveFile(f, g, r, status)
              \/ Walk \/ HashList \/ NotYet
              \/ \E x \in todo : HashRead(x[1], x[2])
              \/ \E t \in Closers : Close(t) \/ SinkDone(t) \/ \E r \in sink.start : StartFails(t, r)
              \/ UNCHANGED vars
       PROVE  WorkingForItsRun'
  <2>1. UNCHANGED <<row, runs, given>>
    BY <1>13 DEF Write, Delete, RemoveFile, MoveFile, Walk, HashList, NotYet, HashRead, Close, SinkDone,
                 StartFails, vars
  <2> QED BY <1>1, <2>1
<1> QED BY <1>2, <1>3, <1>4, <1>5, <1>6, <1>7, <1>8, <1>9, <1>10, <1>11, <1>12, <1>13
        DEF Next, Scanning, Moving, Closing

\* The end of a run settles what works for it, and only those marked later escape.
LEMMA SettledStep ==
    ASSUME Inv, [Next]_vars
    PROVE  SettledOnceTold'
<1> USE DEF Inv, outside, rows, work, counts, history
<1> DEFINE Told(q) == q \in DOMAIN runs /\ runs[q].state = "told"
           ToldThen(q) == q \in DOMAIN runs' /\ runs'[q].state = "told"
<1>0. SettledOnceTold <=>
          \A f \in Paths : row[f].status = "working" /\ Told(row[f].run) => <<row[f].stamp, row[f].run>> \in late
  BY DEF SettledOnceTold, State
<1>00. SettledOnceTold' <=>
          \A f \in Paths :
              row'[f].status = "working" /\ ToldThen(row'[f].run) => <<row'[f].stamp, row'[f].run>> \in late'
  BY DEF SettledOnceTold, State
<1>1. ASSUME \A q : ToldThen(q) => Told(q), late \subseteq late',
             \A f \in Paths : \/ row'[f].status # "working"
                              \/ ToldThen(row'[f].run) => <<row'[f].stamp, row'[f].run>> \in late'
                              \/ \E g \in Paths : /\ row'[f].stamp = row[g].stamp /\ row'[f].run = row[g].run
                                                  /\ row[g].status = "working"
      PROVE  SettledOnceTold'
  BY <1>0, <1>00, <1>1
<1>01. \A q : Told(q) <=> State(q) = "told"
  BY DEF State
<1> HIDE DEF Told, ToldThen
<1>2. runs' = runs => \A q : ToldThen(q) => Told(q)
  BY DEF Told, ToldThen
<1>3. ASSUME NEW t \in Closers, Mark(t) PROVE SettledOnceTold'
  <2> DEFINE fs == Takes(sink.mark, sink.batch)
             set == SetWorking(fs, "working", sink.mark)
  <2>1. row' = WithStatus(fs, "working", sink.mark) /\ runs' = runs /\ late' = late \cup Late(set)
        /\ sink.mark # NoRun
    BY <1>3 DEF Mark
  <2>2. sink.mark \in RunIds /\ "working" \in ValidStatus
    BY DEF Types, SinkT, ValidStatus
  <2> HIDE DEF fs
  <2>3. \A f \in Paths : \/ row'[f] = row[f]
                         \/ f \in fs /\ row[f].stamp # 0 /\ row'[f].run = sink.mark
    <3>1. Types /\ row' = WithStatus(fs, "working", sink.mark)
      BY <2>1 DEF Inv
    <3>2. \A f \in Paths : \/ row'[f] = row[f]
                           \/ f \in fs /\ row[f].stamp # 0 /\ (sink.mark # NoRun => row'[f].run = sink.mark)
      BY ONLY <2>2, <3>1, StatusRows
    <3> QED BY ONLY <2>1, <3>2
  <2>4. \A f \in Paths : row'[f].stamp = row[f].stamp
    BY <1>3, MarkedRows DEF RowsKept
  <2>5. \A f \in Paths : row'[f] = row[f] \/ <<row'[f].stamp, row'[f].run>> \in set
    BY <2>1, <2>3, <2>4 DEF SetWorking
  <2>6. \A x \in set : Told(x[2]) => x \in Late(set)
    BY <1>01 DEF Late
  <2> HIDE DEF set
  <2>7. \A s, q : <<s, q>>[2] = q
    OBVIOUS
  <2> QED BY <1>1, <1>2, <2>1, <2>5, <2>6, <2>7
<1>4. ASSUME \/ MoveStatus \/ MarkByHand
             \/ \E f \in Paths, r \in Acting \cup {NoRun}, status \in ByHand : SetStatus(f, status, r)
      PROVE  SettledOnceTold'
  <2>1. /\ late \subseteq late' /\ runs' = runs
        /\ \A f \in Paths :
              \/ row'[f] = row[f]
              \/ row'[f].status = "working" =>
                    (State(row'[f].run) = "told" => <<row'[f].stamp, row'[f].run>> \in late')
    BY <1>4, GivenRows
  <2> QED BY <1>01, <1>1, <1>2, <2>1
<1>5. ASSUME NEW r \in DOMAIN runs, RunEnded(r) PROVE SettledOnceTold'
  <2>1. late' = late
    BY <1>5 DEF RunEnded
  <2>2. \A q : q # r /\ ToldThen(q) => Told(q)
    BY <1>5, RunSteps DEF Told, ToldThen
  <2>3. \A f \in Paths : \/ row'[f] = row[f] /\ ~(row[f].run = r /\ row[f].status = "working")
                         \/ row'[f].status = "done"
    BY <1>5, EndedRows
  <2> QED BY <1>0, <1>00, <2>1, <2>2, <2>3
<1>6. ASSUME NEW r \in DOMAIN runs, RunEnds(r) PROVE SettledOnceTold'
  <2>1. UNCHANGED <<row, late>>
    BY <1>6 DEF RunEnds
  <2>2. \A q : ToldThen(q) => Told(q)
    BY <1>6, RunSteps DEF Told, ToldThen
  <2> QED BY <1>1, <2>1, <2>2
<1>7. ASSUME NEW f \in Paths, NEW leave \in BOOLEAN, StartByHand(f, leave) PROVE SettledOnceTold'
  <2>1. UNCHANGED <<row, late>>
    BY <1>7 DEF StartByHand
  <2>2. \A q : ToldThen(q) => Told(q)
    BY <1>7, HandStarts DEF Told, ToldThen
  <2> QED BY <1>1, <2>1, <2>2
<1>8. ASSUME NEW t \in Closers, NEW r \in sink.start, StartRun(t, r) PROVE SettledOnceTold'
  <2>1. UNCHANGED <<row, late>>
    BY <1>8 DEF StartRun
  <2>2. \A q : ToldThen(q) => Told(q)
    BY <1>8, RunSteps DEF Told, ToldThen
  <2> QED BY <1>1, <2>1, <2>2
<1>9. ASSUME Crash PROVE SettledOnceTold'
  <2>1. UNCHANGED <<row, late>>
    BY <1>9 DEF Crash
  <2>2. \A q : ToldThen(q) => Told(q)
    BY <1>9, CrashedRuns DEF Told, ToldThen
  <2> QED BY <1>1, <2>1, <2>2
<1>10. ASSUME Reconcile PROVE SettledOnceTold'
  <2>1. UNCHANGED <<runs, late>>
    BY <1>10 DEF Reconcile
  <2> QED BY <1>1, <1>2, <1>10, <2>1, ReconciledRows
<1>11. ASSUME HashStore PROVE SettledOnceTold'
  <2>1. UNCHANGED <<runs, late>>
    BY <1>11 DEF HashStore
  <2> QED BY <1>1, <1>2, <1>11, <2>1, HashedRows
<1>12. ASSUME MoveRow PROVE SettledOnceTold'
  <2>1. UNCHANGED <<runs, late>> /\ mover.from \in Paths /\ mover.to \in Paths
    BY <1>12 DEF MoveRow, PlaceInv
  <2> QED BY <1>1, <1>2, <1>12, <2>1, MovedRows, Nothings
<1>13. ASSUME Removed PROVE SettledOnceTold'
  <2>1. UNCHANGED <<runs, late>>
    BY <1>13 DEF Removed
  <2> QED BY <1>1, <1>2, <1>13, <2>1, RemovedRows, Nothings
<1>14. ASSUME \/ \E f \in Paths : (\E c \in Contents \cup {none} : Write(f, c)) \/ Delete(f) \/ RemoveFile(f)
              \/ \E f, g \in Paths, r \in Acting \cup {NoRun}, status \in ByHand : MoveFile(f, g, r, status)
              \/ Walk \/ HashList \/ NotYet
              \/ \E x \in todo : HashRead(x[1], x[2])
              \/ \E t \in Closers : Close(t) \/ SinkDone(t) \/ \E r \in sink.start : StartFails(t, r)
              \/ UNCHANGED vars
       PROVE  SettledOnceTold'
  <2>1. UNCHANGED <<row, runs, late>>
    BY <1>14 DEF Write, Delete, RemoveFile, MoveFile, Walk, HashList, NotYet, HashRead, Close, SinkDone,
                 StartFails, vars
  <2> QED BY <1>1, <1>2, <2>1
<1> QED BY <1>3, <1>4, <1>5, <1>6, <1>7, <1>8, <1>9, <1>10, <1>11, <1>12, <1>13, <1>14
        DEF Next, Scanning, Moving, Closing

-----------------------------------------------------------------------------
(* What is told *)

\* What leaves the disk, the stamps and the batches of the rows, the walk and the files on their way alone.
LEMMA SameTold ==
    ASSUME ToldInv, RowsKept, UNCHANGED <<disk, seen, open, told, torn>>,
           mover' = mover \/ (mover.at # "moved" /\ mover'.at \notin {"moved", "removed"}),
           mover.at \in {"moved", "removed"} => mover.from \in Paths,
           pc'["scan"] = "walked" => pc["scan"] = "walked"
    PROVE  ToldInv'
<1>1. AtHome'
  BY DEF ToldInv, AtHome, Home, RowsKept
<1>2. ToldHome'
  <2> SUFFICES ASSUME NEW f \in Paths, disk[f] # 0, disk[f] \notin torn, told[disk[f]] # 0
               PROVE  row'[IF mover'.at = "moved" /\ mover'.to = f THEN mover'.from ELSE f].stamp = disk[f]
    BY DEF ToldHome, Home
  <2>1. row[Home(f)].stamp = disk[f]
    BY DEF ToldInv, ToldHome
  <2> QED BY <2>1 DEF Home, RowsKept
<1>3. LeftFresh'
  BY DEF ToldInv, LeftFresh, Fresh, RowsKept
<1>4. WalkFresh'
  BY DEF ToldInv, WalkFresh, Fresh, RowsKept
<1>5. ToldClosed'
  BY DEF ToldInv, ToldClosed, RowsKept
<1> QED BY <1>1, <1>2, <1>3, <1>4, <1>5 DEF ToldInv

\* A version is told of at the place of its file: whoever looks finds it there, and what is new is nowhere.
LEMMA ToldStep ==
    ASSUME Inv, [Next]_vars
    PROVE  ToldInv'
<1> USE DEF Inv, outside, rows, work, counts, history
<1>0. /\ \A f \in Paths : disk[f] # 0 => disk[f] \in Stamps
      /\ \A f \in Paths : row[f].stamp # 0 => row[f].stamp \in Stamps
  BY Fields, Numbers DEF StampInv, Types
<1>1. lock = "free" \/ lock = "scan" => mover.at \notin {"moved", "removed"} /\ (\A f \in Paths : Home(f) = f)
  BY DEF PlaceInv, Home
<1>2. lock = "free" \/ lock = "mover" => pc["scan"] # "walked"
  BY DEF PlaceInv, Closers
<1>3. ASSUME NEW f \in Paths, NEW c \in Contents \cup {none}, Write(f, c) PROVE ToldInv'
  <2>1. /\ \A g \in Paths : disk'[g] = IF g = f THEN clock + 1 ELSE disk[g]
        /\ UNCHANGED <<row, open, seen, told, torn, mover, pc>> /\ clock + 1 \in Stamps
    BY <1>3, Numbers, Fields DEF Write, Types
  <2>2. /\ told[clock + 1] = 0 /\ clock + 1 # 0
        /\ \A g \in Paths : row[g].stamp # clock + 1 /\ seen[g] # clock + 1
    BY <2>1, Fields DEF StampInv
  <2>3. AtHome'
    BY <2>1, <2>2 DEF ToldInv, AtHome, Home
  <2>4. ToldHome'
    BY <2>1, <2>2 DEF ToldInv, ToldHome, Home
  <2>5. LeftFresh'
    BY <2>1, <2>2 DEF ToldInv, LeftFresh, Fresh, PlaceInv
  <2>6. WalkFresh'
    BY <2>1, <2>2 DEF ToldInv, WalkFresh, Fresh
  <2>7. ToldClosed'
    BY <2>1 DEF ToldInv, ToldClosed
  <2> QED BY <2>3, <2>4, <2>5, <2>6, <2>7 DEF ToldInv
<1>4. ASSUME NEW f \in Paths, Delete(f) PROVE ToldInv'
  <2>1. /\ \A g \in Paths : disk'[g] = IF g = f THEN 0 ELSE disk[g]
        /\ UNCHANGED <<row, open, seen, told, torn, mover, pc>>
    BY <1>4 DEF Delete, Types
  <2>2. AtHome'
    BY <2>1 DEF ToldInv, AtHome, Home
  <2>3. ToldHome'
    BY <2>1 DEF ToldInv, ToldHome, Home
  <2>4. LeftFresh'
    BY <2>1 DEF ToldInv, LeftFresh, Fresh, PlaceInv
  <2>5. WalkFresh'
    BY <2>1 DEF ToldInv, WalkFresh, Fresh
  <2>6. ToldClosed'
    BY <2>1 DEF ToldInv, ToldClosed
  <2> QED BY <2>2, <2>3, <2>4, <2>5, <2>6 DEF ToldInv
<1>5. ASSUME NEW f \in Paths, RemoveFile(f) PROVE ToldInv'
  <2>1. /\ \A g \in Paths : disk'[g] = IF g = f THEN 0 ELSE disk[g]
        /\ UNCHANGED <<row, open, seen, told, torn, pc>>
        /\ lock = "free" /\ mover'.at = "removed" /\ mover'.from = f
    BY <1>5 DEF RemoveFile, Types, NoMove
  <2>2. AtHome'
    BY <1>1, <2>1 DEF ToldInv, AtHome, Home
  <2>3. ToldHome'
    BY <1>1, <2>1 DEF ToldInv, ToldHome, Home
  <2>4. LeftFresh'
    BY <2>1 DEF LeftFresh, Fresh
  <2>5. WalkFresh'
    BY <1>2, <2>1 DEF WalkFresh
  <2>6. ToldClosed'
    BY <2>1 DEF ToldInv, ToldClosed
  <2> QED BY <2>2, <2>3, <2>4, <2>5, <2>6 DEF ToldInv
<1>6. ASSUME NEW f \in Paths, NEW g \in Paths, NEW r \in Acting \cup {NoRun}, NEW status \in ByHand,
             MoveFile(f, g, r, status)
      PROVE  ToldInv'
  <2>1. /\ \A h \in Paths : disk'[h] = IF h = g THEN disk[f] ELSE IF h = f THEN 0 ELSE disk[h]
        /\ UNCHANGED <<row, open, seen, told, torn, pc>> /\ f # g
        /\ lock = "free" /\ mover'.at = "moved" /\ mover'.from = f /\ mover'.to = g
    BY <1>6 DEF MoveFile, Types
  <2>2. AtHome'
    BY <1>1, <2>1 DEF ToldInv, AtHome, Home
  <2>3. ToldHome'
    BY <1>1, <2>1 DEF ToldInv, ToldHome, Home
  <2>4. LeftFresh'
    BY <2>1 DEF LeftFresh, Fresh
  <2>5. WalkFresh'
    BY <1>2, <2>1 DEF WalkFresh
  <2>6. ToldClosed'
    BY <2>1 DEF ToldInv, ToldClosed
  <2> QED BY <2>2, <2>3, <2>4, <2>5, <2>6 DEF ToldInv
<1>7. ASSUME MoveRow PROVE ToldInv'
  <2> DEFINE from == mover.from
             to == mover.to
  <2>1. /\ UNCHANGED <<disk, seen, open, told, torn, pc>> /\ mover.at = "moved" /\ lock = "mover"
        /\ from \in Paths /\ to \in Paths /\ from # to
    BY <1>7 DEF MoveRow, PlaceInv
  <2>2. mover'.at \notin {"moved", "removed"}
    BY <1>7, Nothings DEF MoveRow, Types, MoverT
  <2>3. \/ row' = row /\ row[from].stamp = 0
        \/ /\ row[from].stamp # 0 /\ row'[to] = row[from] /\ row'[from].stamp = 0
           /\ \A f \in Paths \ {from, to} : row'[f] = row[f]
    BY <1>7, MovedRows, Nothings
  <2>4. /\ \A f \in Paths : Home(f) = IF f = to THEN from ELSE f
        /\ Fresh(from)
    BY <2>1 DEF Home, ToldInv, LeftFresh
  <2> HIDE DEF from, to
  <2>5. AtHome'
    <3> SUFFICES ASSUME NEW f \in Paths, NEW g \in Paths, disk[f] # 0, disk[f] \notin torn, row'[g].stamp = disk[f]
                 PROVE  g = f
      BY <2>1, <2>2 DEF AtHome, Home
    <3>1. f = from => \A h \in Paths : row[h].stamp # disk[f]
      BY <2>4 DEF Fresh
    <3>2. \A h \in Paths : row[h].stamp = disk[f] => h = (IF f = to THEN from ELSE f)
      BY <2>4 DEF ToldInv, AtHome
    <3> QED BY <2>1, <2>3, <3>1, <3>2
  <2>6. ToldHome'
    <3> SUFFICES ASSUME NEW f \in Paths, disk[f] # 0, disk[f] \notin torn, told[disk[f]] # 0
                 PROVE  row'[f].stamp = disk[f]
      BY <2>1, <2>2 DEF ToldHome, Home
    <3>1. row[IF f = to THEN from ELSE f].stamp = disk[f] /\ f # from
      BY <2>4 DEF ToldInv, ToldHome, Fresh
    <3> QED BY <2>1, <2>3, <3>1
  <2>7. LeftFresh'
    BY <2>2 DEF LeftFresh
  <2>8. WalkFresh'
    BY <1>2, <2>1 DEF WalkFresh
  <2>9. ToldClosed'
    BY <2>1, <2>3 DEF ToldInv, ToldClosed
  <2> QED BY <2>5, <2>6, <2>7, <2>8, <2>9 DEF ToldInv
<1>8. ASSUME Removed PROVE ToldInv'
  <2>1. /\ UNCHANGED <<disk, seen, open, told, torn, pc>> /\ mover.at = "removed" /\ lock = "mover"
        /\ mover' = NoMove
    BY <1>8 DEF Removed, PlaceInv
  <2>2. mover'.at = "idle"
    BY <2>1, Nothings
  <2>3. /\ row'[mover.from].stamp = 0 /\ mover.from \in Paths
        /\ \A f \in Paths \ {mover.from} : row'[f] = row[f]
    BY <1>8, RemovedRows, Nothings
  <2>4. (\A f \in Paths : Home(f) = f) /\ Fresh(mover.from)
    BY <2>1 DEF Home, ToldInv, LeftFresh
  <2>5. AtHome'
    BY <2>1, <2>2, <2>3, <2>4 DEF ToldInv, AtHome, Home
  <2>6. ToldHome'
    BY <2>1, <2>2, <2>3, <2>4 DEF ToldInv, ToldHome, Home, Fresh
  <2>7. LeftFresh'
    BY <2>2 DEF LeftFresh
  <2>8. WalkFresh'
    BY <1>2, <2>1 DEF WalkFresh
  <2>9. ToldClosed'
    BY <2>1, <2>3 DEF ToldInv, ToldClosed
  <2> QED BY <2>5, <2>6, <2>7, <2>8, <2>9 DEF ToldInv
<1>9. ASSUME Walk PROVE ToldInv'
  <2>1. lock = "free" /\ seen' = disk /\ UNCHANGED <<disk, row, open, told, torn, mover>>
    BY <1>9 DEF Walk
  <2>2. AtHome'
    BY <2>1 DEF ToldInv, AtHome, Home
  <2>3. ToldHome'
    BY <2>1 DEF ToldInv, ToldHome, Home
  <2>4. LeftFresh'
    BY <1>1, <2>1 DEF LeftFresh
  <2>5. WalkFresh'
    BY <1>1, <2>1 DEF ToldInv, ToldHome, WalkFresh
  <2>6. ToldClosed'
    BY <2>1 DEF ToldInv, ToldClosed
  <2> QED BY <2>2, <2>3, <2>4, <2>5, <2>6 DEF ToldInv
<1>10. ASSUME Reconcile PROVE ToldInv'
  <2>1. /\ lock = "scan" /\ pc["scan"] = "walked" /\ pc'["scan"] # "walked"
        /\ UNCHANGED <<disk, told, torn, mover>>
    BY <1>10 DEF Reconcile, PlaceInv, Closers, Types
  <2>2. \A f \in Paths : row'[f].stamp = seen[f]
    BY <1>10, ReconciledRows
  <2>3. \A f \in Paths : /\ disk[f] = seen[f] \/ Fresh(f)
                         /\ seen[f] # 0 /\ seen[f] \notin torn /\ told[seen[f]] # 0 => row[f].stamp = seen[f]
    BY <2>1 DEF ToldInv, WalkFresh
  <2>4. AtHome'
    <3>1. \A f, g \in Paths : disk[f] # 0 /\ seen[g] = disk[f] => g = f
      BY <2>3 DEF Fresh, StampInv
    <3> QED BY <1>1, <2>1, <2>2, <3>1 DEF AtHome, Home
  <2>5. ToldHome'
    BY <1>1, <2>1, <2>2, <2>3 DEF ToldHome, Home, Fresh
  <2>6. LeftFresh'
    BY <1>1, <2>1 DEF LeftFresh
  <2>7. WalkFresh'
    BY <2>1 DEF WalkFresh
  <2>8. ToldClosed'
    <3> SUFFICES ASSUME NEW f \in Paths, seen[f] # 0, seen[f] \notin torn, told[seen[f]] # 0, open' # 0
                 PROVE  row'[f].batch # open'
      BY <2>1, <2>2 DEF ToldClosed
    <3>1. row[f].stamp = seen[f] /\ row'[f] = row[f]
      BY <1>10, <2>3, ReconciledRows
    <3>2. CASE open' = open
      BY <3>1, <3>2 DEF ToldInv, ToldClosed
    <3>3. CASE open' # open
      <4>1. open' = batches + 1 /\ row[f].batch <= batches
        BY <1>10, <3>3, ReconciledRows DEF StampInv
      <4> QED BY <3>1, <4>1, Fields
    <3> QED BY <3>2, <3>3
  <2> QED BY <2>4, <2>5, <2>6, <2>7, <2>8 DEF ToldInv
<1>11. ASSUME NEW t \in Closers, Close(t) PROVE ToldInv'
  <2>1. lock = "free" /\ open' = 0 /\ UNCHANGED <<disk, row, seen, torn, mover>> /\ pc'["scan"] # "walked"
    BY <1>2, <1>11 DEF Close, Types, Closers
  <2>2. \A s \in Stamps : told'[s] # 0 => told[s] # 0 \/ \E g \in Paths : row[g].stamp = s
    BY <1>11 DEF Close, Files
  <2>3. AtHome'
    BY <2>1 DEF ToldInv, AtHome, Home
  <2>4. ToldHome'
    <3> SUFFICES ASSUME NEW f \in Paths, disk[f] # 0, disk[f] \notin torn, told'[disk[f]] # 0
                 PROVE  row[f].stamp = disk[f]
      BY <1>1, <2>1 DEF ToldHome, Home
    <3> QED BY <1>0, <1>1, <2>1, <2>2 DEF ToldInv, ToldHome, AtHome
  <2>5. LeftFresh'
    BY <1>1, <2>1 DEF LeftFresh
  <2>6. WalkFresh'
    BY <2>1 DEF WalkFresh
  <2>7. ToldClosed'
    BY <2>1 DEF ToldClosed
  <2> QED BY <2>3, <2>4, <2>5, <2>6, <2>7 DEF ToldInv
<1>12. ASSUME Crash PROVE ToldInv'
  <2>1. /\ UNCHANGED <<disk, row, open, told>> /\ pc'["scan"] = "idle" /\ mover'.at = "idle"
        /\ torn \subseteq torn' /\ (mover.at = "moved" => disk[mover.to] \in torn')
    BY <1>12, Nothings DEF Crash, Closers
  <2>2. \A f \in Paths : disk[f] \notin torn' => disk[f] \notin torn /\ Home(f) = f
    BY <2>1 DEF Home
  <2>3. AtHome'
    BY <2>1, <2>2 DEF ToldInv, AtHome, Home
  <2>4. ToldHome'
    BY <2>1, <2>2 DEF ToldInv, ToldHome, Home
  <2>5. LeftFresh'
    BY <2>1 DEF LeftFresh
  <2>6. WalkFresh'
    BY <2>1 DEF WalkFresh
  <2>7. ToldClosed'
    BY <2>1 DEF ToldInv, ToldClosed
  <2> QED BY <2>3, <2>4, <2>5, <2>6, <2>7 DEF ToldInv
<1>13. mover.at \in {"moved", "removed"} => mover.from \in Paths
  BY DEF PlaceInv
<1>14. ASSUME HashStore PROVE ToldInv'
  <2>1. UNCHANGED <<disk, seen, open, told, torn, mover, pc>>
    BY <1>14 DEF HashStore
  <2>2. \A f \in Paths : row'[f].stamp = row[f].stamp /\ row'[f].batch = row[f].batch
    BY <1>14, HashedRows
  <2>3. AtHome'
    BY <2>1, <2>2 DEF ToldInv, AtHome, Home
  <2>4. ToldHome'
    <3> SUFFICES ASSUME NEW f \in Paths, disk[f] # 0, disk[f] \notin torn, told[disk[f]] # 0
                 PROVE  row'[Home(f)].stamp = disk[f]
      BY <2>1 DEF ToldHome, Home
    <3>1. row[Home(f)].stamp = disk[f]
      BY DEF ToldInv, ToldHome
    <3> QED BY <1>13, <2>2, <3>1 DEF Home
  <2>5. LeftFresh'
    BY <2>1, <2>2 DEF ToldInv, LeftFresh, Fresh
  <2>6. WalkFresh'
    BY <2>1, <2>2 DEF ToldInv, WalkFresh, Fresh
  <2>7. ToldClosed'
    BY <2>1, <2>2 DEF ToldInv, ToldClosed
  <2> QED BY <2>3, <2>4, <2>5, <2>6, <2>7 DEF ToldInv
<1>15. ASSUME \/ \E t \in Closers : Mark(t)
              \/ MoveStatus \/ MarkByHand
              \/ \E f \in Paths, r \in Acting \cup {NoRun}, status \in ByHand : SetStatus(f, status, r)
       PROVE  ToldInv'
  <2>1. UNCHANGED <<disk, seen, open, told, torn, pc>>
    BY <1>15 DEF Mark, MoveStatus, MarkByHand, SetStatus, SetAt
  <2>2. mover' = mover \/ (mover.at # "moved" /\ mover'.at \notin {"moved", "removed"})
    BY <1>15, Nothings DEF Mark, MoveStatus, MarkByHand, SetStatus, SetAt
  <2>3. RowsKept
    BY <1>15, MarkedRows
  <2> QED BY <1>13, <2>1, <2>2, <2>3, SameTold
<1>16. ASSUME NEW r \in DOMAIN runs, RunEnded(r) PROVE ToldInv'
  <2>1. UNCHANGED <<disk, seen, open, told, torn, pc, mover>>
    BY <1>16 DEF RunEnded
  <2>2. RowsKept
    BY <1>16, EndedRows
  <2> QED BY <1>13, <2>1, <2>2, SameTold
<1>17. ASSUME \/ \E f \in Paths, leave \in BOOLEAN : StartByHand(f, leave)
              \/ HashList \/ NotYet
              \/ \E x \in todo : HashRead(x[1], x[2])
              \/ \E t \in Closers : SinkDone(t) \/ \E r \in sink.start : StartRun(t, r) \/ StartFails(t, r)
              \/ \E r \in DOMAIN runs : RunEnds(r)
              \/ UNCHANGED vars
       PROVE  ToldInv'
  <2>1. UNCHANGED <<disk, seen, open, told, torn, row, mover>>
    BY <1>17 DEF StartByHand, HashList, NotYet, HashRead, SinkDone, StartRun, StartFails, RunEnds, vars
  <2>2. pc'["scan"] = "walked" => pc["scan"] = "walked"
    BY <1>17 DEF StartByHand, HashList, NotYet, HashRead, SinkDone, StartRun, StartFails, RunEnds, vars,
                 Closers, Types
  <2>3. RowsKept
    BY <2>1 DEF RowsKept
  <2> QED BY <1>13, <2>1, <2>2, <2>3, SameTold
<1> QED BY <1>3, <1>4, <1>5, <1>6, <1>7, <1>8, <1>9, <1>10, <1>11, <1>12, <1>14, <1>15, <1>16, <1>17
        DEF Next, Scanning, Moving, Closing

\* A batch is told of files that were not told of.
LEMMA OnceStep ==
    ASSUME Inv, [Next]_vars
    PROVE  ToldOnce'
<1> USE DEF Inv, outside, rows, work, counts, history
<1>1. ASSUME NEW t \in Closers, Close(t) PROVE ToldOnce'
  <2>1. torn' = torn /\ open # 0
    BY <1>1 DEF Close
  <2>2. ASSUME NEW s \in Stamps, told'[s] > 1, s \notin torn PROVE FALSE
    <3>1. CASE told'[s] = told[s]
      BY <2>2, <3>1 DEF ToldOnce
    <3>2. CASE told'[s] # told[s]
      <4>1. told'[s] = told[s] + 1 /\ \E f \in Files(open) : row[f].stamp = s
        BY <1>1, <3>2 DEF Close
      <4>2. told[s] = 0
        BY <2>1, <2>2, <4>1 DEF Files, ToldInv, ToldClosed
      <4> QED BY <2>2, <4>1, <4>2
    <3> QED BY <3>1, <3>2
  <2> QED BY <2>1, <2>2 DEF ToldOnce
<1>2. ASSUME ~\E t \in Closers : Close(t) PROVE ToldOnce'
  <2>1. told' = told /\ torn \subseteq torn'
    BY <1>2 DEF Next, Scanning, Moving, Closing, Write, Delete, RemoveFile, StartByHand, Walk, Reconcile, HashList,
                HashRead, HashStore, NotYet, StartRun, StartFails, Mark, SinkDone, RunEnds, RunEnded,
                MoveFile, MoveRow, MoveStatus, Removed, SetStatus, MarkByHand, SetAt, Crash, vars
  <2> QED BY <2>1 DEF ToldOnce
<1> QED BY <1>1, <1>2

-----------------------------------------------------------------------------
(* Names: a run that is named anywhere is one there may be *)

\* A batch, a row and what is under way name runs of the folder, or none.
NameInv ==
    /\ pipelines \in Projects /\ back \subseteq Stamps
    /\ \A f \in Paths : row[f].run \in Runs
    /\ DOMAIN runs \subseteq Runs \ {NoRun}
    /\ sink.start \subseteq Runs \ {NoRun} /\ sink.mark \in Runs
    /\ mover.run \in Runs /\ hand.run \in Runs

\* A batch is told while who closed it has the lock, and then only.
TellInv ==
    /\ (\E t \in Closers : pc[t] = "sink") => sink.batch # 0
    /\ (\A t \in Closers : pc[t] # "sink") => sink = NoSink

\* No run is forgotten: the batches only get more.
LEMMA MoreRuns ==
    ASSUME batches \in Nat, batches' \in Nat, batches <= batches'
    PROVE  Runs \subseteq Runs'
<1>1. 1 .. batches \subseteq 1 .. batches'
  OBVIOUS
<1> QED BY <1>1 DEF Runs

\* The runs of a batch that is closed, when all its files are hashed.
LEMMA AskedAreNamed ==
    ASSUME Types, NEW n \in 1 .. batches, Hashed(n)
    PROVE  Asked(n) \subseteq Runs \ {NoRun}
<1>1. \A f \in Files(n) : f \in Paths /\ row[f].sha \in Contents
  BY DEF Files, Hashed, Types, RowT
<1>2. BatchKey(n) \in Runs /\ \A f \in Files(n) : InKey(f, row[f].sha) \in Runs
  BY <1>1 DEF Runs
<1>3. NoRun \notin Asked(n)
  BY AskedAreRuns DEF Types
<1> QED BY <1>2, <1>3 DEF Asked

\* Who sets the status of rows puts its own name into them, or none.
LEMMA NamesOfStatus ==
    ASSUME Types, NEW fs, NEW status, NEW r, NEW f \in Paths
    PROVE  WithStatus(fs, status, r)[f].run \in {row[f].run, r}
<1>1. row[f] \in RowT
  BY DEF Types
<1>2. [row[f] EXCEPT !.status = status, !.run = IF r = NoRun THEN @ ELSE r].run \in {row[f].run, r}
  BY <1>1 DEF RowT
<1> QED BY <1>2 DEF WithStatus

\* The rows after a step name runs there may be.
LEMMA NamesOfRows ==
    ASSUME Inv, NameInv, [Next]_vars
    PROVE  \A f \in Paths : row'[f].run \in Runs
<1> USE DEF Inv, outside, rows, work, counts, history
<1>0. NoRow.run = NoRun /\ NoRun \in Runs /\ \A f \in Paths : row[f].run \in Runs
  BY DEF NoRow, Runs, NameInv
<1>1. ASSUME NEW t \in Closers, Mark(t) PROVE \A f \in Paths : row'[f].run \in Runs
  <2>1. row' = WithStatus(Takes(sink.mark, sink.batch), "working", sink.mark) /\ sink.mark \in Runs
    BY <1>1 DEF Mark, NameInv
  <2> QED BY <2>1, <1>0, NamesOfStatus
<1>2. ASSUME MoveStatus PROVE \A f \in Paths : row'[f].run \in Runs
  <2>1. row' = WithStatus({mover.to}, mover.status, mover.run) /\ mover.run \in Runs
    BY <1>2 DEF MoveStatus, SetAt, NameInv
  <2> QED BY <2>1, <1>0, NamesOfStatus
<1>3. ASSUME MarkByHand PROVE \A f \in Paths : row'[f].run \in Runs
  <2>1. row' = WithStatus({hand.path}, "working", hand.run) /\ hand.run \in Runs
    BY <1>3 DEF MarkByHand, SetAt, NameInv
  <2> QED BY <2>1, <1>0, NamesOfStatus
<1>4. ASSUME NEW f \in Paths, NEW r \in Acting \cup {NoRun}, NEW status \in ByHand, SetStatus(f, status, r)
      PROVE  \A g \in Paths : row'[g].run \in Runs
  <2>1. row' = WithStatus({f}, status, r) /\ r \in Runs
    BY <1>0, <1>4 DEF SetStatus, SetAt, NameInv, Acting
  <2> QED BY <2>1, <1>0, NamesOfStatus
<1>5. ASSUME HashStore PROVE \A f \in Paths : row'[f].run \in Runs
  BY <1>0, <1>5, HashedRows
<1>6. ASSUME NEW r \in DOMAIN runs, RunEnded(r) PROVE \A f \in Paths : row'[f].run \in Runs
  <2>1. r \in Runs
    BY DEF NameInv
  <2> QED BY <1>0, <1>6, <2>1, EndedRows
<1>7. ASSUME Reconcile PROVE \A f \in Paths : row'[f].run \in Runs
  <2>1. PICK b : row' = [f \in Paths |-> Reconciled(f, seen[f], b)]
    BY <1>7 DEF Reconcile
  <2>2. \A f \in Paths : Reconciled(f, seen[f], b).run \in {row[f].run, NoRun}
    BY <1>0 DEF Reconciled
  <2> QED BY <1>0, <2>1, <2>2
<1>8. ASSUME MoveRow PROVE \A f \in Paths : row'[f].run \in Runs
  <2>1. mover.from \in Paths
    BY <1>8 DEF MoveRow, PlaceInv
  <2> QED BY <1>0, <1>8, <2>1, MovedRows
<1>9. ASSUME Removed PROVE \A f \in Paths : row'[f].run \in Runs
  BY <1>0, <1>9, RemovedRows
<1>10. ASSUME row' = row PROVE \A f \in Paths : row'[f].run \in Runs
  BY <1>0, <1>10
<1>11. \/ \E f \in Paths : Delete(f) \/ RemoveFile(f) \/ (\E leave \in BOOLEAN : StartByHand(f, leave))
       \/ \E f \in Paths, c \in Contents \cup {none} : Write(f, c)
       \/ Walk \/ HashList \/ NotYet \/ Crash
       \/ \E x \in todo : HashRead(x[1], x[2])
       \/ \E t \in Closers : Close(t) \/ SinkDone(t) \/ \E r \in sink.start : StartRun(t, r) \/ StartFails(t, r)
       \/ \E r \in DOMAIN runs : RunEnds(r)
       \/ \E f, g \in Paths, r \in Acting \cup {NoRun}, status \in ByHand : MoveFile(f, g, r, status)
       \/ UNCHANGED vars
       => row' = row
  BY DEF Delete, RemoveFile, StartByHand, Write, Walk, HashList, NotYet, Crash, HashRead, Close, SinkDone,
         StartRun, StartFails, RunEnds, MoveFile, vars
<1> QED BY <1>1, <1>2, <1>3, <1>4, <1>5, <1>6, <1>7, <1>8, <1>9, <1>10, <1>11 DEF Next, Scanning, Moving, Closing

\* Batches are counted up, and only by the scan.
LEMMA BatchesGrow ==
    ASSUME Inv, [Next]_vars
    PROVE  batches' \in Nat /\ batches <= batches'
<1>1. CASE Reconcile
  BY <1>1, ReconciledRows DEF Inv
<1>2. CASE ~Reconcile
  <2>1. batches' = batches
    BY <1>2 DEF Next, Scanning, Moving, Closing, Write, Delete, RemoveFile, StartByHand, Walk, HashList, HashRead,
                HashStore, NotYet, Close, StartRun, StartFails, Mark, SinkDone, RunEnds, RunEnded, MoveFile,
                MoveRow, MoveStatus, Removed, SetStatus, MarkByHand, SetAt, Crash, vars, rows
  <2> QED BY <2>1 DEF Inv, Types
<1> QED BY <1>1, <1>2

\* Nobody gets a name that no run may have.
LEMMA NameStep ==
    ASSUME Inv, NameInv, [Next]_vars
    PROVE  NameInv'
<1> USE DEF Inv, outside, rows, work, counts, history
<1>0. /\ NoRun \in Runs /\ \A n \in 1 .. MaxDeeds : HandRun(n) \in Runs \ {NoRun}
      /\ Runs \subseteq Runs'
  <2>1. \A n \in 1 .. MaxDeeds : n \in Nat
    BY BoundsAssumption
  <2>2. \A n \in 1 .. MaxDeeds : HandRun(n) # NoRun
    BY <2>1, Keys
  <2>3. batches \in Nat
    BY DEF Types
  <2>4. Runs \subseteq Runs'
    BY <2>3, BatchesGrow, MoreRuns
  <2> QED BY <2>2, <2>4 DEF Runs
<1> DEFINE Others == /\ DOMAIN runs' \subseteq Runs \ {NoRun}
                     /\ sink'.start \subseteq Runs \ {NoRun} /\ sink'.mark \in Runs
                     /\ mover'.run \in Runs /\ hand'.run \in Runs
<1>1. /\ DOMAIN runs \subseteq Runs \ {NoRun} /\ sink.start \subseteq Runs \ {NoRun} /\ sink.mark \in Runs
      /\ mover.run \in Runs /\ hand.run \in Runs
  BY DEF NameInv
<1>2. NoSink.start = {} /\ NoSink.mark = NoRun /\ NoMove.run = NoRun /\ NoHand.run = NoRun
  BY DEF NoSink, NoMove, NoHand
<1>3. ASSUME NEW f \in Paths, RemoveFile(f) PROVE Others
  <2>1. mover'.run = NoRun
    BY <1>3 DEF RemoveFile, NoMove
  <2> QED BY <1>0, <1>1, <1>3, <2>1 DEF RemoveFile
<1>4. ASSUME NEW f \in Paths, NEW leave \in BOOLEAN, StartByHand(f, leave) PROVE Others
  <2>1. PICK n \in 1 .. MaxDeeds :
            /\ runs' = [q \in DOMAIN runs \cup {HandRun(n)} |->
                           IF q \in DOMAIN runs THEN runs[q] ELSE [state |-> "live", asked |-> {}]]
            /\ hand' = IF leave THEN NoHand ELSE [run |-> HandRun(n), path |-> f]
    BY <1>4 DEF StartByHand
  <2>2. DOMAIN runs' = DOMAIN runs \cup {HandRun(n)} /\ hand'.run \in {NoRun, HandRun(n)}
    BY <1>2, <2>1
  <2> QED BY <1>0, <1>1, <1>4, <2>2 DEF StartByHand
<1>5. ASSUME MoveRow PROVE Others
  <2>1. mover'.run \in {NoRun, mover.run}
    BY <1>2, <1>5 DEF MoveRow, Types, MoverT
  <2> QED BY <1>0, <1>1, <1>5, <2>1 DEF MoveRow
<1>6. ASSUME MoveStatus \/ Removed PROVE Others
  BY <1>0, <1>1, <1>2, <1>6 DEF MoveStatus, SetAt, Removed
<1>7. ASSUME MarkByHand PROVE Others
  BY <1>0, <1>1, <1>2, <1>7 DEF MarkByHand, SetAt
<1>8. ASSUME Crash PROVE Others
  BY <1>0, <1>1, <1>2, <1>8, CrashedRuns DEF Crash
<1>9. ASSUME NEW t \in Closers, Close(t) PROVE Others
  <2>1. CASE Files(open) = {}
    BY <1>1, <1>9, <2>1 DEF Close
  <2>2. CASE Files(open) # {}
    <3>1. sink'.start = Asked(open) /\ sink'.mark = NoRun
      BY <1>9, <2>2 DEF Close
    <3>2. open \in 1 .. batches /\ Hashed(open)
      BY <1>9 DEF Close, Types, StampInv
    <3> QED BY <1>0, <1>1, <1>9, <3>1, <3>2, AskedAreNamed DEF Close
  <2> QED BY <2>1, <2>2
<1>10. ASSUME NEW t \in Closers, Mark(t) PROVE Others
  <2>1. sink'.start = sink.start /\ sink'.mark = NoRun
    BY <1>10 DEF Mark, Types, SinkT
  <2> QED BY <1>0, <1>1, <1>10, <2>1 DEF Mark
<1>11. ASSUME NEW t \in Closers, SinkDone(t) PROVE Others
  BY <1>0, <1>1, <1>2, <1>11 DEF SinkDone
<1>12. ASSUME NEW t \in Closers, NEW r \in sink.start, StartRun(t, r) PROVE Others
  <2>1. sink'.start \subseteq sink.start /\ sink'.mark \in {NoRun, r}
    BY <1>12 DEF StartRun, Types, SinkT
  <2>2. DOMAIN runs' = DOMAIN runs \cup {r}
    BY <1>12, RunSteps
  <2> QED BY <1>0, <1>1, <1>12, <2>1, <2>2 DEF StartRun
<1>13. ASSUME NEW t \in Closers, NEW r \in sink.start, StartFails(t, r) PROVE Others
  <2>1. sink'.start \subseteq sink.start /\ sink'.mark = sink.mark
    BY <1>13 DEF StartFails, Types, SinkT
  <2> QED BY <1>0, <1>1, <1>13, <2>1 DEF StartFails
<1>14. ASSUME NEW r \in DOMAIN runs, RunEnds(r) \/ RunEnded(r) PROVE Others
  <2>1. DOMAIN runs' = DOMAIN runs
    BY <1>14, RunSteps
  <2> QED BY <1>1, <1>14, <2>1 DEF RunEnds, RunEnded
<1>15. ASSUME NEW f \in Paths, NEW g \in Paths, NEW r \in Acting \cup {NoRun}, NEW status \in ByHand,
              MoveFile(f, g, r, status)
       PROVE  Others
  <2>1. mover'.run = r /\ r \in Runs
    BY <1>0, <1>1, <1>15 DEF MoveFile, Acting
  <2> QED BY <1>1, <1>15, <2>1 DEF MoveFile
<1>16. \/ \E f \in Paths : Delete(f) \/ \E c \in Contents \cup {none} : Write(f, c)
       \/ Walk \/ Reconcile \/ HashList \/ HashStore \/ NotYet
       \/ \E x \in todo : HashRead(x[1], x[2])
       \/ \E f \in Paths, r \in Acting \cup {NoRun}, status \in ByHand : SetStatus(f, status, r)
       \/ UNCHANGED vars
       => Others
  BY <1>1 DEF Delete, Write, Walk, Reconcile, HashList, HashStore, NotYet, HashRead, SetStatus, SetAt, vars
<1>17. Others
  BY <1>3, <1>4, <1>5, <1>6, <1>7, <1>8, <1>9, <1>10, <1>11, <1>12, <1>13, <1>14, <1>15, <1>16
  DEF Next, Scanning, Moving, Closing
<1>18. pipelines' = pipelines
  BY DEF Next, Scanning, Moving, Closing, Write, Delete, RemoveFile, StartByHand, Walk, Reconcile, HashList, HashRead,
         HashStore, NotYet, Close, StartRun, StartFails, Mark, SinkDone, RunEnds, RunEnded, MoveFile,
         MoveRow, MoveStatus, Removed, SetStatus, MarkByHand, SetAt, Crash, vars
<1>19. back' \subseteq Stamps
  <2>1. back \subseteq Stamps /\ \A f \in Paths : disk[f] # 0 => disk[f] \in Stamps
    BY Numbers DEF NameInv, Types, StampInv
  <2>2. \A f, g \in Paths : \A r, status :
            MoveFile(f, g, r, status) => back' \subseteq back \cup {disk[f]} /\ disk[f] # 0
    BY DEF MoveFile
  <2>3. (\E f, g \in Paths, r \in Acting \cup {NoRun}, status \in ByHand : MoveFile(f, g, r, status)) \/ back' = back
    BY DEF Next, Scanning, Moving, Closing, Write, Delete, RemoveFile, StartByHand, Walk, Reconcile, HashList,
           HashRead, HashStore, NotYet, Close, StartRun, StartFails, Mark, SinkDone, RunEnds, RunEnded,
           MoveRow, MoveStatus, Removed, SetStatus, MarkByHand, SetAt, Crash, vars
  <2> QED BY <2>1, <2>2, <2>3
<1> HIDE DEF Others
<1>20. \A f \in Paths : row'[f].run \in Runs
  BY NamesOfRows
<1>21. pipelines \in Projects
  BY DEF NameInv
<1> QED BY <1>0, <1>17, <1>18, <1>19, <1>20, <1>21 DEF NameInv, Others

\* The lock is free or had by one of those who take it.
LockType == lock \in {"free", "mover"} \cup Closers
LEMMA LockStep ==
    ASSUME LockType, [Next]_vars
    PROVE  LockType'
<1>1. lock' \in {lock, "free", "mover", "scan"} \/ lock' \in Closers
  BY DEF Next, Scanning, Moving, Closing, Write, Delete, RemoveFile, StartByHand, Walk, Reconcile, HashList, HashRead,
         HashStore, NotYet, Close, StartRun, StartFails, Mark, SinkDone, RunEnds, RunEnded, MoveFile,
         MoveRow, MoveStatus, Removed, SetStatus, MarkByHand, SetAt, Crash, vars
<1> QED BY <1>1 DEF LockType, Closers

\* Who closes a batch tells it, and forgets it when he is done.
LEMMA TellStep ==
    ASSUME Inv, TellInv, [Next]_vars
    PROVE  TellInv'
<1> USE DEF Inv, outside, rows, work, counts, history
<1>1. ASSUME NEW t \in Closers, Close(t) PROVE TellInv'
  <2>1. CASE Files(open) = {}
    BY <1>1, <2>1 DEF Close, AtClose, TellInv, Closers, Types
  <2>2. CASE Files(open) # {}
    <3>1. sink'.batch = open /\ open # 0 /\ pc' = [pc EXCEPT ![t] = "sink"]
      BY <1>1, <2>2 DEF Close
    <3> QED BY <3>1 DEF TellInv, Types
  <2> QED BY <2>1, <2>2
<1>2. ASSUME NEW t \in Closers, Mark(t) PROVE TellInv'
  <2>1. sink'.batch = sink.batch /\ pc' = pc /\ pc[t] = "sink"
    BY <1>2 DEF Mark, Types, SinkT
  <2> QED BY <2>1 DEF TellInv
<1>3. ASSUME NEW t \in Closers, NEW r \in sink.start, StartRun(t, r) \/ StartFails(t, r) PROVE TellInv'
  <2>1. sink'.batch = sink.batch
    BY <1>3 DEF StartRun, StartFails, Types, SinkT
  <2>2. pc' = pc /\ pc[t] = "sink"
    BY <1>3 DEF StartRun, StartFails
  <2> QED BY <2>1, <2>2 DEF TellInv
<1>4. ASSUME NEW t \in Closers, SinkDone(t) PROVE TellInv'
  <2>1. sink' = NoSink /\ pc' = [pc EXCEPT ![t] = "idle"] /\ pc[t] = "sink"
    BY <1>4 DEF SinkDone
  <2>2. \A u \in Closers : pc[u] = "sink" => lock = u
    BY DEF PlaceInv
  <2>3. \A u \in Closers : pc'[u] # "sink"
    BY <2>1, <2>2 DEF Types
  <2> QED BY <2>1, <2>3 DEF TellInv
<1>5. ASSUME Crash PROVE TellInv'
  BY <1>5 DEF Crash, TellInv
<1>6. ASSUME Walk \/ Reconcile \/ HashList \/ NotYet PROVE TellInv'
  <2>1. PICK p \in {"walked", "list", "hash", "idle"} : pc' = [pc EXCEPT !["scan"] = p]
    BY <1>6 DEF Walk, Reconcile, HashList, NotYet
  <2>2. pc["scan"] # "sink" /\ sink' = sink
    BY <1>6 DEF Walk, Reconcile, HashList, NotYet, AtClose
  <2> QED BY <2>1, <2>2 DEF TellInv, Types
<1>7. ASSUME \/ \E f \in Paths : Delete(f) \/ RemoveFile(f) \/ (\E leave \in BOOLEAN : StartByHand(f, leave))
             \/ \E f \in Paths, c \in Contents \cup {none} : Write(f, c)
             \/ HashStore \/ MoveRow \/ MoveStatus \/ Removed \/ MarkByHand
             \/ \E x \in todo : HashRead(x[1], x[2])
             \/ \E r \in DOMAIN runs : RunEnds(r) \/ RunEnded(r)
             \/ \E f, g \in Paths, r \in Acting \cup {NoRun}, status \in ByHand : MoveFile(f, g, r, status)
             \/ \E f \in Paths, r \in Acting \cup {NoRun}, status \in ByHand : SetStatus(f, status, r)
             \/ UNCHANGED vars
      PROVE  TellInv'
  <2>1. sink' = sink /\ pc' = pc
    BY <1>7 DEF Delete, RemoveFile, StartByHand, Write, HashStore, MoveRow, MoveStatus, Removed, MarkByHand, HashRead,
                RunEnds, RunEnded, MoveFile, SetStatus, SetAt, vars
  <2> QED BY <2>1 DEF TellInv
<1> QED BY <1>1, <1>2, <1>3, <1>4, <1>5, <1>6, <1>7 DEF Next, Scanning, Moving, Closing

-----------------------------------------------------------------------------
(* Theorems *)

LEMMA InitInv == Init => Inv
<1> SUFFICES ASSUME Init PROVE Inv
  OBVIOUS
<1> USE DEF Init
<1>1. Types
  <2>1. row \in [Paths -> RowT]
    BY Nothings
  <2>2. runs \in [DOMAIN runs -> RunT] /\ DOMAIN runs = {}
    OBVIOUS
  <2>3. clock \in Nat /\ clock <= MaxWrites
    BY Numbers
  <2> QED BY <2>1, <2>2, <2>3, Nothings DEF Types
<1>2. PlaceInv
  BY Nothings DEF PlaceInv, Closers
<1>3. StampInv
  BY Nothings DEF StampInv
<1>4. HashInv /\ TodoInv
  BY Nothings DEF HashInv, TodoInv, Listed
<1>5. SinkInv /\ WorkingForItsRun /\ SettledOnceTold
  BY Nothings DEF SinkInv, WorkingForItsRun, SettledOnceTold
<1>6. ToldInv /\ ToldOnce
  BY Nothings DEF ToldInv, AtHome, ToldHome, LeftFresh, WalkFresh, ToldClosed, ToldOnce, Home, Fresh
<1> QED BY <1>1, <1>2, <1>3, <1>4, <1>5, <1>6 DEF Inv

\* What ties the disk, the rows and the runs of the IN folder is so in every reachable state.
THEOREM Invariance == Spec => []Inv
<1>1. Inv /\ [Next]_vars => Inv'
  BY TypesStep, PlaceStep, StampStep, HashStep, TodoStep, SinkStep, WorkStep, SettledStep, ToldStep, OnceStep DEF Inv
<1> QED BY InitInv, <1>1, PTL DEF Spec

\* The variables are what they are declared to be: a row names a run there may be and a batch that was opened,
\* the lock is held by who needs it where he stands, and a batch is told by who closed it, and by nobody else.
THEOREM FolderTyped == Spec => []TypeOK
<1>1. Init => NameInv /\ TellInv /\ LockType
  <2> SUFFICES ASSUME Init PROVE NameInv /\ TellInv /\ LockType
    OBVIOUS
  <2>1. /\ NoRow.run = NoRun /\ NoSink.start = {} /\ NoSink.mark = NoRun /\ NoMove.run = NoRun /\ NoHand.run = NoRun
        /\ NoRun \in Runs
    BY DEF NoRow, NoSink, NoMove, NoHand, Runs
  <2> QED BY <2>1 DEF Init, NameInv, TellInv, LockType
<1>2. Inv /\ NameInv /\ TellInv /\ LockType /\ [Next]_vars => NameInv' /\ TellInv' /\ LockType'
  BY NameStep, TellStep, LockStep
<1>3. Inv /\ NameInv /\ TellInv /\ LockType => TypeOK
  <2> SUFFICES ASSUME Inv, NameInv, TellInv, LockType PROVE TypeOK
    OBVIOUS
  <2> USE DEF Inv
  <2>1. clock \in 0 .. MaxWrites /\ disk \in [Paths -> 0 .. clock]
    BY Numbers DEF Types, StampInv
  <2>2. row \in [Paths -> Rows]
    <3>1. ASSUME NEW f \in Paths PROVE row[f] \in Rows
      <4>1. row[f] \in RowT /\ row[f].stamp \in 0 .. clock /\ row[f].batch \in 0 .. batches /\ row[f].run \in Runs
        BY DEF Types, RowT, StampInv, NameInv
      <4> QED BY <4>1 DEF RowT, Rows
    <3> QED BY <3>1 DEF Types
  <2>3. \A r \in DOMAIN runs : runs[r].state \in {"live", "ended", "told", "untold"}
    <3>1. \A r \in DOMAIN runs : runs[r] \in RunT
      BY DEF Types
    <3> QED BY <3>1 DEF RunT
  <2>4. lock \in {"free", "scan", "sources", "mover"}
    BY DEF LockType, Closers
  <2>5. (sink # NoSink) = (\E t \in Closers : pc[t] = "sink")
    BY Nothings DEF TellInv
  <2>6. /\ (lock = "mover") = (mover.at \in {"moved", "removed"})
        /\ \A t \in Closers : (lock = t) = (pc[t] \in {"walked", "sink"})
    BY DEF PlaceInv
  <2>7. /\ pipelines \in Projects /\ back \subseteq Stamps
        /\ content \in [Stamps -> Contents \cup {none}]
        /\ batches \in Nat /\ open \in 0 .. batches
        /\ DOMAIN runs \subseteq Runs \ {NoRun}
    BY DEF Types, StampInv, NameInv
  <2> QED BY <2>1, <2>2, <2>3, <2>4, <2>5, <2>6, <2>7, Zenon DEF TypeOK
<1> QED BY Invariance, <1>1, <1>2, <1>3, PTL DEF Spec

\* A hash in a row is that of the version the row is of, however files change and move while the scan reads
\* them without the lock (hash, HashOfVersion).
THEOREM HashesAreOfVersions == Spec => []HashOfVersion
<1>1. Inv => HashOfVersion
  BY DEF Inv, HashInv, HashOfVersion
<1> QED BY Invariance, <1>1, PTL

\* A file at work for a run is a version that run was asked for, or one a person, a node or a start by hand
\* gave it: the engine takes no changed file for the one it was told of (INBatch, reconcile).
THEOREM WorkWasAsked == Spec => []WorkingForItsRun
<1>1. Inv => WorkingForItsRun
  BY DEF Inv
<1> QED BY Invariance, <1>1, PTL

\* A version is told to the engine once, whoever closes its batch and wherever it is moved (closeBatches, Moved).
THEOREM VersionsAreToldOnce == Spec => []ToldOnce
<1>1. Inv => ToldOnce
  BY DEF Inv
<1> QED BY Invariance, <1>1, PTL

\* Once the end of a run is told no file works for it, but the versions set working for it after that, late
\* by the engine or by hand (RunEnded, startIN).
THEOREM EndsSettle == Spec => []SettledOnceTold
<1>1. Inv => SettledOnceTold
  BY DEF Inv
<1> QED BY Invariance, <1>1, PTL

================================================================================
