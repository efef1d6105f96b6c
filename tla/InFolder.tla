------------------------------ MODULE InFolder ------------------------------
(***************************************************************************)
(* The IN folder of a project (internal/infolder) and the runs its files   *)
(* start (internal/pipeline/innodes.go).                                   *)
(*                                                                         *)
(* People and programs write files on the disk whenever they like.  The    *)
(* scan brings the rows of in.db in line with the disk, hashes the files   *)
(* and closes the open batch, which tells the engine; a check of the       *)
(* sources closes it as well.  Meanwhile files are moved and removed       *)
(* through the server, statuses are set, runs end and the server crashes.  *)
(*                                                                         *)
(* Every write of a file has a stamp of its own (its size and mtime).  All *)
(* the files are local and of one first-level folder, which has at most    *)
(* one open batch.                                                         *)
(***************************************************************************)
EXTENDS Naturals, Sequences

CONSTANTS
    Paths,       \* the paths of the files
    none,        \* no hash, no path
    Projects,    \* the projects checked: which in pipelines one has, and what they do with a file
    ByHand,      \* the statuses people and pipelines set themselves
    Writes,      \* bound: the contents, known by their hashes, that each write of a file may have
    MaxDeeds,    \* bound: the deletions, moves, removals, statuses set and starts by hand
    MaxTroubles  \* bound: the crashes and the starts that fail

\* The in pipelines of a project: one with a run per file, one with a run per batch.  Each takes the
\* files of its runs, which are marked, or leaves them (take: false).
InPipelines == {"in", "inbatch"}
ValidStatus == {"new", "working", "done", "error", "ignored"}

ASSUME ProjectsAssumption == Projects \subseteq [InPipelines -> {"absent", "takes", "leaves"}]
ASSUME StatusAssumption == ByHand \subseteq ValidStatus
ASSUME BoundsAssumption ==
    MaxDeeds \in Nat /\ MaxTroubles \in Nat

MaxWrites == Len(Writes)
Contents == (UNION {Writes[s] : s \in 1 .. MaxWrites}) \ {none}

\* A write with no content leaves a file that cannot be read.
ASSUME WritesAssumption == Writes \in Seq(SUBSET (Contents \cup {none}))
ASSUME NoneAssumption == none \notin Paths

VARIABLES
    pipelines, \* the in pipelines of the project, which stay as they are
    disk,     \* disk[f]: the stamp of the file at f, 0 when there is none
    content,  \* content[s]: what the write of stamp s wrote, none when it cannot be read
    clock,    \* the last stamp
    row,      \* row[f]: the row of the file at f
    open,     \* the open batch, 0 when there is none
    batches,  \* how many batches were opened
    runs,     \* runs[r]: a run of the jobs database: its state, the versions it was asked for
    lock,     \* who holds the project's lock
    pc,       \* where the scan and the check of the sources are
    seen,     \* what the scan's walk saw of the disk
    todo,     \* the rows the scan has still to hash
    sum,      \* the file it is hashing, and what it read
    sink,     \* the batch told to the engine, the runs still to start, the one to mark
    mover,    \* the move or the removal at work
    hand,     \* the start by hand at work
    deeds, troubles,
    told,     \* history: how many times a version of a file was told to the engine
    lost,     \* history: the versions whose start a crash or a failure took away
    torn,     \* history: the versions moved on the disk and not in the rows
    late,     \* history: the versions set working for a run whose end was told, with the run
    given,    \* history: the versions set working by a person, a node or a start by hand, with their run
    back      \* history: the versions moved back to a path between the read and the look of a hash

outside == <<pipelines, disk, content, clock>>
rows == <<row, open, batches>>
work == <<seen, todo, sum>>
counts == <<deeds, troubles>>
history == <<told, lost, torn, late, given, back>>
vars == <<outside, rows, runs, lock, pc, work, sink, mover, hand, counts, history>>

Stamps == 1 .. MaxWrites
Closers == {"scan", "sources"}

\* A run is known by its idempotency key, one started by hand by its number.
NoRun == <<"", none, none, 0>>
InKey(f, c) == <<"in", f, c, 0>>
BatchKey(b) == <<"inbatch", none, none, b>>
HandRun(n) == <<"hand", none, none, n>>

NoRow == [stamp |-> 0, sha |-> none, status |-> "new", run |-> NoRun, batch |-> 0]
NoSum == [path |-> none, stamp |-> 0, sha |-> none]
NoSink == [batch |-> 0, start |-> {}, mark |-> NoRun]
NoMove == [at |-> "idle", from |-> none, to |-> none, run |-> NoRun, status |-> "new"]
NoHand == [run |-> NoRun, path |-> none]

Files(b) == {f \in Paths : row[f].stamp # 0 /\ row[f].batch = b}
State(r) == IF r \in DOMAIN runs THEN runs[r].state ELSE "none"
Live == {r \in DOMAIN runs : runs[r].state = "live"}

\* The runs a node may be at work for: a canceled one's still is when its end is told.
Acting == {r \in DOMAIN runs : runs[r].state # "untold"}
Leaves == {p \in InPipelines : pipelines[p] = "leaves"}

Init ==
    /\ pipelines \in Projects
    /\ disk = [f \in Paths |-> 0]
    /\ content = [s \in Stamps |-> none]
    /\ clock = 0
    /\ row = [f \in Paths |-> NoRow]
    /\ open = 0 /\ batches = 0
    /\ runs = [r \in {} |-> NoRow]
    /\ lock = "free"
    /\ pc = [t \in Closers |-> "idle"]
    /\ seen = [f \in Paths |-> 0] /\ todo = {} /\ sum = NoSum
    /\ sink = NoSink /\ mover = NoMove /\ hand = NoHand
    /\ deeds = 0 /\ troubles = 0
    /\ told = [s \in Stamps |-> 0]
    /\ lost = {} /\ torn = {} /\ late = {} /\ given = {} /\ back = {}

-----------------------------------------------------------------------------
(* The disk *)

\* A file is written, or written anew, by anyone but the server.
Write(f, c) ==
    /\ clock < MaxWrites /\ c \in Writes[clock + 1]
    /\ clock' = clock + 1
    /\ disk' = [disk EXCEPT ![f] = clock + 1]
    /\ content' = [content EXCEPT ![clock + 1] = c]
    /\ UNCHANGED <<pipelines, rows, runs, lock, pc, work, sink, mover, hand, counts, history>>

Delete(f) ==
    /\ disk[f] # 0 /\ deeds < MaxDeeds
    /\ disk' = [disk EXCEPT ![f] = 0]
    /\ deeds' = deeds + 1
    /\ UNCHANGED <<pipelines, content, clock, rows, runs, lock, pc, work, sink, mover, hand, troubles, history>>

-----------------------------------------------------------------------------
(* The scan: reconcile, hash, closeBatches *)

Walk ==
    /\ pc["scan"] = "idle" /\ lock = "free"
    /\ pc' = [pc EXCEPT !["scan"] = "walked"]
    /\ lock' = "scan"
    /\ seen' = disk
    /\ UNCHANGED <<outside, rows, runs, todo, sum, sink, mover, hand, counts, history>>

\* A bug: a changed file keeps its status and its run.
KeepsStatus(f, s, b) ==
    IF s = row[f].stamp THEN row[f]
    ELSE IF s = 0 THEN NoRow
    ELSE [row[f] EXCEPT !.stamp = s, !.sha = none, !.batch = b]

\* A bug: a changed file stays in the batch it was in.
KeepsBatch(f, s, b) ==
    IF s = row[f].stamp THEN row[f]
    ELSE IF s = 0 THEN NoRow
    ELSE [stamp |-> s, sha |-> none, status |-> "new", run |-> NoRun,
          batch |-> IF row[f].stamp = 0 THEN b ELSE row[f].batch]

\* What a scan makes of the row of f when it saw the stamp s: one known stays, one changed is new.
Reconciled(f, s, b) ==
    IF s = row[f].stamp THEN row[f]
    ELSE IF s = 0 THEN NoRow
    ELSE [stamp |-> s, sha |-> none, status |-> "new", run |-> NoRun, batch |-> b]

Reconcile ==
    /\ pc["scan"] = "walked"
    /\ LET Changed == {f \in Paths : seen[f] \notin {0, row[f].stamp}}
           Opens == Changed # {} /\ open = 0
           batch == IF Opens THEN batches + 1 ELSE open
       IN  /\ row' = [f \in Paths |-> Reconciled(f, seen[f], batch)]
           /\ open' = batch
           /\ batches' = IF Opens THEN batches + 1 ELSE batches
    /\ pc' = [pc EXCEPT !["scan"] = "list"]
    /\ lock' = "free"
    /\ seen' = [f \in Paths |-> 0]
    /\ UNCHANGED <<outside, runs, todo, sum, sink, mover, hand, counts, history>>

\* The files without a hash, with the stamps of their rows.
HashList ==
    /\ pc["scan"] = "list"
    /\ todo' = {<<f, row[f].stamp>> : f \in {g \in Paths : row[g].stamp # 0 /\ row[g].sha = none}}
    /\ pc' = [pc EXCEPT !["scan"] = "hash"]
    /\ UNCHANGED <<outside, rows, runs, lock, seen, sum, sink, mover, hand, counts, history>>

\* Reads a file, without the lock; one that is gone or cannot be read is left to the next scan.
HashRead(f, s) ==
    /\ pc["scan"] = "hash" /\ sum = NoSum
    /\ <<f, s>> \in todo
    /\ todo' = todo \ {<<f, s>>}
    /\ sum' = IF disk[f] = 0 \/ content[disk[f]] = none THEN NoSum
               ELSE [path |-> f, stamp |-> s, sha |-> content[disk[f]]]
    /\ UNCHANGED <<outside, rows, runs, lock, pc, seen, sink, mover, hand, counts, history>>

\* A bug: the file is not looked at again after its read.
KeepsUnlooked(f, s) == row[f].stamp = s

\* Whether the hash of a file is kept: neither the file nor its row changed since the list.
Keeps(f, s) == disk[f] = s /\ row[f].stamp = s

HashStore ==
    /\ pc["scan"] = "hash" /\ sum # NoSum
    /\ row' = IF Keeps(sum.path, sum.stamp) THEN [row EXCEPT ![sum.path].sha = sum.sha] ELSE row
    /\ sum' = NoSum
    /\ UNCHANGED <<outside, open, batches, runs, lock, pc, seen, todo, sink, mover, hand, counts, history>>

\* Whether the closer t is where it closes the batches: the scan when it has hashed the files, a check of
\* the sources at any time.
AtClose(t) == (pc[t] = "hash" /\ sum = NoSum /\ todo = {}) \/ (t = "sources" /\ pc[t] = "idle")

\* No batch to close, or one whose folder is not quiet and has no marker, or with a file to hash.
NotYet ==
    /\ AtClose("scan") /\ lock = "free"
    /\ pc' = [pc EXCEPT !["scan"] = "idle"]
    /\ UNCHANGED <<outside, rows, runs, lock, work, sink, mover, hand, counts, history>>

\* A bug: a batch closes with files still to hash, which the engine is not told.
SomeHashed(b) == \E f \in Files(b) : row[f].sha # none

\* Whether every file of a batch is hashed.
Hashed(b) == \A f \in Files(b) : row[f].sha # none

\* The runs a batch starts (INBatch).
Asked(b) ==
    {InKey(f, row[f].sha) : f \in {g \in Files(b) : pipelines["in"] # "absent"}}
        \cup {BatchKey(n) : n \in {m \in {b} : pipelines["inbatch"] # "absent"}}

\* The files a run of the batch takes.
Takes(r, b) == {f \in Files(b) : r \in {InKey(f, row[f].sha), BatchKey(b)}}
Versions(r, b) == {row[f].stamp : f \in Takes(r, b)}

Close(t) ==
    /\ AtClose(t) /\ lock = "free"
    /\ open # 0 /\ Hashed(open)
    /\ open' = 0
    /\ IF Files(open) = {}
          THEN /\ pc' = [pc EXCEPT ![t] = "idle"]
               /\ UNCHANGED <<lock, sink, told>>
          ELSE /\ pc' = [pc EXCEPT ![t] = "sink"]
               /\ lock' = t
               /\ sink' = [batch |-> open, start |-> Asked(open), mark |-> NoRun]
               /\ told' = [s \in Stamps |->
                             IF \E f \in Files(open) : row[f].stamp = s THEN told[s] + 1 ELSE told[s]]
    /\ UNCHANGED <<outside, row, batches, runs, work, mover, hand, counts, lost, torn, late, given, back>>

-----------------------------------------------------------------------------
(* The engine: INBatch and startIN, under the lock of who closed the batch *)

\* Start: the run with the key is there already, or is created and takes its files.
StartRun(t, r) ==
    /\ pc[t] = "sink" /\ sink.mark = NoRun /\ r \in sink.start
    /\ LET asked == Versions(r, sink.batch)
           old == r \in DOMAIN runs
       IN  /\ runs' = [q \in DOMAIN runs \cup {r} |->
                          IF q # r THEN runs[q]
                          ELSE IF old THEN [runs[r] EXCEPT !.asked = @ \cup asked]
                          ELSE [state |-> "live", asked |-> asked]]
           /\ sink' = [sink EXCEPT !.start = @ \ {r}, !.mark = IF old \/ r[1] \in Leaves THEN NoRun ELSE r]
    /\ UNCHANGED <<outside, rows, lock, pc, work, mover, hand, counts, history>>

\* A start that fails is logged: its files stay as they are, in a closed batch.
StartFails(t, r) ==
    /\ pc[t] = "sink" /\ sink.mark = NoRun /\ r \in sink.start
    /\ troubles < MaxTroubles
    /\ troubles' = troubles + 1
    /\ sink' = [sink EXCEPT !.start = @ \ {r}]
    /\ lost' = lost \cup Versions(r, sink.batch)
    /\ UNCHANGED <<outside, rows, runs, lock, pc, work, mover, hand, deeds, told, torn, late, given, back>>

\* SetStatus of the files at the paths in fs, by the run r (NoRun: by a person, the run stays).
WithStatus(fs, status, r) ==
    [f \in Paths |->
        IF f \notin fs \/ row[f].stamp = 0 THEN row[f]
        ELSE [row[f] EXCEPT !.status = status, !.run = IF r = NoRun THEN @ ELSE r]]

\* The versions it sets working, with the run each then works for, and those whose run's end is told.
SetWorking(fs, status, r) ==
    {<<row[f].stamp, IF r = NoRun THEN row[f].run ELSE r>> :
        f \in {g \in fs : row[g].stamp # 0 /\ status = "working"}}
Late(set) == {x \in set : State(x[2]) = "told"}

Mark(t) ==
    /\ pc[t] = "sink" /\ sink.mark # NoRun
    /\ LET fs == Takes(sink.mark, sink.batch) IN
       /\ row' = WithStatus(fs, "working", sink.mark)
       /\ late' = late \cup Late(SetWorking(fs, "working", sink.mark))
    /\ sink' = [sink EXCEPT !.mark = NoRun]
    /\ UNCHANGED <<outside, open, batches, runs, lock, pc, work, mover, hand, counts, told, lost, torn, given, back>>

SinkDone(t) ==
    /\ pc[t] = "sink" /\ sink.mark = NoRun /\ sink.start = {}
    /\ sink' = NoSink
    /\ pc' = [pc EXCEPT ![t] = "idle"]
    /\ lock' = "free"
    /\ UNCHANGED <<outside, rows, runs, work, mover, hand, counts, history>>

\* A run ends; later its end is told, which settles the files it left working.
RunEnds(r) ==
    /\ r \in Live
    /\ runs' = [runs EXCEPT ![r].state = "ended"]
    /\ UNCHANGED <<outside, rows, lock, pc, work, sink, mover, hand, counts, history>>

\* A bug: only the files that are still where the run found them.
SettlesInPlace(r) == {f \in Paths : row[f].run = r /\ row[f].status = "working" /\ r = InKey(f, row[f].sha)}

\* The rows RunEnded settles.
Settles(r) == {f \in Paths : row[f].run = r /\ row[f].status = "working"}

\* Done here stands for error as well.
RunEnded(r) ==
    /\ State(r) = "ended"
    /\ row' = [f \in Paths |-> IF f \in Settles(r) THEN [row[f] EXCEPT !.status = "done"] ELSE row[f]]
    /\ runs' = [runs EXCEPT ![r].state = "told"]
    /\ UNCHANGED <<outside, open, batches, lock, pc, work, sink, mover, hand, counts, history>>

-----------------------------------------------------------------------------
(* People and nodes: moves, removals, statuses and starts by hand *)

\* Move (vault.INMove): the target must be free.  By a person, or in.move of a run with a status.
MoveFile(f, g, r, status) ==
    /\ mover = NoMove /\ lock = "free" /\ deeds < MaxDeeds
    /\ f # g /\ disk[f] # 0 /\ disk[g] = 0
    /\ disk' = [disk EXCEPT ![f] = 0, ![g] = disk[f]]
    /\ mover' = [at |-> "moved", from |-> f, to |-> g, run |-> r, status |-> status]
    /\ lock' = "mover"
    /\ deeds' = deeds + 1
    /\ back' = IF sum.path = g /\ sum.stamp = disk[f] THEN back \cup {disk[f]} ELSE back
    /\ UNCHANGED <<pipelines, content, clock, rows, runs, pc, work, sink, hand, troubles,
                   told, lost, torn, late, given>>

\* A bug: the row of the file stays behind, for the scan to find.
StaysBehind(f, g) == row

\* Moved: the row of from is the row of to; one to had is forgotten.
Moved(f, g) ==
    IF row[f].stamp = 0 THEN row ELSE [row EXCEPT ![g] = row[f], ![f] = NoRow]

MoveRow ==
    /\ mover.at = "moved"
    /\ row' = Moved(mover.from, mover.to)
    /\ lock' = "free"
    /\ mover' = IF mover.run = NoRun THEN NoMove ELSE [mover EXCEPT !.at = "status"]
    /\ UNCHANGED <<outside, open, batches, runs, pc, work, sink, hand, counts, history>>

\* A status set at a path: whatever version is there gets it.
SetAt(f, status, r) ==
    /\ row' = WithStatus({f}, status, r)
    /\ given' = given \cup SetWorking({f}, status, r)
    /\ late' = late \cup Late(SetWorking({f}, status, r))
    /\ UNCHANGED <<outside, open, batches, runs, lock, pc, work, sink, troubles, told, lost, torn, back>>

\* The status of in.move, after the move and without the lock.
MoveStatus ==
    /\ mover.at = "status"
    /\ SetAt(mover.to, mover.status, mover.run)
    /\ mover' = NoMove
    /\ UNCHANGED <<hand, deeds>>

\* Remove, of a file that is there.
RemoveFile(f) ==
    /\ mover = NoMove /\ lock = "free" /\ deeds < MaxDeeds
    /\ disk[f] # 0
    /\ disk' = [disk EXCEPT ![f] = 0]
    /\ mover' = [NoMove EXCEPT !.at = "removed", !.from = f]
    /\ lock' = "mover"
    /\ deeds' = deeds + 1
    /\ UNCHANGED <<pipelines, content, clock, rows, runs, pc, work, sink, hand, troubles, history>>

Removed ==
    /\ mover.at = "removed"
    /\ row' = [row EXCEPT ![mover.from] = NoRow]
    /\ mover' = NoMove
    /\ lock' = "free"
    /\ UNCHANGED <<outside, open, batches, runs, pc, work, sink, hand, counts, history>>

\* A status set by a person, or by a node of a run (in.move without to).
SetStatus(f, status, r) ==
    /\ row[f].stamp # 0 /\ deeds < MaxDeeds
    /\ SetAt(f, status, r)
    /\ deeds' = deeds + 1
    /\ UNCHANGED <<mover, hand>>

\* StartINFiles: a run on a file chosen by hand has no key; then its file is marked, unless it is left.
StartByHand(f, leave) ==
    /\ leave => Leaves # {}
    /\ hand = NoHand /\ row[f].stamp # 0 /\ deeds < MaxDeeds
    /\ \E n \in 1 .. MaxDeeds :
          /\ HandRun(n) \notin DOMAIN runs
          /\ \A m \in 1 .. (n - 1) : HandRun(m) \in DOMAIN runs
          /\ runs' = [q \in DOMAIN runs \cup {HandRun(n)} |->
                         IF q \in DOMAIN runs THEN runs[q] ELSE [state |-> "live", asked |-> {}]]
          /\ hand' = IF leave THEN NoHand ELSE [run |-> HandRun(n), path |-> f]
    /\ deeds' = deeds + 1
    /\ UNCHANGED <<outside, rows, lock, pc, work, sink, mover, troubles, history>>

MarkByHand ==
    /\ hand # NoHand
    /\ SetAt(hand.path, "working", hand.run)
    /\ hand' = NoHand
    /\ UNCHANGED <<mover, deeds>>

-----------------------------------------------------------------------------
(* A crash: the rows, the runs and the disk stay; the ends not told are not told any more. *)

Crash ==
    /\ troubles < MaxTroubles
    /\ troubles' = troubles + 1
    /\ lost' = lost \cup UNION {Versions(r, sink.batch) : r \in sink.start}
    /\ torn' = IF mover.at = "moved" THEN torn \cup {row[mover.from].stamp, disk[mover.to]} ELSE torn
    /\ runs' = [r \in DOMAIN runs |->
                   IF runs[r].state = "ended" THEN [runs[r] EXCEPT !.state = "untold"] ELSE runs[r]]
    /\ lock' = "free"
    /\ pc' = [t \in Closers |-> "idle"]
    /\ seen' = [f \in Paths |-> 0] /\ todo' = {} /\ sum' = NoSum
    /\ sink' = NoSink /\ mover' = NoMove /\ hand' = NoHand
    /\ UNCHANGED <<outside, rows, deeds, told, late, given, back>>

Closing(t) ==
    \/ Close(t) \/ Mark(t) \/ SinkDone(t)
    \/ \E r \in sink.start : StartRun(t, r) \/ StartFails(t, r)

Scanning ==
    \/ Walk \/ Reconcile \/ HashList \/ HashStore \/ NotYet
    \/ \E x \in todo : HashRead(x[1], x[2])

Moving == MoveRow \/ MoveStatus \/ Removed

Next ==
    \/ \E f \in Paths : Delete(f) \/ RemoveFile(f) \/ (\E leave \in BOOLEAN : StartByHand(f, leave))
    \/ \E f \in Paths, c \in Contents \cup {none} : Write(f, c)
    \/ Scanning \/ Moving \/ MarkByHand \/ Crash
    \/ \E t \in Closers : Closing(t)
    \/ \E r \in DOMAIN runs : RunEnds(r) \/ RunEnded(r)
    \/ \E f, g \in Paths, r \in Acting \cup {NoRun}, status \in ByHand : MoveFile(f, g, r, status)
    \/ \E f \in Paths, r \in Acting \cup {NoRun}, status \in ByHand : SetStatus(f, status, r)

Spec == Init /\ [][Next]_vars

(***************************************************************************)
(* The scan goes on (its ticker), what holds the lock gives it back, the   *)
(* ends of runs are told, and a folder left alone gets quiet: a batch that *)
(* can close again and again does.  Nobody writes, moves or ends a run     *)
(* because he has to.                                                      *)
(***************************************************************************)
Fairness ==
    /\ WF_vars(Scanning)
    /\ WF_vars(Moving)
    /\ SF_vars(Close("scan"))
    /\ WF_vars(\E t \in Closers :
          Mark(t) \/ SinkDone(t) \/ (\E r \in sink.start : StartRun(t, r) \/ StartFails(t, r)))

FairSpec == Spec /\ Fairness

-----------------------------------------------------------------------------
(* Properties *)

Runs == {NoRun} \cup {InKey(f, c) : f \in Paths, c \in Contents}
            \cup {BatchKey(b) : b \in 1 .. batches} \cup {HandRun(n) : n \in 1 .. MaxDeeds}
Rows == [stamp : 0 .. clock, sha : Contents \cup {none}, status : ValidStatus, run : Runs, batch : 0 .. batches]

\* Types of the variables, and who holds the lock.
TypeOK ==
    /\ pipelines \in Projects /\ back \subseteq Stamps
    /\ clock \in 0 .. MaxWrites
    /\ disk \in [Paths -> 0 .. clock]
    /\ content \in [Stamps -> Contents \cup {none}]
    /\ row \in [Paths -> Rows]
    /\ batches \in Nat /\ open \in 0 .. batches
    /\ DOMAIN runs \subseteq Runs \ {NoRun}
    /\ \A r \in DOMAIN runs : runs[r].state \in {"live", "ended", "told", "untold"}
    /\ lock \in {"free", "scan", "sources", "mover"}
    /\ (lock = "mover") = (mover.at \in {"moved", "removed"})
    /\ \A t \in Closers : (lock = t) = (pc[t] \in {"walked", "sink"})
    /\ (sink # NoSink) = (\E t \in Closers : pc[t] = "sink")

\* A hash in a row is the hash of what the write the row knows of wrote, however files change while
\* the scan reads them without the lock; but for a version that left its path and came back to it while
\* another file was read there (hash, sum).
HashOfVersion ==
    \A f \in Paths : (row[f].sha # none) => row[f].sha = content[row[f].stamp] \/ row[f].stamp \in back

\* A file working for a run is a version that run was asked for, or one a person, a node or a start by
\* hand set working for it: while a batch is told, a changed file is not taken for the old one, and a
\* changed one is not left to its old run (closeBatches, reconcile).
AskedOf(r) == IF r \in DOMAIN runs THEN runs[r].asked ELSE {}
WorkingForItsRun ==
    \A f \in Paths :
        row[f].status = "working" => row[f].stamp \in AskedOf(row[f].run) \/ <<row[f].stamp, row[f].run>> \in given

\* A version of a file is told to the engine once, wherever it is moved and whoever closes its batch;
\* but for a move a crash cut in two (Move, closeBatches).
ToldOnce == \A s \in Stamps : told[s] > 1 => s \in torn

\* Once the end of a run is told, none of its files is working, wherever they were moved meanwhile; but
\* for the versions set working after that, late or by hand (RunEnded, startIN).
SettledOnceTold ==
    \A f \in Paths :
        (row[f].status = "working" /\ State(row[f].run) = "told") => <<row[f].stamp, row[f].run>> \in late

\* A file that stays as it is is asked of a run in the end, but for one a crash or a failed start took
\* from the engine, and as long as no file of its batch cannot be read (Scan, INBatch).
Asks(s) == \E r \in DOMAIN runs : s \in runs[r].asked
Blocked(s) ==
    \E f, g \in Paths : row[f].stamp = s /\ g \in Files(row[f].batch) /\ content[row[g].stamp] = none
EveryFileIsTaken ==
    \A s \in Stamps :
        (\E f \in Paths : disk[f] = s)
            ~> (Asks(s) \/ s \in lost \/ Blocked(s) \/ (\A f \in Paths : disk[f] # s))
=============================================================================
