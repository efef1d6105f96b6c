------------------------------ MODULE NoteWrite ------------------------------
(***************************************************************************)
(* How a note gets to disk and into the search index: the writers of the   *)
(* server (mcp/write.go, mcp/tools.go, api/v1/notes.go), the path locks    *)
(* and the load cache of the vault (vault/locks.go, cache.go, vault.go),   *)
(* and the watcher that indexes what changed (vault/watcher.go).           *)
(*                                                                         *)
(* The files are the truth and the index follows them.  A call of a client *)
(* holds the locks of the notes it writes, for as long as it takes to      *)
(* check, save, index and answer.  An editor outside the server (Obsidian, *)
(* vim) takes no lock.  Every change of a file becomes an event of the     *)
(* watcher, whose workers read the file and index it, with no lock either. *)
(***************************************************************************)
EXTENDS Integers, Sequences, FiniteSets, FiniteSetsExt, SequencesExt

CONSTANTS
    Notes,       \* the paths, numbered in the order of their names
    Clients,     \* the callers of the server's write tools, one call at a time each
    Workers,     \* the watcher's goroutines (watchWorkers)
    Free,        \* holds a lock nobody has
    Made,        \* the notes there are at the start
    Ops,         \* what clients ask for
    MaxCalls,    \* bound: calls
    MaxEdits,    \* bound: edits from outside
    MaxCrashes,  \* bound: crashes of the server
    MaxMoves     \* bound: all three together

ASSUME NotesAssumption == Notes \subseteq Nat /\ IsFiniteSet(Notes) /\ Made \subseteq Notes /\ Free \notin Clients
ASSUME OpsAssumption == Ops \subseteq {"create", "replace", "append", "delete", "rename"}
ASSUME BoundsAssumption == MaxCalls \in Nat /\ MaxEdits \in Nat /\ MaxCrashes \in Nat /\ MaxMoves \in Nat

VARIABLES
    disk,     \* disk[n]: the file of n
    index,    \* index[n]: the row of n in the index
    cache,    \* cache[n]: the entry of n in the load cache
    lock,     \* lock[n]: who holds the path lock of n
    call,     \* call[c]: the call c has in flight
    due,      \* the paths with a pending timer: an event, or the debounce after it
    queue,    \* the paths whose timer fired, oldest first
    wake,     \* whether the channel that wakes a worker holds its one token
    hand,     \* hand[w]: what worker w is doing
    server,   \* "down", "scanned": serving, the watch not started yet, "up"
    last,     \* the newest stamp given
    left,     \* the calls, edits and crashes left, and all together
    outside,  \* history: the notes whose last change came from outside
    doubt     \* history: doubt[n]: "missed", an edit before the watch began; "raced", the
              \* last event of n was not handled by one worker alone; else "none"

files == <<disk, index, cache>>
calls == <<lock, call>>
watch == <<due, queue, wake, hand>>
vars == <<disk, index, cache, lock, call, due, queue, wake, hand, server, last, left, outside, doubt>>

\* A file is the writes its text holds, and its mtime and size: the etag.
Gone == [text |-> {}, stamp |-> 0]
Stamps == 0 .. MaxCalls + MaxEdits
First == [text |-> {0}, stamp |-> 0]
File == [text : SUBSET Stamps, stamp : Stamps]
NoCall == [at |-> "idle", op |-> "none", note |-> 0, to |-> 0, etag |-> Gone, locks |-> {}, file |-> Gone]
Asleep == [at |-> "asleep", note |-> 0, file |-> Gone]

TypeOK ==
    /\ disk \in [Notes -> File] /\ index \in [Notes -> File] /\ cache \in [Notes -> File]
    /\ lock \in [Notes -> Clients \cup {Free}]
    /\ call \in [Clients -> [at : {"idle", "put", "lock", "check", "save", "saved", "index", "unindex", "done"},
                             op : Ops \cup {"none"}, note : Notes \cup {0}, to : Notes \cup {0},
                             etag : File, locks : SUBSET Notes, file : File]]
    /\ due \subseteq Notes /\ queue \in BoundedSeq(Notes, Cardinality(Notes)) /\ wake \in BOOLEAN
    /\ hand \in [Workers -> [at : {"asleep", "next", "compare", "upsert", "touch", "drop"},
                             note : Notes \cup {0}, file : File]]
    /\ server \in {"down", "scanned", "up"} /\ last \in Stamps
    /\ outside \subseteq Notes /\ doubt \in [Notes -> {"none", "missed", "raced"}]

Init ==
    /\ disk = [n \in Notes |-> IF n \in Made THEN First ELSE Gone]
    /\ index = disk /\ cache = [n \in Notes |-> Gone]
    /\ lock = [n \in Notes |-> Free]
    /\ call = [c \in Clients |-> NoCall]
    /\ due = {} /\ queue = <<>> /\ wake = FALSE /\ hand = [w \in Workers |-> Asleep]
    /\ server = "scanned" /\ last = 0
    /\ left = [calls |-> MaxCalls, edits |-> MaxEdits, crashes |-> MaxCrashes, moves |-> MaxMoves]
    /\ outside = {} /\ doubt = [n \in Notes |-> "none"]

-----------------------------------------------------------------------------
(* The vault: Load and the cache, and what a change of a file leaves.       *)

Exists(n) == disk[n] # Gone

\* loadCache.Get answers only while the file's mtime and size are those of the entry.
CacheHit(n) == Exists(n) /\ cache[n] # Gone /\ cache[n].stamp = disk[n].stamp

\* Load: stat, then the cache, then the file, which goes to the cache.
Loaded(n) == IF CacheHit(n) THEN cache[n] ELSE disk[n]
CacheAfterLoad(n) == IF Exists(n) THEN [cache EXCEPT ![n] = Loaded(n)] ELSE cache

\* The events of the notes of ns, when the watch is on.
Due(ns) == due' = IF server = "up" THEN due \cup ns ELSE due

\* writeWhole and the eviction after it, of the note n: a new file, with a stamp of its own.
Written(n, text) ==
    /\ last' = last + 1
    /\ disk' = [disk EXCEPT ![n] = [text |-> text, stamp |-> last + 1]]

-----------------------------------------------------------------------------
(* The calls of clients.                                                    *)

Idle(c) == call[c].at = "idle"
At(c, place) == call[c].at = place /\ server # "down"
Note(c) == call[c].note
Goto(c, place) == call' = [call EXCEPT ![c].at = place]

\* One more of a bounded kind.
Spend(kind) ==
    /\ left[kind] > 0 /\ left.moves > 0
    /\ left' = [left EXCEPT ![kind] = @ - 1, !.moves = @ - 1]

\* A read (memory_get, GET of a note), with no lock.  What the cache did not
\* answer goes there at its end, whatever happened to the file meanwhile.
Peek(c, n) ==
    /\ Idle(c) /\ server # "down" /\ Exists(n) /\ ~CacheHit(n)
    /\ Spend("calls")
    /\ call' = [call EXCEPT ![c].at = "put", ![c].note = n, ![c].file = disk[n]]
    /\ UNCHANGED <<files, lock, watch, server, last, outside, doubt>>

Put(c) ==
    /\ At(c, "put")
    /\ cache' = [cache EXCEPT ![Note(c)] = call[c].file]
    /\ call' = [call EXCEPT ![c] = NoCall]
    /\ UNCHANGED <<disk, index, lock, watch, server, last, left, outside, doubt>>

\* A call of a write tool, of a client that just read the note and names its
\* etag (if_match), or names none.
Ask(c, n, op, match) ==
    /\ Idle(c) /\ server # "down"
    /\ match => Exists(n) /\ op \in {"replace", "append"}
    /\ \E m \in IF op = "rename" THEN Notes \ {n} ELSE {n} :
        call' = [call EXCEPT ![c] = [at |-> "lock", op |-> op, note |-> n, to |-> m,
                                     etag |-> IF match THEN Loaded(n) ELSE Gone,
                                     locks |-> {n, m}, file |-> Gone]]
    /\ Spend("calls")
    /\ UNCHANGED <<files, lock, watch, server, last, outside, doubt>>

\* A bug: the note the call is about is locked first.
NextLockOwnFirst(c) == IF Note(c) \in call[c].locks THEN Note(c) ELSE call[c].to

\* LockPaths takes the locks in the order of the names.
NextLock(c) == Min(call[c].locks)

\* A bug: a write goes on without waiting for the lock.
LockNotWaited(c) ==
    /\ At(c, "lock")
    /\ Goto(c, "check")
    /\ UNCHANGED <<files, lock, watch, server, last, left, outside, doubt>>

Lock(c) ==
    /\ At(c, "lock")
    /\ LET n == NextLock(c) IN
        /\ lock[n] = Free
        /\ lock' = [lock EXCEPT ![n] = c]
        /\ call' = [call EXCEPT ![c].locks = @ \ {n},
                                ![c].at = IF call[c].locks = {n} THEN "check" ELSE "lock"]
    /\ UNCHANGED <<files, watch, server, last, left, outside, doubt>>

\* The locks go with the end of the call, however it ends.
End(c) ==
    /\ call' = [call EXCEPT ![c] = NoCall]
    /\ lock' = [n \in Notes |-> IF lock[n] = c THEN Free ELSE lock[n]]

\* The mode of the write, then its if_match, against the note as Load finds it.
Accepted(c) ==
    /\ call[c].op = "create" => ~Exists(Note(c))
    /\ call[c].op \in {"replace", "delete", "rename"} => Exists(Note(c))
    /\ call[c].op = "rename" => ~Exists(call[c].to)
    /\ call[c].etag # Gone => Exists(Note(c)) /\ Loaded(Note(c)).stamp = call[c].etag.stamp

Check(c) ==
    /\ At(c, "check")
    /\ cache' = IF call[c].op = "rename" THEN cache ELSE CacheAfterLoad(Note(c))
    /\ IF Accepted(c)
       THEN /\ call' = [call EXCEPT ![c].at = "save", ![c].file = Loaded(Note(c))]
            /\ UNCHANGED lock
       ELSE End(c)
    /\ UNCHANGED <<disk, index, watch, server, last, left, outside, doubt>>

\* saveAndIndex, its first half: the content made from the note that was loaded.
Save(c) ==
    /\ At(c, "save") /\ call[c].op \in {"create", "replace", "append"}
    /\ LET n == Note(c)
           kept == IF call[c].op = "append" THEN call[c].file.text ELSE {} IN
        /\ Written(n, kept \cup {last + 1})
        /\ cache' = [cache EXCEPT ![n] = Gone]
        /\ outside' = outside \ {n}
        /\ Due({n})
    /\ Goto(c, "saved")
    /\ UNCHANGED <<index, lock, queue, wake, hand, server, left, doubt>>

\* A delete or a rename of the file; it fails when the file is gone by then.
RemoveFile(c) ==
    /\ At(c, "save") /\ call[c].op \in {"delete", "rename"}
    /\ LET n == Note(c)
           m == call[c].to IN
        IF Exists(n)
        THEN /\ disk' = IF call[c].op = "rename" THEN [disk EXCEPT ![n] = Gone, ![m] = disk[n]]
                        ELSE [disk EXCEPT ![n] = Gone]
             /\ cache' = IF call[c].op = "rename" THEN cache ELSE [cache EXCEPT ![n] = Gone]
             /\ outside' = outside \ {n, m}
             /\ Due({n, m})
             /\ Goto(c, "unindex")
             /\ UNCHANGED lock
        ELSE /\ End(c)
             /\ UNCHANGED <<disk, cache, outside, due>>
    /\ UNCHANGED <<index, queue, wake, hand, server, last, left, doubt>>

Unindex(c) ==
    /\ At(c, "unindex")
    /\ index' = [index EXCEPT ![Note(c)] = Gone]
    /\ call' = [call EXCEPT ![c].at = IF call[c].op = "rename" THEN "saved" ELSE "done",
                            ![c].note = call[c].to]
    /\ UNCHANGED <<disk, cache, lock, watch, server, last, left, outside, doubt>>

\* saveAndIndex, its second half: what is indexed is what Load reads now.
Reload(c) ==
    /\ At(c, "saved")
    /\ cache' = CacheAfterLoad(Note(c))
    /\ IF Exists(Note(c))
       THEN /\ call' = [call EXCEPT ![c].at = "index", ![c].file = Loaded(Note(c))]
            /\ UNCHANGED lock
       ELSE End(c)
    /\ UNCHANGED <<disk, index, watch, server, last, left, outside, doubt>>

Index(c) ==
    /\ At(c, "index")
    /\ index' = [index EXCEPT ![Note(c)] = call[c].file]
    /\ Goto(c, "done")
    /\ UNCHANGED <<disk, cache, lock, watch, server, last, left, outside, doubt>>

\* The answer of the call, with the etag the note has now, and the event of the change.
Done(c) ==
    /\ At(c, "done")
    /\ cache' = CacheAfterLoad(Note(c))
    /\ End(c)
    /\ UNCHANGED <<disk, index, watch, server, last, left, outside, doubt>>

-----------------------------------------------------------------------------
(* The editor outside, the boot and the crash.                              *)

\* A file written, made or removed outside the server.  Between the scan and
\* the start of the watch nobody is told.
Edit(n) ==
    /\ Spend("edits")
    /\ \/ Written(n, {last + 1})
       \/ Exists(n) /\ disk' = [disk EXCEPT ![n] = Gone] /\ UNCHANGED last
    /\ outside' = outside \cup {n}
    /\ doubt' = IF server = "scanned" THEN [doubt EXCEPT ![n] = "missed"] ELSE doubt
    /\ Due({n})
    /\ UNCHANGED <<index, cache, calls, queue, wake, hand, server>>

\* Vault.Scan at the boot: the rows of the files, and of no others.
Scan ==
    /\ server = "down"
    /\ index' = disk /\ server' = "scanned" /\ doubt' = [n \in Notes |-> "none"]
    /\ UNCHANGED <<disk, cache, calls, watch, last, left, outside>>

\* The watch starts in a goroutine of its own; calls are served meanwhile.
StartWatch ==
    /\ server = "scanned"
    /\ server' = "up"
    /\ UNCHANGED <<files, calls, watch, last, left, outside, doubt>>

\* Only the files and the index outlive the server.
Crash ==
    /\ server # "down" /\ Spend("crashes")
    /\ server' = "down"
    /\ cache' = [n \in Notes |-> Gone] /\ lock' = [n \in Notes |-> Free]
    /\ call' = [c \in Clients |-> NoCall]
    /\ due' = {} /\ queue' = <<>> /\ wake' = FALSE /\ hand' = [w \in Workers |-> Asleep]
    /\ UNCHANGED <<disk, index, last, outside, doubt>>

-----------------------------------------------------------------------------
(* The watcher.                                                             *)

Queued(n) == n \in ToSet(queue)
Handling(w, n) == hand[w].note = n /\ hand[w].at \notin {"asleep", "next"}
\* c has read n, or removed it, and its index step is still to come.
Indexing(c, n) == (call[c].at = "index" /\ Note(c) = n)
                  \/ (call[c].at = "unindex" /\ n \in {Note(c), call[c].to})

\* A bug: a path is queued again while it waits in the queue.
FireTwice(n) ==
    /\ n \in due
    /\ due' = due \ {n} /\ queue' = Append(queue, n) /\ wake' = TRUE
    /\ UNCHANGED <<files, calls, hand, server, last, left, outside, doubt>>

\* A bug: the token is sent only when the queue was not empty before.
FireUnsignalled(n) ==
    /\ n \in due
    /\ due' = due \ {n}
    /\ queue' = IF Queued(n) THEN queue ELSE Append(queue, n)
    /\ wake' = (wake \/ queue # <<>>)
    /\ UNCHANGED <<files, calls, hand, server, last, left, outside, doubt>>

\* A timer fires: its path is queued, once, and a worker woken.
Fire(n) ==
    /\ n \in due
    /\ due' = due \ {n}
    /\ queue' = IF Queued(n) THEN queue ELSE Append(queue, n)
    /\ wake' = TRUE
    /\ UNCHANGED <<files, calls, hand, server, last, left, outside, doubt>>

Wake(w) ==
    /\ hand[w].at = "asleep" /\ wake
    /\ wake' = FALSE
    /\ hand' = [hand EXCEPT ![w].at = "next"]
    /\ UNCHANGED <<files, calls, due, queue, server, last, left, outside, doubt>>

\* next: the oldest path, its queued mark dropped; another worker is woken
\* while paths are left; an empty queue sends the worker back to sleep.  Then
\* handle reads the file, with no lock and past the cache.
Pop(w) ==
    /\ hand[w].at = "next"
    /\ IF queue = <<>>
       THEN /\ hand' = [hand EXCEPT ![w] = Asleep]
            /\ UNCHANGED <<queue, wake, doubt>>
       ELSE LET n == Head(queue)
                alone == ~(\E v \in Workers \ {w} : Handling(v, n)) /\ ~(\E c \in Clients : Indexing(c, n)) IN
            /\ hand' = [hand EXCEPT ![w] = [at |-> IF Exists(n) THEN "compare" ELSE "drop",
                                            note |-> n, file |-> disk[n]]]
            /\ queue' = Tail(queue)
            /\ wake' = (wake \/ Len(queue) > 1)
            /\ doubt' = [doubt EXCEPT ![n] = IF alone THEN "none" ELSE "raced"]
    /\ UNCHANGED <<files, calls, due, server, last, left, outside>>

\* A bug: a note that is in the index is taken for indexed.
CompareAnyRow(w) ==
    /\ hand[w].at = "compare"
    /\ hand' = [hand EXCEPT ![w].at = IF index[hand[w].note] = Gone THEN "upsert" ELSE "next"]
    /\ UNCHANGED <<files, calls, due, queue, wake, server, last, left, outside, doubt>>

\* StampOf and Holds: the same content needs at most its new mtime and size.
Compare(w) ==
    /\ hand[w].at = "compare"
    /\ LET row == index[hand[w].note]
           place == IF row.text # hand[w].file.text THEN "upsert"
                    ELSE IF row.stamp # hand[w].file.stamp THEN "touch" ELSE "next" IN
        hand' = [hand EXCEPT ![w].at = place]
    /\ UNCHANGED <<files, calls, due, queue, wake, server, last, left, outside, doubt>>

\* Upsert, Touch (of a row that may be gone by now) or Delete, then the next path.
Settle(w) ==
    /\ hand[w].at \in {"upsert", "touch", "drop"}
    /\ LET n == hand[w].note
           touched == IF index[n] = Gone THEN Gone ELSE [index[n] EXCEPT !.stamp = hand[w].file.stamp]
           row == CASE hand[w].at = "upsert" -> hand[w].file
                    [] hand[w].at = "touch" -> touched
                    [] hand[w].at = "drop" -> Gone IN
        index' = [index EXCEPT ![n] = row]
    /\ hand' = [hand EXCEPT ![w] = [Asleep EXCEPT !.at = "next"]]
    /\ UNCHANGED <<disk, cache, calls, due, queue, wake, server, last, left, outside, doubt>>

-----------------------------------------------------------------------------
Step(c) ==
    \/ Put(c) \/ Lock(c) \/ Check(c) \/ Save(c) \/ RemoveFile(c) \/ Unindex(c)
    \/ Reload(c) \/ Index(c) \/ Done(c)

Work(w) == Wake(w) \/ Pop(w) \/ Compare(w) \/ Settle(w)

Next ==
    \/ \E c \in Clients : Step(c)
    \/ \E c \in Clients, n \in Notes : Peek(c, n)
    \/ \E c \in Clients, n \in Notes, op \in Ops, match \in BOOLEAN : Ask(c, n, op, match)
    \/ \E n \in Notes : Edit(n) \/ Fire(n)
    \/ \E w \in Workers : Work(w)
    \/ Scan \/ StartWatch \/ Crash

Spec == Init /\ [][Next]_vars

-----------------------------------------------------------------------------
(* Properties.                                                              *)

\* Between the check of a write and its save nobody else of the server changed
\* the note: what an append keeps is what the note holds, a note made new was
\* not there, a write with an etag replaces the text its caller read, and a
\* rename lands on no note.
\* About the path lock and the precondition check (mcp/write.go writeNote); an
\* editor outside takes no lock and is left out (docs/vault/obsidian-compat.md).
NoLostUpdate ==
    \A c \in Clients : call[c].at = "save" /\ Note(c) \notin outside =>
        /\ disk[Note(c)] = call[c].file
        /\ call[c].etag # Gone => disk[Note(c)].text = call[c].etag.text
        /\ call[c].op = "rename" /\ call[c].to \notin outside => ~Exists(call[c].to)

\* Nothing is left to do about n.
AtRest(n) ==
    /\ server = "up" /\ n \notin due /\ ~Queued(n)
    /\ \A w \in Workers : ~Handling(w, n)
    /\ \A c \in Clients : call[c].at \in {"unindex", "saved", "index"} => n \notin {Note(c), call[c].to}

\* With nothing left to do, the index holds the note as it is on disk, when its
\* last event was handled by one worker, alone, and with no call about to index
\* what it had read before.  About the order of save, event, read and upsert,
\* and of crash and scan (watcher.go handle, saveAndIndex, Scan).
SettledIndex == \A n \in Notes : AtRest(n) /\ doubt[n] = "none" => index[n] = disk[n]

\* A queued path will be handled: never are all workers asleep with no token to
\* wake one.  About the one token of wake, sent when a timer queues a path and
\* when next leaves some (watcher.go schedule, next).
QueueIsServed == queue # <<>> => wake \/ \E w \in Workers : hand[w].at # "asleep"

\* Of the calls in flight one can go on: they never all wait for each other's
\* locks, nor for one a call left behind.  About LockPaths, and the unlock of
\* every way out of a handler.
Waits(c) == call[c].at = "lock" /\ lock[NextLock(c)] # Free
CallsGoOn == (\E c \in Clients : ~Idle(c)) => \E c \in Clients : ~Idle(c) /\ ~Waits(c)
=============================================================================
