-------------------------- MODULE NoteWrite_proofs --------------------------
(***************************************************************************)
(* Proofs about NoteWrite, for every set of notes, of clients and workers, *)
(* and any number of calls, edits and crashes.                             *)
(*                                                                         *)
(* A write loses no update because its client holds the locks of its notes *)
(* from the check on (LockInv), and because a stamp stands for one text    *)
(* wherever the vault keeps it (FileInv).  The calls do not wait for each  *)
(* other because each takes its locks in the order of the names: whoever   *)
(* holds the greatest of the notes waited for waits for a greater one.     *)
(*                                                                         *)
(* The index follows the files although nothing keeps a worker of the      *)
(* watcher and a call of a client apart: every change of a file leaves an  *)
(* event behind it, an event has the file read anew, and whoever writes    *)
(* the row after the last event has read the file as it is (SureInv).      *)
(*                                                                         *)
(* The types hold within the bounds because a call takes at most one stamp *)
(* (StampsInv) and no path is queued twice (WatchInv).                     *)
(***************************************************************************)
EXTENDS NoteWrite, FiniteSetTheorems, WellFoundedInduction, TLAPS

AnyFile == [text : SUBSET Nat, stamp : Nat]
Places == {"idle", "put", "lock", "check", "save", "saved", "index", "unindex", "done"}
Hands == {"asleep", "next", "compare", "upsert", "touch", "drop"}

CallT == [at : Places, op : Ops \cup {"none"}, note : Nat, to : Nat,
          etag : AnyFile, locks : SUBSET Notes, file : AnyFile]
HandT == [at : Hands, note : Nat, file : AnyFile]

\* The types, but for the bounds of the counters.
Types ==
    /\ disk \in [Notes -> AnyFile] /\ cache \in [Notes -> AnyFile]
    /\ lock \in [Notes -> Clients \cup {Free}]
    /\ call \in [Clients -> CallT]
    /\ queue \in Seq(Notes)
    /\ hand \in [Workers -> HandT]
    /\ last \in Nat /\ outside \subseteq Notes

\* The places of a call that has all its locks.
Inside == Places \ {"idle", "put", "lock"}

\* Who holds which lock: a call that is at its locks those it does not wait for any more, the
\* least ones, and a call past them all of them.
LockInv ==
    /\ \A c \in Clients :
          /\ call[c].at = "put" => call[c].note \in Notes
          /\ call[c].at \in Inside \cup {"lock"} =>
                call[c].note \in Notes /\ call[c].to \in Notes /\ call[c].op \in Ops
          /\ call[c].at = "lock" =>
                /\ call[c].locks # {} /\ call[c].locks \subseteq {call[c].note, call[c].to}
                /\ \A n \in {call[c].note, call[c].to} \ call[c].locks :
                      lock[n] = c /\ \A m \in call[c].locks : n < m
          /\ call[c].at \in Inside => lock[call[c].note] = c /\ lock[call[c].to] = c
    /\ \A n \in Notes : lock[n] \in Clients =>
          /\ call[lock[n]].at \in Inside \cup {"lock"}
          /\ call[lock[n]].at = "lock" =>
                n \in {call[lock[n]].note, call[lock[n]].to} \ call[lock[n]].locks

\* The files the vault and the calls keep.
Copies ==
    {disk[n] : n \in Notes} \cup {cache[n] : n \in Notes}
        \cup {call[c].etag : c \in Clients} \cup {call[c].file : c \in Clients}

\* A stamp stands for one text.
FileInv ==
    /\ \A f \in Copies : f.stamp <= last
    /\ \A f, g \in Copies \ {Gone} : f.stamp = g.stamp => f = g

Inv == Types /\ LockInv /\ FileInv /\ NoLostUpdate

-----------------------------------------------------------------------------
(* The files *)

LEMMA GoneIsAFile == Gone \in AnyFile /\ Gone.stamp = 0 /\ First \in AnyFile /\ First.stamp = 0
BY DEF Gone, First, AnyFile

\* What Load gives is what the disk has.
LEMMA LoadedIsDisk ==
    ASSUME Types, FileInv, NEW n \in Notes
    PROVE  Loaded(n) = disk[n]
BY DEF Loaded, CacheHit, Exists, Types, FileInv, Copies

LEMMA CacheLoaded ==
    ASSUME Types, FileInv, NEW n \in Notes
    PROVE  CacheAfterLoad(n) \in {cache, [cache EXCEPT ![n] = disk[n]]}
BY LoadedIsDisk DEF CacheAfterLoad

LEMMA CacheTyped ==
    ASSUME Types, FileInv, NEW n \in Notes
    PROVE  CacheAfterLoad(n) \in [Notes -> AnyFile]
<1>1. disk[n] \in AnyFile /\ cache \in [Notes -> AnyFile]
  BY DEF Types
<1> QED BY <1>1, CacheLoaded

\* Copying a file, forgetting one or writing a new one keeps the stamps apart.
LEMMA FileKept ==
    ASSUME FileInv, last \in Nat, last' \in Nat, last <= last', NEW f \in AnyFile, f.stamp = last', last < last',
           Copies \subseteq AnyFile,
           Copies' \subseteq Copies \cup {Gone, f}
    PROVE  FileInv'
<1>1. \A g \in Copies' : g \in Copies \/ g = Gone \/ g = f
  OBVIOUS
<1>2. \A g \in Copies : g.stamp \in Nat
  BY DEF AnyFile
<1> QED BY <1>1, <1>2, GoneIsAFile DEF FileInv

LEMMA FileCopied ==
    ASSUME FileInv, last \in Nat, UNCHANGED last, Copies' \subseteq Copies \cup {Gone}
    PROVE  FileInv'
BY GoneIsAFile DEF FileInv

LEMMA CopiesAreFiles == ASSUME Types PROVE Copies \subseteq AnyFile
BY DEF Types, Copies, CallT

LEMMA IsCopy ==
    ASSUME Types
    PROVE  /\ \A n \in Notes : disk[n] \in Copies /\ cache[n] \in Copies
           /\ \A c \in Clients : call[c].etag \in Copies /\ call[c].file \in Copies
BY DEF Copies

-----------------------------------------------------------------------------
(* What a step makes of its call *)

\* The call of c, and no other, becomes k.
Goes(c, k) == k \in CallT /\ call' = [call EXCEPT ![c] = k]

LEMMA OnlyItsCall ==
    ASSUME Types, NEW c \in Clients, NEW k, Goes(c, k)
    PROVE  /\ call' \in [Clients -> CallT] /\ call'[c] = k
           /\ \A d \in Clients \ {c} : call'[d] = call[d]
BY DEF Types, Goes

LEMMA NoCallIsACall == NoCall \in CallT
BY GoneIsAFile DEF NoCall, CallT, Places

LEMMA CallFields ==
    ASSUME Types, NEW c \in Clients
    PROVE  /\ call[c] \in CallT /\ call \in [Clients -> CallT]
           /\ call[c].note \in Nat /\ call[c].to \in Nat
           /\ call[c].etag \in AnyFile /\ call[c].file \in AnyFile
BY DEF Types, CallT

LEMMA PeekGoes ==
    ASSUME Types, NEW c \in Clients, NEW n \in Notes, Peek(c, n)
    PROVE  Goes(c, [call[c] EXCEPT !.at = "put", !.note = n, !.file = disk[n]])
<1>1. disk[n] \in AnyFile /\ n \in Nat
  BY NotesAssumption DEF Types
<1> QED BY <1>1, CallFields DEF Peek, Goes, CallT, Places

LEMMA AskGoes ==
    ASSUME Inv, NEW c \in Clients, NEW n \in Notes, NEW op \in Ops, NEW match \in BOOLEAN, Ask(c, n, op, match)
    PROVE  \E m \in Notes, e \in {Gone, disk[n]} :
              /\ Goes(c, [at |-> "lock", op |-> op, note |-> n, to |-> m, etag |-> e, locks |-> {n, m}, file |-> Gone])
              /\ op # "rename" => m = n
<1>1. PICK m \in Notes :
        /\ call' = [call EXCEPT ![c] = [at |-> "lock", op |-> op, note |-> n, to |-> m,
                                        etag |-> IF match THEN Loaded(n) ELSE Gone,
                                        locks |-> {n, m}, file |-> Gone]]
        /\ op # "rename" => m = n
  BY DEF Ask
<1> DEFINE e == IF match THEN Loaded(n) ELSE Gone
<1>2. e \in {Gone, disk[n]}
  BY LoadedIsDisk DEF Inv
<1>3. e \in AnyFile
  BY <1>2, GoneIsAFile DEF Inv, Types
<1>4. [at |-> "lock", op |-> op, note |-> n, to |-> m, etag |-> e, locks |-> {n, m}, file |-> Gone] \in CallT
  BY <1>3, GoneIsAFile, NotesAssumption DEF CallT, Places
<1> QED BY <1>1, <1>2, <1>4 DEF Goes

LEMMA LockGoes ==
    ASSUME Types, NEW c \in Clients, Lock(c)
    PROVE  Goes(c, [call[c] EXCEPT !.locks = @ \ {NextLock(c)},
                                   !.at = IF call[c].locks = {NextLock(c)} THEN "check" ELSE "lock"])
BY CallFields DEF Lock, Goes, CallT, Places

LEMMA CheckGoes ==
    ASSUME Inv, NEW c \in Clients, Check(c), call[c].note \in Notes
    PROVE  \/ End(c) /\ Goes(c, NoCall)
           \/ /\ Accepted(c) /\ UNCHANGED lock
              /\ Goes(c, [call[c] EXCEPT !.at = "save", !.file = disk[call[c].note]])
<1>1. Loaded(Note(c)) = disk[call[c].note] /\ disk[call[c].note] \in AnyFile
  BY LoadedIsDisk DEF Inv, Types, Note
<1>2. CASE Accepted(c)
  <2>1. UNCHANGED lock /\ call' = [call EXCEPT ![c].at = "save", ![c].file = disk[call[c].note]]
    BY <1>1, <1>2 DEF Check
  <2>2. [call[c] EXCEPT !.at = "save", !.file = disk[call[c].note]] \in CallT
    <3>1. call[c] \in CallT /\ disk[call[c].note] \in AnyFile
      BY <1>1, CallFields DEF Inv
    <3> QED BY ONLY <3>1 DEF CallT, Places
  <2>3. call' = [call EXCEPT ![c] = [call[c] EXCEPT !.at = "save", !.file = disk[call[c].note]]]
    BY <2>1, CallFields DEF Inv
  <2> QED BY <1>2, <2>1, <2>2, <2>3 DEF Goes
<1>3. CASE ~Accepted(c)
  BY <1>3, NoCallIsACall DEF Check, End, Goes
<1> QED BY <1>2, <1>3

LEMMA SaveGoes ==
    ASSUME Types, NEW c \in Clients, Save(c)
    PROVE  Goes(c, [call[c] EXCEPT !.at = "saved"])
BY CallFields DEF Save, Goto, Goes, CallT, Places

LEMMA RemoveGoes ==
    ASSUME Types, NEW c \in Clients, RemoveFile(c)
    PROVE  \/ End(c) /\ Goes(c, NoCall) /\ UNCHANGED <<disk, cache, outside>>
           \/ Exists(call[c].note) /\ UNCHANGED lock /\ Goes(c, [call[c] EXCEPT !.at = "unindex"])
<1>1. CASE Exists(Note(c))
  BY <1>1, CallFields DEF RemoveFile, Goto, Goes, CallT, Places, Note
<1>2. CASE ~Exists(Note(c))
  BY <1>2, NoCallIsACall DEF RemoveFile, End, Goes
<1> QED BY <1>1, <1>2

LEMMA UnindexGoes ==
    ASSUME Types, NEW c \in Clients, Unindex(c)
    PROVE  \E a \in {"saved", "done"} : Goes(c, [call[c] EXCEPT !.at = a, !.note = call[c].to])
<1> DEFINE a == IF call[c].op = "rename" THEN "saved" ELSE "done"
<1>1. Goes(c, [call[c] EXCEPT !.at = a, !.note = call[c].to])
  BY CallFields DEF Unindex, Goes, CallT, Places
<1> QED BY <1>1

LEMMA ReloadGoes ==
    ASSUME Inv, NEW c \in Clients, Reload(c), call[c].note \in Notes
    PROVE  \/ End(c) /\ Goes(c, NoCall)
           \/ UNCHANGED lock /\ Goes(c, [call[c] EXCEPT !.at = "index", !.file = disk[call[c].note]])
<1>1. Loaded(Note(c)) = disk[call[c].note] /\ disk[call[c].note] \in AnyFile
  BY LoadedIsDisk DEF Inv, Types, Note
<1>2. CASE Exists(Note(c))
  <2>1. UNCHANGED lock /\ call' = [call EXCEPT ![c].at = "index", ![c].file = disk[call[c].note]]
    BY <1>1, <1>2 DEF Reload
  <2>2. [call[c] EXCEPT !.at = "index", !.file = disk[call[c].note]] \in CallT
    BY <1>1, CallFields DEF Inv, CallT, Places
  <2>3. call' = [call EXCEPT ![c] = [call[c] EXCEPT !.at = "index", !.file = disk[call[c].note]]]
    BY <2>1, CallFields DEF Inv
  <2> QED BY <2>1, <2>2, <2>3 DEF Goes
<1>3. CASE ~Exists(Note(c))
  BY <1>3, NoCallIsACall DEF Reload, End, Goes
<1> QED BY <1>2, <1>3

LEMMA IndexGoes ==
    ASSUME Types, NEW c \in Clients, Index(c)
    PROVE  Goes(c, [call[c] EXCEPT !.at = "done"])
BY CallFields DEF Index, Goto, Goes, CallT, Places

LEMMA EndGoes ==
    ASSUME NEW c \in Clients, End(c)
    PROVE  Goes(c, NoCall)
BY NoCallIsACall DEF End, Goes

-----------------------------------------------------------------------------
(* The steps *)

LEMMA InitInv == Init => Inv
<1> SUFFICES ASSUME Init PROVE Inv
  OBVIOUS
<1>1. Types
  BY GoneIsAFile, NotesAssumption DEF Init, Types, CallT, HandT, NoCall, Asleep, Places, Hands
<1>2. LockInv /\ NoLostUpdate
  BY NotesAssumption DEF Init, LockInv, NoLostUpdate, NoCall, Inside, Places
<1>3. FileInv
  <2>1. \A f \in Copies : f = Gone \/ f = First
    BY DEF Init, Copies, NoCall
  <2> QED BY <2>1, GoneIsAFile DEF FileInv, Init
<1> QED BY <1>1, <1>2, <1>3 DEF Inv

-----------------------------------------------------------------------------
(* The locks *)

\* Another call that has its locks keeps them, when the step leaves it and its locks alone.
LEMMA LockLeft ==
    ASSUME Types, LockInv, NEW c \in Clients, NEW k, Goes(c, k), UNCHANGED lock,
           call[c].at \in Inside, k.at \in Inside, k.op = call[c].op, k.to = call[c].to,
           k.note \in {call[c].note, call[c].to}
    PROVE  LockInv'
<1>1. call'[c] = k /\ \A d \in Clients \ {c} : call'[d] = call[d]
  BY OnlyItsCall
<1> QED BY <1>1 DEF LockInv, Inside, Places

\* The end of a call gives back its locks and no other.
LEMMA LockEnded ==
    ASSUME Types, LockInv, NEW c \in Clients, End(c)
    PROVE  LockInv' /\ lock' \in [Notes -> Clients \cup {Free}]
<1>1. call'[c] = NoCall /\ \A d \in Clients \ {c} : call'[d] = call[d]
  BY OnlyItsCall, EndGoes
<1>2. /\ \A n \in Notes : lock'[n] \in Clients => lock'[n] = lock[n] /\ lock'[n] # c
      /\ \A n \in Notes : lock[n] \in Clients \ {c} => lock'[n] = lock[n]
      /\ lock' \in [Notes -> Clients \cup {Free}]
  BY NotesAssumption DEF End, Types
<1>3. NoCall.at = "idle"
  BY DEF NoCall
<1> QED BY <1>1, <1>2, <1>3 DEF LockInv, Inside, Places

\* The next lock of a call is the least of those it is still to take.
LEMMA NextLockLeast ==
    ASSUME Inv, NEW c \in Clients, call[c].at = "lock"
    PROVE  /\ NextLock(c) \in call[c].locks /\ NextLock(c) \in Notes
           /\ \A m \in call[c].locks : NextLock(c) <= m
<1>1. /\ call[c].locks # {} /\ call[c].locks \subseteq {call[c].note, call[c].to}
      /\ call[c].note \in Notes /\ call[c].to \in Notes
  BY DEF Inv, LockInv
<1>2. call[c].note \in Nat /\ call[c].to \in Nat
  BY <1>1, NotesAssumption
<1>3. \E n \in call[c].locks : \A m \in call[c].locks : n <= m
  BY <1>1, <1>2
<1> QED BY <1>1, <1>3 DEF NextLock, Min

\* Every step keeps the types.
LEMMA TypeStep ==
    ASSUME Inv, [Next]_vars
    PROVE  Types'
<1>1. ASSUME NEW c \in Clients, NEW n \in Notes, Peek(c, n) PROVE Types'
  <2>1. call' \in [Clients -> CallT]
    BY <1>1, PeekGoes, OnlyItsCall DEF Inv
  <2> QED BY <1>1, <2>1 DEF Peek, Inv, Types, files, watch
<1>2. ASSUME NEW c \in Clients, Put(c) PROVE Types'
  <2>1. Goes(c, NoCall) /\ call[c].file \in AnyFile
    BY <1>2, NoCallIsACall, CallFields DEF Put, Goes, Inv
  <2>2. call' \in [Clients -> CallT]
    BY <2>1, OnlyItsCall DEF Inv
  <2> QED BY <1>2, <2>1, <2>2 DEF Put, Note, Inv, Types, files, watch
<1>3. ASSUME NEW c \in Clients, NEW n \in Notes, NEW op \in Ops, NEW match \in BOOLEAN, Ask(c, n, op, match)
      PROVE  Types'
  <2>1. PICK m \in Notes, e \in {Gone, disk[n]} :
          Goes(c, [at |-> "lock", op |-> op, note |-> n, to |-> m, etag |-> e, locks |-> {n, m}, file |-> Gone])
    BY <1>3, AskGoes
  <2>2. call' \in [Clients -> CallT]
    BY <2>1, OnlyItsCall DEF Inv
  <2> QED BY <1>3, <2>2 DEF Ask, Inv, Types, files, watch
<1>4. ASSUME NEW c \in Clients, Lock(c) PROVE Types'
  <2>1. call' \in [Clients -> CallT]
    BY <1>4, LockGoes, OnlyItsCall DEF Inv
  <2> QED BY <1>4, <2>1 DEF Lock, Inv, Types, files, watch
<1>5. ASSUME NEW c \in Clients, Check(c) PROVE Types'
  <2>1. call[c].at \in Inside /\ call[c].note \in Notes /\ call[c].to \in Notes
    BY <1>5 DEF Check, At, Inv, LockInv, Inside, Places
  <2>2. call' \in [Clients -> CallT] /\ lock' \in [Notes -> Clients \cup {Free}]
    BY <1>5, <2>1, CheckGoes, OnlyItsCall, LockEnded DEF Inv, Types
  <2>3. cache' \in [Notes -> AnyFile]
    <3>1. cache' = cache \/ cache' = CacheAfterLoad(call[c].note)
      BY <1>5 DEF Check, Note
    <3>2. cache \in [Notes -> AnyFile] /\ CacheAfterLoad(call[c].note) \in [Notes -> AnyFile]
      BY <2>1, CacheTyped DEF Inv, Types
    <3> QED BY <3>1, <3>2
  <2> QED BY <1>5, <2>2, <2>3 DEF Check, Inv, Types, watch
<1>6. ASSUME NEW c \in Clients, Save(c) PROVE Types'
  <2>1. call[c].at \in Inside /\ call[c].note \in Notes /\ call[c].to \in Notes
    BY <1>6 DEF Save, At, Inv, LockInv, Inside, Places
  <2>2. call' \in [Clients -> CallT]
    BY <1>6, SaveGoes, OnlyItsCall DEF Inv
  <2>3. disk' \in [Notes -> AnyFile] /\ last' \in Nat
    <3> DEFINE kept == IF call[c].op = "append" THEN call[c].file.text ELSE {}
    <3>1. kept \subseteq Nat /\ last + 1 \in Nat
      BY CallFields DEF Inv, Types, AnyFile
    <3>2. disk' = [disk EXCEPT ![call[c].note] = [text |-> kept \cup {last + 1}, stamp |-> last + 1]]
          /\ last' = last + 1
      BY <1>6 DEF Save, Written, Note
    <3>3. [text |-> kept \cup {last + 1}, stamp |-> last + 1] \in AnyFile
      BY <3>1 DEF AnyFile
    <3> QED BY <3>1, <3>2, <3>3 DEF Inv, Types
  <2> QED BY <1>6, <2>1, <2>2, <2>3, GoneIsAFile DEF Save, Note, Inv, Types
<1>7. ASSUME NEW c \in Clients, RemoveFile(c) PROVE Types'
  <2>1. call[c].at \in Inside /\ call[c].note \in Notes /\ call[c].to \in Notes
    BY <1>7 DEF RemoveFile, At, Inv, LockInv, Inside, Places
  <2>2. call' \in [Clients -> CallT] /\ lock' \in [Notes -> Clients \cup {Free}]
    BY <1>7, RemoveGoes, OnlyItsCall, LockEnded DEF Inv, Types
  <2>3. disk' \in [Notes -> AnyFile] /\ cache' \in [Notes -> AnyFile] /\ outside' \subseteq Notes
    BY <1>7, <2>1, GoneIsAFile DEF RemoveFile, Note, Inv, Types
  <2> QED BY <1>7, <2>2, <2>3 DEF RemoveFile, Inv, Types
<1>8. ASSUME NEW c \in Clients, Unindex(c) PROVE Types'
  <2>1. call' \in [Clients -> CallT]
    BY <1>8, UnindexGoes, OnlyItsCall DEF Inv
  <2> QED BY <1>8, <2>1 DEF Unindex, Inv, Types, files, watch
<1>9. ASSUME NEW c \in Clients, Reload(c) PROVE Types'
  <2>1. call[c].at \in Inside /\ call[c].note \in Notes /\ call[c].to \in Notes
    BY <1>9 DEF Reload, At, Inv, LockInv, Inside, Places
  <2>2. call' \in [Clients -> CallT] /\ lock' \in [Notes -> Clients \cup {Free}]
    BY <1>9, <2>1, ReloadGoes, OnlyItsCall, LockEnded DEF Inv, Types
  <2>3. cache' \in [Notes -> AnyFile]
    <3>1. cache' = cache \/ cache' = CacheAfterLoad(call[c].note)
      BY <1>9 DEF Reload, Note
    <3>2. cache \in [Notes -> AnyFile] /\ CacheAfterLoad(call[c].note) \in [Notes -> AnyFile]
      BY <2>1, CacheTyped DEF Inv, Types
    <3> QED BY <3>1, <3>2
  <2> QED BY <1>9, <2>2, <2>3 DEF Reload, Inv, Types, watch
<1>10. ASSUME NEW c \in Clients, Index(c) PROVE Types'
  <2>1. call' \in [Clients -> CallT]
    BY <1>10, IndexGoes, OnlyItsCall DEF Inv
  <2> QED BY <1>10, <2>1 DEF Index, Inv, Types, files, watch
<1>11. ASSUME NEW c \in Clients, Done(c) PROVE Types'
  <2>1. call[c].at \in Inside /\ call[c].note \in Notes /\ call[c].to \in Notes
    BY <1>11 DEF Done, At, Inv, LockInv, Inside, Places
  <2>2. call' \in [Clients -> CallT] /\ lock' \in [Notes -> Clients \cup {Free}]
    BY <1>11, EndGoes, OnlyItsCall, LockEnded DEF Done, Inv, Types
  <2>3. cache' \in [Notes -> AnyFile]
    <3>1. cache' = cache \/ cache' = CacheAfterLoad(call[c].note)
      BY <1>11 DEF Done, Note
    <3>2. cache \in [Notes -> AnyFile] /\ CacheAfterLoad(call[c].note) \in [Notes -> AnyFile]
      BY <2>1, CacheTyped DEF Inv, Types
    <3> QED BY <3>1, <3>2
  <2> QED BY <1>11, <2>2, <2>3 DEF Done, Inv, Types, watch
<1>12. ASSUME NEW n \in Notes, Edit(n) PROVE Types'
  <2>1. last + 1 \in Nat /\ [text |-> {last + 1}, stamp |-> last + 1] \in AnyFile
    BY DEF Inv, Types, AnyFile
  <2>2. disk' \in [Notes -> AnyFile] /\ last' \in Nat
    BY <1>12, <2>1, GoneIsAFile DEF Edit, Written, Inv, Types
  <2> QED BY <1>12, <2>2 DEF Edit, Inv, Types, calls
<1>13. ASSUME NEW n \in Notes, Fire(n) PROVE Types'
  BY <1>13, GoneIsAFile, NotesAssumption DEF Fire, Inv, Types, HandT, Hands, Asleep, AnyFile, files, calls, watch
<1>14. ASSUME NEW w \in Workers, Wake(w) PROVE Types'
  <2>1. hand[w] \in HandT
    BY DEF Inv, Types
  <2>2. [hand[w] EXCEPT !.at = "next"] \in HandT
    BY <2>1 DEF HandT, Hands
  <2> QED BY <1>14, <2>2 DEF Wake, Inv, Types, files, calls
<1>15. ASSUME NEW w \in Workers, Pop(w) PROVE Types'
  <2>1. CASE queue = <<>>
    <3>1. Asleep \in HandT
      BY GoneIsAFile DEF Asleep, HandT, Hands
    <3> QED BY <1>15, <2>1, <3>1 DEF Pop, Inv, Types, files, calls
  <2>2. CASE queue # <<>>
    <3> DEFINE n == Head(queue)
               h == [at |-> IF Exists(n) THEN "compare" ELSE "drop", note |-> n, file |-> disk[n]]
    <3>1. n \in Notes /\ n \in Nat /\ Tail(queue) \in Seq(Notes)
      BY <2>2, NotesAssumption DEF Inv, Types
    <3>2. h \in HandT
      BY <3>1 DEF Inv, Types, HandT, Hands
    <3>3. hand' = [hand EXCEPT ![w] = h] /\ queue' = Tail(queue)
      BY <1>15, <2>2 DEF Pop
    <3> QED BY <1>15, <3>1, <3>2, <3>3 DEF Pop, Inv, Types, files, calls
  <2> QED BY <2>1, <2>2
<1>16. ASSUME NEW w \in Workers, Compare(w) PROVE Types'
  <2>1. hand[w] \in HandT
    BY DEF Inv, Types
  <2>2. \A a \in Hands : [hand[w] EXCEPT !.at = a] \in HandT
    BY <2>1 DEF HandT
  <2>3. \E a \in Hands : hand' = [hand EXCEPT ![w] = [hand[w] EXCEPT !.at = a]]
    BY <1>16 DEF Compare, Hands
  <2> QED BY <1>16, <2>2, <2>3 DEF Compare, Inv, Types, files, calls
<1>17. ASSUME NEW w \in Workers, Settle(w) PROVE Types'
  BY <1>17, GoneIsAFile, NotesAssumption DEF Settle, Inv, Types, HandT, Hands, Asleep, AnyFile, files, calls, watch
<1>18. ASSUME Scan PROVE Types'
  BY <1>18, GoneIsAFile, NotesAssumption DEF Scan, Inv, Types, HandT, Hands, Asleep, AnyFile, files, calls, watch
<1>19. ASSUME StartWatch PROVE Types'
  BY <1>19, GoneIsAFile, NotesAssumption DEF StartWatch, Inv, Types, HandT, Hands, Asleep, AnyFile, files, calls,
      watch
<1>20. ASSUME Crash PROVE Types'
  <2>1. /\ cache' \in [Notes -> AnyFile] /\ lock' \in [Notes -> Clients \cup {Free}]
        /\ call' \in [Clients -> CallT]
    BY <1>20, GoneIsAFile, NoCallIsACall DEF Crash
  <2>2. queue' \in Seq(Notes) /\ hand' \in [Workers -> HandT]
    BY <1>20, GoneIsAFile DEF Crash, Asleep, HandT, Hands
  <2> QED BY <1>20, <2>1, <2>2 DEF Crash, Inv, Types
<1>21. ASSUME UNCHANGED vars PROVE Types'
  BY <1>21, GoneIsAFile, NotesAssumption DEF vars, Inv, Types, HandT, Hands, Asleep, AnyFile, files, calls, watch
<1> QED BY <1>1, <1>2, <1>3, <1>4, <1>5, <1>6, <1>7, <1>8, <1>9, <1>10, <1>11, <1>12, <1>13, <1>14, <1>15,
           <1>16, <1>17, <1>18, <1>19, <1>20, <1>21
        DEF Next, Step, Work

\* Every step keeps the locks.
LEMMA LockStep ==
    ASSUME Inv, [Next]_vars
    PROVE  LockInv'
<1>1. ASSUME NEW c \in Clients, NEW n \in Notes, Peek(c, n) PROVE LockInv'
  <2> DEFINE k == [call[c] EXCEPT !.at = "put", !.note = n, !.file = disk[n]]
  <2>1. call'[c] = k /\ \A d \in Clients \ {c} : call'[d] = call[d]
    BY <1>1, PeekGoes, OnlyItsCall DEF Inv
  <2>2. k.at = "put" /\ k.note = n
    BY CallFields DEF Inv, CallT
  <2>3. UNCHANGED lock /\ call[c].at = "idle"
    BY <1>1 DEF Peek, Idle
  <2> HIDE DEF k
  <2> QED BY <2>1, <2>2, <2>3 DEF Inv, LockInv, Inside, Places
<1>2. ASSUME NEW c \in Clients, Put(c) PROVE LockInv'
  <2>1. Goes(c, NoCall)
    BY <1>2, NoCallIsACall DEF Put, Goes
  <2>2. call'[c] = NoCall /\ \A d \in Clients \ {c} : call'[d] = call[d]
    BY <2>1, OnlyItsCall DEF Inv
  <2>3. UNCHANGED lock /\ call[c].at = "put" /\ NoCall.at = "idle"
    BY <1>2 DEF Put, At, NoCall
  <2> QED BY <2>2, <2>3 DEF Inv, LockInv, Inside, Places
<1>3. ASSUME NEW c \in Clients, NEW n \in Notes, NEW op \in Ops, NEW match \in BOOLEAN, Ask(c, n, op, match)
      PROVE  LockInv'
  <2>1. PICK m \in Notes, e \in {Gone, disk[n]} :
          Goes(c, [at |-> "lock", op |-> op, note |-> n, to |-> m, etag |-> e, locks |-> {n, m}, file |-> Gone])
    BY <1>3, AskGoes
  <2> DEFINE k == [at |-> "lock", op |-> op, note |-> n, to |-> m, etag |-> e, locks |-> {n, m}, file |-> Gone]
  <2>2. call'[c] = k /\ \A d \in Clients \ {c} : call'[d] = call[d]
    BY <2>1, OnlyItsCall DEF Inv
  <2>3. k.at = "lock" /\ k.note = n /\ k.to = m /\ k.op = op /\ k.locks = {n, m}
    OBVIOUS
  <2>4. UNCHANGED lock /\ call[c].at = "idle"
    BY <1>3 DEF Ask, Idle
  <2> QED BY <2>2, <2>3, <2>4 DEF Inv, LockInv, Inside, Places
<1>4. ASSUME NEW c \in Clients, Lock(c) PROVE LockInv'
  <2> DEFINE n == NextLock(c)
             a == IF call[c].locks = {n} THEN "check" ELSE "lock"
             k == [call[c] EXCEPT !.locks = call[c].locks \ {n}, !.at = a]
  <2> HIDE DEF n, a
  <2>0. Goes(c, k)
    BY <1>4, LockGoes DEF Inv, n, a
  <2>1. call'[c] = k /\ \A d \in Clients \ {c} : call'[d] = call[d]
    BY <2>0, OnlyItsCall DEF Inv
  <2>2. call[c].at = "lock" /\ lock[n] = Free /\ lock' = [lock EXCEPT ![n] = c]
    BY <1>4 DEF Lock, At, n
  <2>3. n \in call[c].locks /\ n \in Notes /\ \A m \in call[c].locks : n <= m
    BY <2>2, NextLockLeast DEF n
  <2>4. /\ k.at = a /\ k.locks = call[c].locks \ {n} /\ k.note = call[c].note /\ k.to = call[c].to
        /\ k.op = call[c].op
    BY CallFields DEF Inv, CallT
  <2>5. /\ call[c].note \in Notes /\ call[c].to \in Notes /\ call[c].op \in Ops
        /\ call[c].locks \subseteq {call[c].note, call[c].to}
        /\ \A m \in {call[c].note, call[c].to} \ call[c].locks : lock[m] = c /\ \A i \in call[c].locks : m < i
    BY <2>2 DEF Inv, LockInv
  <2>6. lock'[n] = c /\ \A m \in Notes \ {n} : lock'[m] = lock[m]
    BY <2>2, <2>3 DEF Inv, Types
  <2>7. \A m \in {call[c].note, call[c].to} \ k.locks :
          lock'[m] = c /\ \A i \in k.locks : m < i
    BY <2>3, <2>4, <2>5, <2>6, NotesAssumption
  <2>8. ASSUME NEW d \in Clients \ {c}, NEW m \in Notes, lock[m] = d
        PROVE  lock'[m] = d
    BY <2>2, <2>6, <2>8, NotesAssumption
  <2>9. \A d \in Clients :
          /\ call'[d].at = "put" => call'[d].note \in Notes
          /\ call'[d].at \in Inside \cup {"lock"} =>
                call'[d].note \in Notes /\ call'[d].to \in Notes /\ call'[d].op \in Ops
    <3> SUFFICES ASSUME NEW d \in Clients
                 PROVE  /\ call'[d].at = "put" => call'[d].note \in Notes
                        /\ call'[d].at \in Inside \cup {"lock"} =>
                              call'[d].note \in Notes /\ call'[d].to \in Notes /\ call'[d].op \in Ops
      OBVIOUS
    <3>1. CASE d = c
      BY <2>1, <2>4, <2>5, <3>1
    <3>2. CASE d # c
      BY <2>1, <3>2 DEF Inv, LockInv
    <3> QED BY <3>1, <3>2
  <2>10. ASSUME NEW d \in Clients, call'[d].at = "lock"
         PROVE  /\ call'[d].locks # {} /\ call'[d].locks \subseteq {call'[d].note, call'[d].to}
                /\ \A m \in {call'[d].note, call'[d].to} \ call'[d].locks :
                      lock'[m] = d /\ \A i \in call'[d].locks : m < i
    <3>1. CASE d = c
      <4>1. k.at = "lock"
        BY <2>1, <2>10, <3>1
      <4>2. call[c].locks # {n}
        BY <2>4, <4>1 DEF a
      <4>3. k.locks # {}
        BY <2>3, <2>4, <4>2
      <4> QED BY <2>1, <2>4, <2>5, <2>7, <3>1, <4>3
    <3>2. CASE d # c
      <4>1. call[d].at = "lock" /\ call[d].note \in Notes /\ call[d].to \in Notes
        BY <2>1, <2>10, <3>2 DEF Inv, LockInv
      <4> QED BY <2>1, <2>8, <3>2, <4>1 DEF Inv, LockInv
    <3> QED BY <3>1, <3>2
  <2>11. ASSUME NEW d \in Clients, call'[d].at \in Inside
         PROVE  lock'[call'[d].note] = d /\ lock'[call'[d].to] = d
    <3>1. CASE d = c
      <4>1. k.at # "lock"
        BY <2>1, <2>11, <3>1 DEF Inside
      <4>2. k.locks = {}
        BY <2>4, <4>1 DEF a
      <4> QED BY <2>1, <2>4, <2>7, <3>1, <4>2
    <3>2. CASE d # c
      BY <2>1, <2>8, <2>11, <3>2 DEF Inv, LockInv
    <3> QED BY <3>1, <3>2
  <2>12. ASSUME NEW m \in Notes, lock'[m] \in Clients
         PROVE  /\ call'[lock'[m]].at \in Inside \cup {"lock"}
                /\ call'[lock'[m]].at = "lock" =>
                      m \in {call'[lock'[m]].note, call'[lock'[m]].to} \ call'[lock'[m]].locks
    <3>1. CASE lock'[m] = c
      <4>1. a \in Inside \cup {"lock"}
        BY DEF Inside, Places, a
      <4>2. m = n \/ m \in {call[c].note, call[c].to} \ call[c].locks
        BY <2>2, <2>6, <3>1 DEF Inv, LockInv
      <4> QED BY <2>1, <2>3, <2>4, <2>5, <3>1, <4>1, <4>2
    <3>2. CASE lock'[m] # c
      <4>1. m # n /\ lock'[m] = lock[m]
        BY <2>6, <3>2
      <4> QED BY <2>1, <2>12, <3>2, <4>1 DEF Inv, LockInv
    <3> QED BY <3>1, <3>2
  <2> QED BY <2>9, <2>10, <2>11, <2>12 DEF LockInv
<1>5. ASSUME NEW c \in Clients, Check(c) PROVE LockInv'
  <2>1. call[c].at \in Inside /\ call[c].note \in Notes /\ call[c].to \in Notes
    BY <1>5 DEF Check, At, Inv, LockInv, Inside, Places
  <2>2. CASE End(c)
    BY <2>2, LockEnded DEF Inv
  <2>3. CASE UNCHANGED lock /\ Goes(c, [call[c] EXCEPT !.at = "save", !.file = disk[call[c].note]])
    <3> DEFINE k == [call[c] EXCEPT !.at = "save", !.file = disk[call[c].note]]
    <3>1. k.at = "save" /\ k.op = call[c].op /\ k.to = call[c].to /\ k.note = call[c].note
      BY CallFields DEF Inv, CallT
    <3> QED BY <2>1, <2>3, <3>1, LockLeft DEF Inv, Inside, Places
  <2> QED BY <1>5, <2>1, <2>2, <2>3, CheckGoes
<1>6. ASSUME NEW c \in Clients, Save(c) PROVE LockInv'
  <2>1. call[c].at \in Inside /\ call[c].note \in Notes /\ call[c].to \in Notes
    BY <1>6 DEF Save, At, Inv, LockInv, Inside, Places
  <2> DEFINE k == [call[c] EXCEPT !.at = "saved"]
  <2>2. k.at = "saved" /\ k.op = call[c].op /\ k.to = call[c].to /\ k.note = call[c].note
    BY CallFields DEF Inv, CallT
  <2>3. Goes(c, k) /\ UNCHANGED lock
    BY <1>6, SaveGoes DEF Save, Inv
  <2> QED BY <2>1, <2>2, <2>3, LockLeft DEF Inv, Inside, Places
<1>7. ASSUME NEW c \in Clients, RemoveFile(c) PROVE LockInv'
  <2>1. call[c].at \in Inside /\ call[c].note \in Notes /\ call[c].to \in Notes
    BY <1>7 DEF RemoveFile, At, Inv, LockInv, Inside, Places
  <2>2. CASE End(c)
    BY <2>2, LockEnded DEF Inv
  <2>3. CASE UNCHANGED lock /\ Goes(c, [call[c] EXCEPT !.at = "unindex"])
    <3> DEFINE k == [call[c] EXCEPT !.at = "unindex"]
    <3>1. k.at = "unindex" /\ k.op = call[c].op /\ k.to = call[c].to /\ k.note = call[c].note
      BY CallFields DEF Inv, CallT
    <3> QED BY <2>1, <2>3, <3>1, LockLeft DEF Inv, Inside, Places
  <2> QED BY <1>7, <2>2, <2>3, RemoveGoes DEF Inv
<1>8. ASSUME NEW c \in Clients, Unindex(c) PROVE LockInv'
  <2>1. call[c].at \in Inside /\ call[c].note \in Notes /\ call[c].to \in Notes
    BY <1>8 DEF Unindex, At, Inv, LockInv, Inside, Places
  <2>2. PICK a \in {"saved", "done"} : Goes(c, [call[c] EXCEPT !.at = a, !.note = call[c].to])
    BY <1>8, UnindexGoes DEF Inv
  <2> DEFINE k == [call[c] EXCEPT !.at = a, !.note = call[c].to]
  <2>3. k.at = a /\ k.op = call[c].op /\ k.to = call[c].to /\ k.note = call[c].to
    BY CallFields DEF Inv, CallT
  <2>4. UNCHANGED lock
    BY <1>8 DEF Unindex
  <2> QED BY <2>1, <2>2, <2>3, <2>4, LockLeft DEF Inv, Inside, Places
<1>9. ASSUME NEW c \in Clients, Reload(c) PROVE LockInv'
  <2>1. call[c].at \in Inside /\ call[c].note \in Notes /\ call[c].to \in Notes
    BY <1>9 DEF Reload, At, Inv, LockInv, Inside, Places
  <2>2. CASE End(c)
    BY <2>2, LockEnded DEF Inv
  <2>3. CASE UNCHANGED lock /\ Goes(c, [call[c] EXCEPT !.at = "index", !.file = disk[call[c].note]])
    <3> DEFINE k == [call[c] EXCEPT !.at = "index", !.file = disk[call[c].note]]
    <3>1. k.at = "index" /\ k.op = call[c].op /\ k.to = call[c].to /\ k.note = call[c].note
      BY CallFields DEF Inv, CallT
    <3> QED BY <2>1, <2>3, <3>1, LockLeft DEF Inv, Inside, Places
  <2> QED BY <1>9, <2>1, <2>2, <2>3, ReloadGoes
<1>10. ASSUME NEW c \in Clients, Index(c) PROVE LockInv'
  <2>1. call[c].at \in Inside /\ call[c].note \in Notes /\ call[c].to \in Notes
    BY <1>10 DEF Index, At, Inv, LockInv, Inside, Places
  <2> DEFINE k == [call[c] EXCEPT !.at = "done"]
  <2>2. k.at = "done" /\ k.op = call[c].op /\ k.to = call[c].to /\ k.note = call[c].note
    BY CallFields DEF Inv, CallT
  <2>3. Goes(c, k) /\ UNCHANGED lock
    BY <1>10, IndexGoes DEF Index, Inv
  <2> QED BY <2>1, <2>2, <2>3, LockLeft DEF Inv, Inside, Places
<1>11. ASSUME NEW c \in Clients, Done(c) PROVE LockInv'
  BY <1>11, LockEnded DEF Done, Inv
<1>12. ASSUME NEW n \in Notes, Edit(n) PROVE LockInv'
  BY <1>12 DEF Edit, Inv, LockInv, files, calls, watch, vars
<1>13. ASSUME NEW n \in Notes, Fire(n) PROVE LockInv'
  BY <1>13 DEF Fire, Inv, LockInv, files, calls, watch, vars
<1>14. ASSUME NEW w \in Workers, Wake(w) PROVE LockInv'
  BY <1>14 DEF Wake, Inv, LockInv, files, calls, watch, vars
<1>15. ASSUME NEW w \in Workers, Pop(w) PROVE LockInv'
  BY <1>15 DEF Pop, Inv, LockInv, files, calls, watch, vars
<1>16. ASSUME NEW w \in Workers, Compare(w) PROVE LockInv'
  BY <1>16 DEF Compare, Inv, LockInv, files, calls, watch, vars
<1>17. ASSUME NEW w \in Workers, Settle(w) PROVE LockInv'
  BY <1>17 DEF Settle, Inv, LockInv, files, calls, watch, vars
<1>18. ASSUME Scan PROVE LockInv'
  BY <1>18 DEF Scan, Inv, LockInv, files, calls, watch, vars
<1>19. ASSUME StartWatch PROVE LockInv'
  BY <1>19 DEF StartWatch, Inv, LockInv, files, calls, watch, vars
<1>20. ASSUME Crash PROVE LockInv'
  BY <1>20, NotesAssumption DEF Crash, LockInv, NoCall, Inside, Places
<1>21. ASSUME UNCHANGED vars PROVE LockInv'
  BY <1>21 DEF vars, Inv, LockInv, files, calls, watch, vars
<1> QED BY <1>1, <1>2, <1>3, <1>4, <1>5, <1>6, <1>7, <1>8, <1>9, <1>10, <1>11, <1>12, <1>13, <1>14, <1>15,
           <1>16, <1>17, <1>18, <1>19, <1>20, <1>21
        DEF Next, Step, Work

-----------------------------------------------------------------------------
(* The stamps *)

Kept == Copies \cup {Gone}

\* A call that keeps what the vault had, and a vault that does as well.
LEMMA Copied ==
    ASSUME Inv, NEW c \in Clients, NEW k, Goes(c, k), k.etag \in Kept, k.file \in Kept, UNCHANGED last,
           \A n \in Notes : disk'[n] \in Kept /\ cache'[n] \in Kept
    PROVE  FileInv'
<1>1. \A d \in Clients : call'[d].etag \in Kept /\ call'[d].file \in Kept
  BY OnlyItsCall, IsCopy DEF Inv, Kept
<1>2. Copies' \subseteq Kept
  BY <1>1 DEF Copies
<1> QED BY <1>2, FileCopied DEF Inv, Types, Kept

\* The same, of a file written: it has a stamp no other has.
LEMMA Wrote ==
    ASSUME Inv, NEW n \in Notes, NEW text \in SUBSET Nat, Written(n, text),
           \A m \in Notes : cache'[m] \in Kept,
           \A d \in Clients : call'[d].etag \in Kept /\ call'[d].file \in Kept
    PROVE  FileInv'
<1> DEFINE f == [text |-> text, stamp |-> last + 1]
<1>1. last \in Nat /\ last' = last + 1 /\ f \in AnyFile /\ f.stamp = last' /\ disk' = [disk EXCEPT ![n] = f]
  BY DEF Written, Inv, Types, AnyFile
<1>2. \A m \in Notes : disk'[m] \in Kept \cup {f}
  BY <1>1, IsCopy DEF Inv, Types, Kept
<1>3. Copies' \subseteq Kept \cup {f}
  BY <1>2 DEF Copies
<1>4. Copies \subseteq AnyFile
  BY CopiesAreFiles DEF Inv
<1> HIDE DEF f
<1> QED BY <1>1, <1>3, <1>4, FileKept DEF Inv, Kept

LEMMA CacheKept ==
    ASSUME Inv, NEW n \in Notes, cache' = CacheAfterLoad(n)
    PROVE  \A m \in Notes : cache'[m] \in Kept
BY CacheLoaded, IsCopy DEF Inv, Types, Kept

LEMMA FilesKept ==
    ASSUME Inv
    PROVE  /\ \A m \in Notes : disk[m] \in Kept /\ cache[m] \in Kept
           /\ \A d \in Clients : call[d].etag \in Kept /\ call[d].file \in Kept
           /\ Gone \in Kept /\ NoCall.etag = Gone /\ NoCall.file = Gone
BY IsCopy DEF Inv, Kept, NoCall

\* Every step keeps the stamps apart.
LEMMA FileStep ==
    ASSUME Inv, [Next]_vars
    PROVE  FileInv'
<1>1. ASSUME NEW c \in Clients, NEW n \in Notes, Peek(c, n) PROVE FileInv'
  <2> DEFINE k == [call[c] EXCEPT !.at = "put", !.note = n, !.file = disk[n]]
  <2>2. Goes(c, k) /\ UNCHANGED <<disk, cache, last>>
    BY <1>1, PeekGoes DEF Peek, Inv, files
  <2>3. k.etag \in Kept /\ k.file \in Kept
    BY CallFields, FilesKept DEF Inv, CallT
  <2> HIDE DEF k
  <2> QED BY <2>2, <2>3, FilesKept, Copied
<1>2. ASSUME NEW c \in Clients, Put(c) PROVE FileInv'
  <2>1. Goes(c, NoCall) /\ UNCHANGED <<disk, last>> /\ cache' = [cache EXCEPT ![call[c].note] = call[c].file]
    BY <1>2, NoCallIsACall DEF Put, Goes, Note
  <2>2. \A m \in Notes : disk'[m] \in Kept /\ cache'[m] \in Kept
    BY <2>1, FilesKept DEF Inv, Types
  <2> QED BY <2>1, <2>2, FilesKept, Copied
<1>3. ASSUME NEW c \in Clients, NEW n \in Notes, NEW op \in Ops, NEW match \in BOOLEAN, Ask(c, n, op, match)
      PROVE  FileInv'
  <2>1. PICK m \in Notes, e \in {Gone, disk[n]} :
          Goes(c, [at |-> "lock", op |-> op, note |-> n, to |-> m, etag |-> e, locks |-> {n, m}, file |-> Gone])
    BY <1>3, AskGoes
  <2> DEFINE k == [at |-> "lock", op |-> op, note |-> n, to |-> m, etag |-> e, locks |-> {n, m}, file |-> Gone]
  <2>2. k.etag \in Kept /\ k.file \in Kept
    BY FilesKept
  <2>3. UNCHANGED <<disk, cache, last>>
    BY <1>3 DEF Ask, files
  <2> HIDE DEF k
  <2> QED BY <2>1, <2>2, <2>3, FilesKept, Copied DEF k
<1>4. ASSUME NEW c \in Clients, Lock(c) PROVE FileInv'
  <2> DEFINE k == [call[c] EXCEPT !.locks = call[c].locks \ {NextLock(c)},
                               !.at = IF call[c].locks = {NextLock(c)} THEN "check" ELSE "lock"]
  <2>2. Goes(c, k) /\ UNCHANGED <<disk, cache, last>>
    BY <1>4, LockGoes DEF Lock, Inv, files
  <2>3. k.etag \in Kept /\ k.file \in Kept
    BY CallFields, FilesKept DEF Inv, CallT
  <2> HIDE DEF k
  <2> QED BY <2>2, <2>3, FilesKept, Copied
<1>5. ASSUME NEW c \in Clients, Check(c) PROVE FileInv'
  <2>1. call[c].note \in Notes /\ call[c].to \in Notes
    BY <1>5 DEF Check, At, Inv, LockInv, Inside, Places
  <2> DEFINE k == [call[c] EXCEPT !.at = "save", !.file = disk[call[c].note]]
  <2>2. UNCHANGED <<disk, last>> /\ cache' \in {cache, CacheAfterLoad(call[c].note)}
    BY <1>5 DEF Check, Note
  <2>3. \A m \in Notes : disk'[m] \in Kept /\ cache'[m] \in Kept
    BY <2>1, <2>2, FilesKept, CacheKept
  <2>4. k.etag \in Kept /\ k.file \in Kept
    BY <2>1, CallFields, FilesKept DEF Inv, CallT
  <2>5. Goes(c, k) \/ Goes(c, NoCall)
    BY <1>5, <2>1, CheckGoes DEF Check
  <2> HIDE DEF k
  <2> QED BY <2>2, <2>3, <2>4, <2>5, FilesKept, Copied
<1>6. ASSUME NEW c \in Clients, Save(c) PROVE FileInv'
  <2>1. call[c].note \in Notes /\ call[c].to \in Notes
    BY <1>6 DEF Save, At, Inv, LockInv, Inside, Places
  <2> DEFINE k == [call[c] EXCEPT !.at = "saved"]
             kept == IF call[c].op = "append" THEN call[c].file.text ELSE {}
  <2>2. Goes(c, k) /\ k.etag \in Kept /\ k.file \in Kept
    BY <1>6, SaveGoes, CallFields, FilesKept DEF Inv, CallT
  <2> HIDE DEF k
  <2>3. \A d \in Clients : call'[d].etag \in Kept /\ call'[d].file \in Kept
    <3>1. call'[c] = k /\ \A d \in Clients \ {c} : call'[d] = call[d]
      BY <2>2, OnlyItsCall DEF Inv
    <3> QED BY <2>2, <3>1, FilesKept
  <2> USE DEF k
  <2>4. \A m \in Notes : cache'[m] \in Kept
    BY <1>6, <2>1, FilesKept DEF Save, Note, Inv, Types
  <2>5. kept \cup {last + 1} \in SUBSET Nat
    BY CallFields DEF Inv, Types, AnyFile
  <2>6. Written(call[c].note, kept \cup {last + 1})
    BY <1>6 DEF Save, Note
  <2> QED BY <2>1, <2>3, <2>4, <2>5, <2>6, Wrote
<1>7. ASSUME NEW c \in Clients, RemoveFile(c) PROVE FileInv'
  <2>1. call[c].note \in Notes /\ call[c].to \in Notes
    BY <1>7 DEF RemoveFile, At, Inv, LockInv, Inside, Places
  <2> DEFINE k == [call[c] EXCEPT !.at = "unindex"]
  <2>2. Goes(c, k) \/ Goes(c, NoCall)
    BY <1>7, RemoveGoes DEF Inv
  <2>3. \A m \in Notes : disk'[m] \in Kept /\ cache'[m] \in Kept
    BY <1>7, <2>1, FilesKept DEF RemoveFile, Note, Inv, Types
  <2>4. k.etag \in Kept /\ k.file \in Kept /\ UNCHANGED last
    BY <1>7, CallFields, FilesKept DEF RemoveFile, Inv, CallT
  <2> HIDE DEF k
  <2> QED BY <2>2, <2>3, <2>4, FilesKept, Copied
<1>8. ASSUME NEW c \in Clients, Unindex(c) PROVE FileInv'
  <2>1. PICK a \in {"saved", "done"} : Goes(c, [call[c] EXCEPT !.at = a, !.note = call[c].to])
    BY <1>8, UnindexGoes DEF Inv
  <2> DEFINE k == [call[c] EXCEPT !.at = a, !.note = call[c].to]
  <2>2. k.etag \in Kept /\ k.file \in Kept
    BY CallFields, FilesKept DEF Inv, CallT
  <2>3. UNCHANGED <<disk, cache, last>>
    BY <1>8 DEF Unindex
  <2> QED BY <2>1, <2>2, <2>3, FilesKept, Copied
<1>9. ASSUME NEW c \in Clients, Reload(c) PROVE FileInv'
  <2>1. call[c].note \in Notes /\ call[c].to \in Notes
    BY <1>9 DEF Reload, At, Inv, LockInv, Inside, Places
  <2> DEFINE k == [call[c] EXCEPT !.at = "index", !.file = disk[call[c].note]]
  <2>2. UNCHANGED <<disk, last>> /\ cache' \in {cache, CacheAfterLoad(call[c].note)}
    BY <1>9 DEF Reload, Note
  <2>3. \A m \in Notes : disk'[m] \in Kept /\ cache'[m] \in Kept
    BY <2>1, <2>2, FilesKept, CacheKept
  <2>4. k.etag \in Kept /\ k.file \in Kept
    BY <2>1, CallFields, FilesKept DEF Inv, CallT
  <2>5. Goes(c, k) \/ Goes(c, NoCall)
    BY <1>9, <2>1, ReloadGoes DEF Reload
  <2> HIDE DEF k
  <2> QED BY <2>2, <2>3, <2>4, <2>5, FilesKept, Copied
<1>10. ASSUME NEW c \in Clients, Index(c) PROVE FileInv'
  <2> DEFINE k == [call[c] EXCEPT !.at = "done"]
  <2>2. Goes(c, k) /\ UNCHANGED <<disk, cache, last>>
    BY <1>10, IndexGoes DEF Index, Inv, files
  <2>3. k.etag \in Kept /\ k.file \in Kept
    BY CallFields, FilesKept DEF Inv, CallT
  <2> HIDE DEF k
  <2> QED BY <2>2, <2>3, FilesKept, Copied
<1>11. ASSUME NEW c \in Clients, Done(c) PROVE FileInv'
  <2>1. call[c].note \in Notes /\ call[c].to \in Notes
    BY <1>11 DEF Done, At, Inv, LockInv, Inside, Places
  <2> DEFINE k == NoCall
  <2>2. UNCHANGED <<disk, last>> /\ cache' \in {cache, CacheAfterLoad(call[c].note)}
    BY <1>11 DEF Done, Note
  <2>3. \A m \in Notes : disk'[m] \in Kept /\ cache'[m] \in Kept
    BY <2>1, <2>2, FilesKept, CacheKept
  <2>4. k.etag \in Kept /\ k.file \in Kept
    BY <2>1, CallFields, FilesKept DEF Inv, CallT
  <2>5. Goes(c, k) \/ Goes(c, NoCall)
    BY <1>11, <2>1, EndGoes DEF Done
  <2> HIDE DEF k
  <2> QED BY <2>2, <2>3, <2>4, <2>5, FilesKept, Copied
<1>12. ASSUME NEW n \in Notes, Edit(n) PROVE FileInv'
  <2>1. CASE Written(n, {last + 1})
    <3>1. {last + 1} \in SUBSET Nat
      BY DEF Inv, Types
    <3> QED BY <1>12, <2>1, <3>1, FilesKept, Wrote DEF Edit, calls
  <2>2. CASE disk' = [disk EXCEPT ![n] = Gone] /\ UNCHANGED last
    <3>1. \A m \in Notes : disk'[m] \in Kept /\ cache'[m] \in Kept
      BY <1>12, <2>2, FilesKept DEF Edit, Inv, Types
    <3>2. Copies' \subseteq Kept
      BY <1>12, <3>1, FilesKept DEF Edit, Copies, calls
    <3> QED BY <2>2, <3>2, FileCopied DEF Inv, Types, Kept
  <2> QED BY <1>12, <2>1, <2>2 DEF Edit
<1>13. ASSUME NEW n \in Notes, Fire(n) PROVE FileInv'
  BY <1>13 DEF Fire, Inv, FileInv, Copies, files, calls, watch, vars
<1>14. ASSUME NEW w \in Workers, Wake(w) PROVE FileInv'
  BY <1>14 DEF Wake, Inv, FileInv, Copies, files, calls, watch, vars
<1>15. ASSUME NEW w \in Workers, Pop(w) PROVE FileInv'
  BY <1>15 DEF Pop, Inv, FileInv, Copies, files, calls, watch, vars
<1>16. ASSUME NEW w \in Workers, Compare(w) PROVE FileInv'
  BY <1>16 DEF Compare, Inv, FileInv, Copies, files, calls, watch, vars
<1>17. ASSUME NEW w \in Workers, Settle(w) PROVE FileInv'
  BY <1>17 DEF Settle, Inv, FileInv, Copies, files, calls, watch, vars
<1>18. ASSUME Scan PROVE FileInv'
  BY <1>18 DEF Scan, Inv, FileInv, Copies, files, calls, watch, vars
<1>19. ASSUME StartWatch PROVE FileInv'
  BY <1>19 DEF StartWatch, Inv, FileInv, Copies, files, calls, watch, vars
<1>20. ASSUME Crash PROVE FileInv'
  <2>1. Copies' \subseteq Kept
    BY <1>20, FilesKept DEF Crash, Copies, NoCall
  <2> QED BY <1>20, <2>1, FileCopied DEF Crash, Inv, Types, Kept
<1>21. ASSUME UNCHANGED vars PROVE FileInv'
  BY <1>21 DEF vars, Inv, FileInv, Copies, files, calls, watch, vars
<1> QED BY <1>1, <1>2, <1>3, <1>4, <1>5, <1>6, <1>7, <1>8, <1>9, <1>10, <1>11, <1>12, <1>13, <1>14, <1>15,
           <1>16, <1>17, <1>18, <1>19, <1>20, <1>21
        DEF Next, Step, Work

-----------------------------------------------------------------------------
(* The updates *)

\* A step of one call disturbs no other that is about to save, when it changes only notes
\* whose locks it holds.
LEMMA NoOtherDisturbed ==
    ASSUME Inv, NEW c \in Clients, NEW k, Goes(c, k), k.at # "save",
           \A n \in Notes : \/ disk'[n] = disk[n] /\ (n \in outside => n \in outside')
                            \/ lock[n] = c
    PROVE  NoLostUpdate'
<1> SUFFICES ASSUME NEW d \in Clients, call'[d].at = "save", call'[d].note \notin outside'
             PROVE  /\ disk'[call'[d].note] = call'[d].file
                    /\ call'[d].etag # Gone => disk'[call'[d].note].text = call'[d].etag.text
                    /\ call'[d].op = "rename" /\ call'[d].to \notin outside' => disk'[call'[d].to] = Gone
  BY DEF NoLostUpdate, Note, Exists
<1>1. d # c /\ call'[d] = call[d] /\ call[d].at = "save"
  BY OnlyItsCall DEF Inv
<1>2. /\ call[d].note \in Notes /\ call[d].to \in Notes
      /\ lock[call[d].note] = d /\ lock[call[d].to] = d
  BY <1>1 DEF Inv, LockInv, Inside, Places
<1>3. /\ disk'[call[d].note] = disk[call[d].note] /\ call[d].note \notin outside
      /\ disk'[call[d].to] = disk[call[d].to]
      /\ call[d].to \notin outside' => call[d].to \notin outside
  <2>1. lock[call[d].note] # c /\ lock[call[d].to] # c
    BY <1>1, <1>2
  <2>2. /\ disk'[call[d].note] = disk[call[d].note]
        /\ call[d].note \in outside => call[d].note \in outside'
    BY <1>2, <2>1
  <2>3. /\ disk'[call[d].to] = disk[call[d].to]
        /\ call[d].to \in outside => call[d].to \in outside'
    BY <1>2, <2>1
  <2> QED BY <1>1, <2>2, <2>3
<1> QED BY <1>1, <1>3 DEF Inv, NoLostUpdate, Note, Exists

\* A call that has its write accepted is about the note as it is on disk.
LEMMA AcceptedUpdate ==
    ASSUME Inv, NEW c \in Clients, call[c].note \in Notes, call[c].to \in Notes, Accepted(c)
    PROVE  /\ call[c].etag # Gone => disk[call[c].note].text = call[c].etag.text
           /\ call[c].op = "rename" => ~Exists(call[c].to)
<1>1. /\ call[c].etag # Gone => /\ disk[call[c].note] # Gone
                                /\ disk[call[c].note].stamp = call[c].etag.stamp
      /\ call[c].op = "rename" => ~Exists(call[c].to)
  BY LoadedIsDisk DEF Inv, Accepted, Note, Exists
<1>2. disk[call[c].note] \in Copies /\ call[c].etag \in Copies
  BY IsCopy DEF Inv
<1> QED BY <1>1, <1>2 DEF Inv, FileInv

\* Every step keeps what a write is about to overwrite.
LEMMA UpdateStep ==
    ASSUME Inv, [Next]_vars
    PROVE  NoLostUpdate'
<1>1. ASSUME NEW c \in Clients, NEW n \in Notes, Peek(c, n) PROVE NoLostUpdate'
  <2> DEFINE k == [call[c] EXCEPT !.at = "put", !.note = n, !.file = disk[n]]
  <2>1. Goes(c, k) /\ UNCHANGED <<disk, outside>>
    BY <1>1, PeekGoes DEF Peek, Inv, files
  <2>2. k.at # "save"
    BY CallFields DEF Inv, CallT
  <2> HIDE DEF k
  <2> QED BY <2>1, <2>2, NoOtherDisturbed
<1>2. ASSUME NEW c \in Clients, Put(c) PROVE NoLostUpdate'
  <2>0. NoCall.at = "idle"
    BY DEF NoCall
  <2>1. Goes(c, NoCall) /\ UNCHANGED <<disk, outside>>
    BY <1>2, NoCallIsACall DEF Put, Goes
  <2> QED BY <2>0, <2>1, NoOtherDisturbed
<1>3. ASSUME NEW c \in Clients, NEW n \in Notes, NEW op \in Ops, NEW match \in BOOLEAN, Ask(c, n, op, match)
      PROVE  NoLostUpdate'
  <2>1. PICK m \in Notes, e \in {Gone, disk[n]} :
          Goes(c, [at |-> "lock", op |-> op, note |-> n, to |-> m, etag |-> e, locks |-> {n, m}, file |-> Gone])
    BY <1>3, AskGoes
  <2>2. UNCHANGED <<disk, outside>>
    BY <1>3 DEF Ask, files
  <2> QED BY <2>1, <2>2, NoOtherDisturbed
<1>4. ASSUME NEW c \in Clients, Lock(c) PROVE NoLostUpdate'
  <2> DEFINE k == [call[c] EXCEPT !.locks = call[c].locks \ {NextLock(c)},
                               !.at = IF call[c].locks = {NextLock(c)} THEN "check" ELSE "lock"]
  <2>1. Goes(c, k) /\ UNCHANGED <<disk, outside>>
    BY <1>4, LockGoes DEF Lock, Inv, files
  <2>2. k.at # "save"
    BY CallFields DEF Inv, CallT
  <2> HIDE DEF k
  <2> QED BY <2>1, <2>2, NoOtherDisturbed
<1>5. ASSUME NEW c \in Clients, Check(c) PROVE NoLostUpdate'
  <2>1. call[c].note \in Notes /\ call[c].to \in Notes
    BY <1>5 DEF Check, At, Inv, LockInv, Inside, Places
  <2>0. NoCall.at = "idle"
    BY DEF NoCall
  <2>2. UNCHANGED <<disk, outside>>
    BY <1>5 DEF Check
  <2>3. CASE Goes(c, NoCall)
    BY <2>0, <2>2, <2>3, NoOtherDisturbed
  <2>4. CASE Accepted(c) /\ Goes(c, [call[c] EXCEPT !.at = "save", !.file = disk[call[c].note]])
    <3> DEFINE k == [call[c] EXCEPT !.at = "save", !.file = disk[call[c].note]]
    <3>1. /\ k.file = disk[call[c].note] /\ k.note = call[c].note /\ k.to = call[c].to
          /\ k.etag = call[c].etag /\ k.op = call[c].op
      BY CallFields DEF Inv, CallT
    <3>2. call'[c] = k /\ \A d \in Clients \ {c} : call'[d] = call[d]
      BY <2>4, OnlyItsCall DEF Inv
    <3>3. /\ call[c].etag # Gone => disk[call[c].note].text = call[c].etag.text
          /\ call[c].op = "rename" => ~Exists(call[c].to)
      BY <2>1, <2>4, AcceptedUpdate
    <3> HIDE DEF k
    <3> QED BY <2>2, <3>1, <3>2, <3>3 DEF Inv, NoLostUpdate, Note, Exists
  <2> QED BY <1>5, <2>1, <2>3, <2>4, CheckGoes
<1>6. ASSUME NEW c \in Clients, Save(c) PROVE NoLostUpdate'
  <2>1. /\ call[c].note \in Notes /\ call[c].to \in Notes
        /\ lock[call[c].note] = c /\ lock[call[c].to] = c
    BY <1>6 DEF Save, At, Inv, LockInv, Inside, Places
  <2> DEFINE k == [call[c] EXCEPT !.at = "saved"]
  <2>2. Goes(c, k) /\ k.at # "save"
    BY <1>6, SaveGoes, CallFields DEF Inv, CallT
  <2>3. \A n \in Notes \ {call[c].note} : disk'[n] = disk[n] /\ (n \in outside => n \in outside')
    BY <1>6, <2>1 DEF Save, Written, Note, Inv, Types
  <2> HIDE DEF k
  <2> QED BY <2>1, <2>2, <2>3, NoOtherDisturbed
<1>7. ASSUME NEW c \in Clients, RemoveFile(c) PROVE NoLostUpdate'
  <2>1. /\ call[c].note \in Notes /\ call[c].to \in Notes
        /\ lock[call[c].note] = c /\ lock[call[c].to] = c
    BY <1>7 DEF RemoveFile, At, Inv, LockInv, Inside, Places
  <2>0. NoCall.at = "idle"
    BY DEF NoCall
  <2> DEFINE k == [call[c] EXCEPT !.at = "unindex"]
  <2>2. Goes(c, k) \/ Goes(c, NoCall)
    BY <1>7, RemoveGoes DEF Inv
  <2>3. k.at # "save"
    BY CallFields DEF Inv, CallT
  <2>4. \A n \in Notes \ {call[c].note, call[c].to} : disk'[n] = disk[n] /\ (n \in outside => n \in outside')
    BY <1>7, <2>1 DEF RemoveFile, Note, Inv, Types
  <2> HIDE DEF k
  <2> QED BY <2>0, <2>1, <2>2, <2>3, <2>4, NoOtherDisturbed
<1>8. ASSUME NEW c \in Clients, Unindex(c) PROVE NoLostUpdate'
  <2>1. PICK a \in {"saved", "done"} : Goes(c, [call[c] EXCEPT !.at = a, !.note = call[c].to])
    BY <1>8, UnindexGoes DEF Inv
  <2> DEFINE k == [call[c] EXCEPT !.at = a, !.note = call[c].to]
  <2>2. k.at # "save"
    BY CallFields DEF Inv, CallT
  <2>3. UNCHANGED <<disk, outside>>
    BY <1>8 DEF Unindex
  <2> QED BY <2>1, <2>2, <2>3, NoOtherDisturbed
<1>9. ASSUME NEW c \in Clients, Reload(c) PROVE NoLostUpdate'
  <2>1. call[c].note \in Notes /\ call[c].to \in Notes
    BY <1>9 DEF Reload, At, Inv, LockInv, Inside, Places
  <2>0. NoCall.at = "idle"
    BY DEF NoCall
  <2> DEFINE k == [call[c] EXCEPT !.at = "index", !.file = disk[call[c].note]]
  <2>2. UNCHANGED <<disk, outside>>
    BY <1>9 DEF Reload
  <2>3. Goes(c, k) \/ Goes(c, NoCall)
    BY <1>9, <2>1, ReloadGoes
  <2>4. k.at # "save"
    BY CallFields DEF Inv, CallT
  <2> HIDE DEF k
  <2> QED BY <2>0, <2>2, <2>3, <2>4, NoOtherDisturbed
<1>10. ASSUME NEW c \in Clients, Index(c) PROVE NoLostUpdate'
  <2> DEFINE k == [call[c] EXCEPT !.at = "done"]
  <2>1. Goes(c, k) /\ UNCHANGED <<disk, outside>>
    BY <1>10, IndexGoes DEF Index, Inv, files
  <2>2. k.at # "save"
    BY CallFields DEF Inv, CallT
  <2> HIDE DEF k
  <2> QED BY <2>1, <2>2, NoOtherDisturbed
<1>11. ASSUME NEW c \in Clients, Done(c) PROVE NoLostUpdate'
  <2>0. NoCall.at = "idle"
    BY DEF NoCall
  <2>1. Goes(c, NoCall) /\ UNCHANGED <<disk, outside>>
    BY <1>11, EndGoes DEF Done
  <2> QED BY <2>0, <2>1, NoOtherDisturbed
<1>12. ASSUME NEW n \in Notes, Edit(n) PROVE NoLostUpdate'
  <2>1. UNCHANGED call /\ outside' = outside \cup {n} /\ \A m \in Notes \ {n} : disk'[m] = disk[m]
    BY <1>12 DEF Edit, Written, Inv, Types, calls
  <2>2. \A d \in Clients : call[d].at = "save" => call[d].note \in Notes /\ call[d].to \in Notes
    BY DEF Inv, LockInv, Inside, Places
  <2> QED BY <2>1, <2>2 DEF Inv, NoLostUpdate, Note, Exists
<1>13. ASSUME NEW n \in Notes, Fire(n) PROVE NoLostUpdate'
  BY <1>13 DEF Fire, Inv, NoLostUpdate, Note, Exists, files, calls, watch, vars
<1>14. ASSUME NEW w \in Workers, Wake(w) PROVE NoLostUpdate'
  BY <1>14 DEF Wake, Inv, NoLostUpdate, Note, Exists, files, calls, watch, vars
<1>15. ASSUME NEW w \in Workers, Pop(w) PROVE NoLostUpdate'
  BY <1>15 DEF Pop, Inv, NoLostUpdate, Note, Exists, files, calls, watch, vars
<1>16. ASSUME NEW w \in Workers, Compare(w) PROVE NoLostUpdate'
  BY <1>16 DEF Compare, Inv, NoLostUpdate, Note, Exists, files, calls, watch, vars
<1>17. ASSUME NEW w \in Workers, Settle(w) PROVE NoLostUpdate'
  BY <1>17 DEF Settle, Inv, NoLostUpdate, Note, Exists, files, calls, watch, vars
<1>18. ASSUME Scan PROVE NoLostUpdate'
  BY <1>18 DEF Scan, Inv, NoLostUpdate, Note, Exists, files, calls, watch, vars
<1>19. ASSUME StartWatch PROVE NoLostUpdate'
  BY <1>19 DEF StartWatch, Inv, NoLostUpdate, Note, Exists, files, calls, watch, vars
<1>20. ASSUME Crash PROVE NoLostUpdate'
  <2>1. NoCall.at = "idle"
    BY DEF NoCall
  <2> QED BY <1>20, <2>1 DEF Crash, NoLostUpdate
<1>21. ASSUME UNCHANGED vars PROVE NoLostUpdate'
  BY <1>21 DEF vars, Inv, NoLostUpdate, Note, Exists, files, calls, watch, vars
<1> QED BY <1>1, <1>2, <1>3, <1>4, <1>5, <1>6, <1>7, <1>8, <1>9, <1>10, <1>11, <1>12, <1>13, <1>14, <1>15,
           <1>16, <1>17, <1>18, <1>19, <1>20, <1>21
        DEF Next, Step, Work

LEMMA StepInv == Inv /\ [Next]_vars => Inv'
BY TypeStep, LockStep, FileStep, UpdateStep DEF Inv

LEMMA Invariance == Spec => []Inv
BY InitInv, StepInv, PTL DEF Spec

-----------------------------------------------------------------------------
(* The calls that wait *)

\* A set of naturals that is finite and not empty has a greatest element: one with the
\* fewest above it.
LEMMA Greatest ==
    ASSUME NEW S, S \subseteq Nat, IsFiniteSet(S), S # {}
    PROVE  \E m \in S : \A n \in S : n <= m
<1> DEFINE Above(n) == {m \in S : m > n}
           Counts == {Cardinality(Above(n)) : n \in S}
<1>1. \A n \in S : IsFiniteSet(Above(n)) /\ Cardinality(Above(n)) \in Nat
  BY FS_Subset, FS_CardinalityType
<1>2. Counts \subseteq Nat /\ Counts # {}
  BY <1>1
<1>3. IsWellFoundedOn(OpToRel(<, Nat), Nat)
  BY NatLessThanWellFounded
<1> HIDE DEF Counts
<1>4. PICK x \in Counts : \A y \in Counts : ~(<<y, x>> \in OpToRel(<, Nat))
  BY <1>2, <1>3, WFMin
<1>5. \A y \in Counts : ~(y < x)
  BY <1>2, <1>4 DEF OpToRel
<1>6. PICK m \in S : Cardinality(Above(m)) = x
  BY DEF Counts
<1>7. ASSUME NEW n \in S, ~(n <= m) PROVE FALSE
  <2>0. n \in Nat /\ m \in Nat /\ n > m /\ \A q \in S : q \in Nat
    BY <1>6, <1>7
  <2>a. ASSUME NEW q \in S, q > n PROVE q > m
    BY <2>0, <2>a
  <2>b. ~(n > n)
    BY <2>0
  <2>1. Above(n) \subseteq Above(m) /\ n \in Above(m) /\ n \notin Above(n)
    BY <2>0, <2>a, <2>b
  <2>2. Cardinality(Above(n)) <= Cardinality(Above(m)) /\ Cardinality(Above(n)) # Cardinality(Above(m))
    BY <1>1, <2>1, FS_Subset
  <2>3. Cardinality(Above(n)) \in Counts
    BY DEF Counts
  <2> QED BY <1>1, <1>5, <1>6, <2>2, <2>3
<1> QED BY <1>7

\* If every call that is in flight waited, the one that waits for the greatest note would
\* wait for a call that waits for a greater one.
LEMMA SomeCallGoesOn ==
    ASSUME Inv
    PROVE  CallsGoOn
<1> SUFFICES ASSUME NEW b \in Clients, ~Idle(b), \A c \in Clients : ~Idle(c) => Waits(c)
             PROVE  FALSE
  BY DEF CallsGoOn
<1> DEFINE Busy == {c \in Clients : ~Idle(c)}
           Wanted == {NextLock(c) : c \in Busy}
<1>1. \A c \in Busy : /\ c \in Clients /\ call[c].at = "lock"
                      /\ NextLock(c) \in call[c].locks /\ NextLock(c) \in Notes
                      /\ lock[NextLock(c)] # Free
  BY NextLockLeast DEF Waits
<1>2. Wanted \subseteq Notes /\ Wanted # {}
  BY <1>1
<1>3. Wanted \subseteq Nat /\ IsFiniteSet(Wanted)
  BY <1>2, NotesAssumption, FS_Subset
<1> HIDE DEF Wanted
<1>4. PICK m \in Wanted : \A n \in Wanted : n <= m
  BY <1>2, <1>3, Greatest
<1>5. PICK c \in Busy : m = NextLock(c)
  BY DEF Wanted
<1> DEFINE d == lock[m]
<1>6. m \in Notes /\ d \in Clients
  BY <1>1, <1>5 DEF Inv, Types
<1>7. call[d].at \in Inside \cup {"lock"} /\ (call[d].at = "lock" => m \in {call[d].note, call[d].to} \ call[d].locks)
  BY <1>6 DEF Inv, LockInv
<1>8. d \in Busy
  BY <1>6, <1>7 DEF Idle, Inside, Places
<1>9. NextLock(d) \in Wanted
  BY <1>8 DEF Wanted
<1>10. m < NextLock(d)
  BY <1>1, <1>6, <1>7, <1>8 DEF Inv, LockInv
<1>11. NextLock(d) \in Nat /\ m \in Nat /\ NextLock(d) <= m
  BY <1>3, <1>4, <1>9
<1> QED BY <1>10, <1>11

-----------------------------------------------------------------------------
(* The queue of the watcher *)

\* Every step leaves a token, or a worker that is awake, to a queue that is not empty.
LEMMA QueueStep ==
    ASSUME Inv, QueueIsServed, [Next]_vars
    PROVE  QueueIsServed'
<1> DEFINE Unwatched == UNCHANGED <<queue, wake, hand>>
<1>1. Unwatched => QueueIsServed'
  BY DEF QueueIsServed
<1>2. ASSUME NEW c \in Clients, Step(c) PROVE Unwatched
  BY <1>2 DEF Step, Put, Lock, Check, Save, RemoveFile, Unindex, Reload, Index, Done, watch
<1>3. ASSUME NEW c \in Clients, NEW n \in Notes, Peek(c, n) PROVE Unwatched
  BY <1>3 DEF Peek, watch
<1>4. ASSUME NEW c \in Clients, NEW n \in Notes, NEW op \in Ops, NEW match \in BOOLEAN, Ask(c, n, op, match)
      PROVE  Unwatched
  BY <1>4 DEF Ask, watch
<1>5. ASSUME NEW n \in Notes, Edit(n) PROVE Unwatched
  BY <1>5 DEF Edit
<1>6. CASE Scan \/ StartWatch \/ UNCHANGED vars
  BY <1>1, <1>6 DEF Scan, StartWatch, vars, watch
<1>7. CASE Crash
  BY <1>7 DEF Crash, QueueIsServed
<1>8. ASSUME NEW n \in Notes, Fire(n) PROVE QueueIsServed'
  BY <1>8 DEF Fire, QueueIsServed
<1>9. ASSUME NEW w \in Workers, NEW a \in Hands \ {"asleep"}, hand'[w].at = a PROVE QueueIsServed'
  BY <1>9 DEF QueueIsServed
<1>10. ASSUME NEW w \in Workers, Wake(w) \/ Compare(w) \/ Settle(w) PROVE QueueIsServed'
  <2>1. hand[w] \in HandT /\ hand \in [Workers -> HandT]
    BY DEF Inv, Types
  <2>2. hand'[w].at \in Hands \ {"asleep"}
    BY <1>10, <2>1 DEF Wake, Compare, Settle, HandT, Hands, Asleep
  <2> QED BY <1>9, <2>2
<1>11. ASSUME NEW w \in Workers, Pop(w) PROVE QueueIsServed'
  <2>1. CASE queue = <<>>
    BY <1>11, <2>1 DEF Pop, QueueIsServed
  <2>2. CASE queue # <<>>
    <3>1. hand'[w].at \in {"compare", "drop"}
      BY <1>11, <2>2 DEF Pop, Inv, Types
    <3> QED BY <1>9, <3>1 DEF Hands
  <2> QED BY <2>1, <2>2
<1> QED BY <1>1, <1>2, <1>3, <1>4, <1>5, <1>6, <1>7, <1>8, <1>10, <1>11 DEF Next, Work

-----------------------------------------------------------------------------
(* The theorems *)

\* NoLostUpdate: what a write checked is what it overwrites, for any number of clients and notes
\* (writeNote, LockPaths, the load cache).
THEOREM WritesLoseNothing == Spec => []NoLostUpdate
<1>1. Inv => NoLostUpdate
  BY DEF Inv
<1> QED BY <1>1, Invariance, PTL

\* CallsGoOn: however many calls lock however many notes, one of them can go on (LockPaths).
THEOREM NoDeadlockOfLocks == Spec => []CallsGoOn
BY SomeCallGoesOn, Invariance, PTL

\* QueueIsServed: one token is enough to wake the workers, however many there are (schedule, next).
THEOREM TokenIsEnough == Spec => []QueueIsServed
<1>1. Init => QueueIsServed
  BY DEF Init, QueueIsServed
<1>2. Inv /\ QueueIsServed /\ [Next]_vars => QueueIsServed'
  BY QueueStep
<1> QED BY <1>1, <1>2, Invariance, PTL DEF Spec

-----------------------------------------------------------------------------
(* The index follows the files *)

\* What the index holds of a note is known, when the last event of it was handled alone, while no
\* event of it is to come.
Sure(n) == server # "down" /\ doubt[n] = "none" /\ n \notin due /\ ~Queued(n)

\* A worker has read the note as it is, and no other worker has it.
HandsInv(n) == \A w \in Workers : Handling(w, n) =>
    /\ hand[w].file = disk[n] /\ (hand[w].at = "drop" <=> disk[n] = Gone)
    /\ hand[w].at = "touch" => index[n].text = disk[n].text
    /\ \A v \in Workers : Handling(v, n) => v = w

\* A call about to index the note has read it as it is, one about to drop its row removed it.
CallsInv(n) == \A c \in Clients :
    /\ call[c].at = "index" /\ call[c].note = n => call[c].file = disk[n]
    /\ call[c].at = "unindex" /\ call[c].note = n => disk[n] = Gone
    /\ call[c].at = "unindex" /\ call[c].to = n /\ call[c].note # n => disk[n] # Gone

\* The row is that of the note, but while a worker or a call is still to write it.
Touches(c, n) == \/ call[c].at = "unindex" /\ n \in {call[c].note, call[c].to}
                 \/ call[c].at \in {"saved", "index"} /\ n = call[c].note
Writing(c, n) == Touches(c, n) /\ (call[c].at = "saved" => disk[n] # Gone)
RowInv(n) ==
    (\A w \in Workers : ~Handling(w, n)) /\ (\A c \in Clients : ~Writing(c, n)) => index[n] = disk[n]

Known(n) == Sure(n) => HandsInv(n) /\ CallsInv(n) /\ RowInv(n)
SureInv == \A n \in Notes : Known(n)

\* The watch is at work while it is on, calls while the server runs; a rename has two notes, and every
\* file a text.
PlaceInv ==
    /\ index \in [Notes -> AnyFile]
    /\ server # "up" => due = {} /\ queue = <<>> /\ \A w \in Workers : hand[w].at \in {"asleep", "next"}
    /\ server = "down" => \A c \in Clients : call[c].at = "idle"
    /\ \A c \in Clients : call[c].at \in {"lock", "check", "save", "unindex"} =>
          (call[c].op = "rename" <=> call[c].note # call[c].to)
    /\ \A n \in Notes : disk[n] # Gone => disk[n].text # {}

\* The kinds of doubt, and the states of the server.
DoubtInv == doubt \in [Notes -> {"none", "missed", "raced"}] /\ server \in {"down", "scanned", "up"}

IndexInv == Inv /\ DoubtInv /\ PlaceInv /\ SureInv

-----------------------------------------------------------------------------
(* A note a step leaves alone *)

\* What is known of a note stays, when its file, its row, its worker and its calls do.
LEMMA NoteLeft ==
    ASSUME NEW n \in Notes, Known(n), Sure(n)' => Sure(n), disk'[n] = disk[n], index'[n] = index[n],
           \A w \in Workers : hand'[w] = hand[w] \/ (~Handling(w, n) /\ ~Handling(w, n)'),
           \A c \in Clients : call'[c] = call[c] \/ (~Writing(c, n) /\ ~Touches(c, n)')
    PROVE  Known(n)'
<1> SUFFICES ASSUME Sure(n)' PROVE (HandsInv(n) /\ CallsInv(n) /\ RowInv(n))'
  BY DEF Known
<1>1. HandsInv(n) /\ CallsInv(n) /\ RowInv(n)
  BY DEF Known
<1>2. HandsInv(n)'
  BY <1>1 DEF HandsInv, Handling
<1>3. CallsInv(n)'
  BY <1>1 DEF CallsInv, Touches
<1>4. RowInv(n)'
  BY <1>1 DEF RowInv, Handling, Writing, Touches
<1> QED BY <1>2, <1>3, <1>4

\* The same for all notes, of a call that goes between places that have nothing to index.
LEMMA CallPasses ==
    ASSUME IndexInv, NEW c \in Clients, NEW k, Goes(c, k),
           k.at \notin {"unindex", "saved", "index"},
           call[c].at \notin {"unindex", "index"}, call[c].at = "saved" => disk[call[c].note] = Gone,
           UNCHANGED <<disk, index, due, queue, hand, server, doubt>>
    PROVE  SureInv'
<1> SUFFICES ASSUME NEW n \in Notes PROVE Known(n)'
  BY DEF SureInv
<1>1. call'[c] = k /\ \A d \in Clients \ {c} : call'[d] = call[d]
  BY OnlyItsCall DEF IndexInv, Inv
<1>2. Sure(n)' => Sure(n)
  BY DEF Sure, Queued
<1>3. ~Writing(c, n)
  BY DEF Writing, Touches
<1>4. ~Touches(c, n)'
  BY <1>1 DEF Touches
<1> QED BY <1>1, <1>2, <1>3, <1>4, NoteLeft DEF IndexInv, SureInv

-----------------------------------------------------------------------------
(* Where things are *)

\* Nothing is pending at the start, and the index is that of the files.
LEMMA InitPlace == Init => DoubtInv /\ PlaceInv /\ SureInv
<1> SUFFICES ASSUME Init PROVE DoubtInv /\ PlaceInv /\ SureInv
  OBVIOUS
<1>1. First.text # {} /\ NoCall.at = "idle" /\ Asleep.at = "asleep"
  BY DEF First, NoCall, Asleep
<1>2. PlaceInv
  BY <1>1, GoneIsAFile DEF Init, PlaceInv
<1>3. SureInv
  BY <1>1 DEF Init, SureInv, Known, HandsInv, CallsInv, RowInv, Handling
<1>4. DoubtInv
  BY DEF Init, DoubtInv
<1> QED BY <1>2, <1>3, <1>4

\* Every step keeps the kinds of doubt and the states of the server.
LEMMA DoubtStep ==
    ASSUME DoubtInv, Types, [Next]_vars
    PROVE  DoubtInv'
<1>1. \/ UNCHANGED doubt
      \/ \E n \in Notes, d \in {"none", "missed", "raced"} : doubt' = [doubt EXCEPT ![n] = d]
      \/ doubt' = [n \in Notes |-> "none"]
  <2>1. CASE Scan \/ StartWatch \/ Crash \/ UNCHANGED vars
    BY <2>1 DEF Scan, StartWatch, Crash, vars
  <2>2. ASSUME NEW c \in Clients, Step(c) PROVE UNCHANGED doubt
    BY <2>2 DEF Step, Put, Lock, Check, Save, RemoveFile, Unindex, Reload, Index, Done
  <2>3. ASSUME NEW c \in Clients, NEW n \in Notes, Peek(c, n) PROVE UNCHANGED doubt
    BY <2>3 DEF Peek
  <2>4. ASSUME NEW c \in Clients, NEW n \in Notes, NEW op \in Ops, NEW match \in BOOLEAN, Ask(c, n, op, match)
        PROVE  UNCHANGED doubt
    BY <2>4 DEF Ask
  <2>5. ASSUME NEW n \in Notes, Edit(n) \/ Fire(n)
        PROVE  UNCHANGED doubt \/ doubt' = [doubt EXCEPT ![n] = "missed"]
    BY <2>5 DEF Edit, Fire
  <2>6. ASSUME NEW w \in Workers, Pop(w)
        PROVE  UNCHANGED doubt \/ (Head(queue) \in Notes /\ \E d \in {"none", "raced"} :
                                       doubt' = [doubt EXCEPT ![Head(queue)] = d])
    <3>1. CASE queue = <<>>
      BY <2>6, <3>1 DEF Pop
    <3>2. CASE queue # <<>>
      <4> DEFINE m == Head(queue)
                 alone == (\A v \in Workers \ {w} : ~Handling(v, m)) /\ (\A c \in Clients : ~Indexing(c, m))
                 d == IF alone THEN "none" ELSE "raced"
      <4>1. doubt' = [doubt EXCEPT ![m] = d]
        BY <2>6, <3>2 DEF Pop
      <4>2. d \in {"none", "raced"} /\ m \in Notes
        BY <3>2 DEF Types
      <4> HIDE DEF d
      <4> QED BY <4>1, <4>2
    <3> QED BY <3>1, <3>2
  <2>7. ASSUME NEW w \in Workers, Wake(w) \/ Compare(w) \/ Settle(w) PROVE UNCHANGED doubt
    BY <2>7 DEF Wake, Compare, Settle
  <2> QED BY <2>1, <2>2, <2>3, <2>4, <2>5, <2>6, <2>7 DEF Next, Work
<1>2. server' \in {server, "down", "scanned", "up"}
  BY DEF Next, Step, Work, Put, Lock, Check, Save, RemoveFile, Unindex, Reload, Index, Done, Peek, Ask, Edit, Fire,
         Wake, Pop, Compare, Settle, Scan, StartWatch, Crash, vars
<1> QED BY <1>1, <1>2 DEF DoubtInv

\* A call that goes on keeps its kind and its notes.
LEMMA PlaceCall ==
    ASSUME IndexInv, NEW c \in Clients, NEW k, Goes(c, k),
           k.at \in {"lock", "check", "save", "unindex"} => (k.op = "rename" <=> k.note # k.to),
           server # "down", index' \in [Notes -> AnyFile], UNCHANGED <<queue, hand, server>>,
           server # "up" => due' = {},
           \A n \in Notes : disk'[n] # Gone => disk'[n].text # {}
    PROVE  PlaceInv'
<1>1. call'[c] = k /\ \A d \in Clients \ {c} : call'[d] = call[d]
  BY OnlyItsCall DEF IndexInv, Inv
<1> QED BY <1>1 DEF IndexInv, PlaceInv

\* Every step keeps where things are.
LEMMA PlaceStep ==
    ASSUME IndexInv, [Next]_vars
    PROVE  PlaceInv'
<1> USE DEF files, calls, watch
<1>0. /\ Inv /\ PlaceInv /\ Types /\ LockInv
      /\ NoCall.at = "idle" /\ Asleep.at = "asleep"
      /\ \A n \in Notes : disk[n] # Gone => disk[n].text # {}
  BY DEF IndexInv, Inv, PlaceInv, NoCall, Asleep
<1>1. ASSUME NEW c \in Clients, NEW n \in Notes, Peek(c, n) PROVE PlaceInv'
  <2> DEFINE k == [call[c] EXCEPT !.at = "put", !.note = n, !.file = disk[n]]
  <2>1. Goes(c, k) /\ k.at = "put"
    BY <1>0, <1>1, PeekGoes, CallFields DEF CallT
  <2>2. server # "down" /\ UNCHANGED <<disk, index, due, queue, hand, server>>
    BY <1>1 DEF Peek
  <2> HIDE DEF k
  <2> QED BY <1>0, <2>1, <2>2, PlaceCall DEF PlaceInv
<1>2. ASSUME NEW c \in Clients, Put(c) PROVE PlaceInv'
  <2>1. Goes(c, NoCall)
    BY <1>2, NoCallIsACall DEF Put, Goes
  <2>2. server # "down" /\ UNCHANGED <<disk, index, due, queue, hand, server>>
    BY <1>2 DEF Put, At
  <2> QED BY <1>0, <2>1, <2>2, PlaceCall DEF PlaceInv
<1>3. ASSUME NEW c \in Clients, NEW n \in Notes, NEW op \in Ops, NEW match \in BOOLEAN, Ask(c, n, op, match)
      PROVE  PlaceInv'
  <2>1. PICK m \in IF op = "rename" THEN Notes \ {n} ELSE {n} :
          call' = [call EXCEPT ![c] = [at |-> "lock", op |-> op, note |-> n, to |-> m,
                                       etag |-> IF match THEN Loaded(n) ELSE Gone,
                                       locks |-> {n, m}, file |-> Gone]]
    BY <1>3 DEF Ask
  <2>2. server # "down" /\ UNCHANGED <<disk, index, due, queue, hand, server>>
    BY <1>3 DEF Ask
  <2>3. /\ call'[c].op = op /\ call'[c].note = n /\ call'[c].to = m
        /\ \A d \in Clients \ {c} : call'[d] = call[d]
    BY <1>0, <2>1 DEF Types
  <2>4. op = "rename" <=> n # m
    BY <2>1
  <2> QED BY <1>0, <2>2, <2>3, <2>4 DEF PlaceInv
<1>4. ASSUME NEW c \in Clients, Lock(c) PROVE PlaceInv'
  <2> DEFINE k == [call[c] EXCEPT !.locks = call[c].locks \ {NextLock(c)},
                               !.at = IF call[c].locks = {NextLock(c)} THEN "check" ELSE "lock"]
  <2>1. Goes(c, k) /\ k.op = call[c].op /\ k.note = call[c].note /\ k.to = call[c].to
    BY <1>0, <1>4, LockGoes, CallFields DEF CallT
  <2>2. server # "down" /\ call[c].at = "lock" /\ UNCHANGED <<disk, index, due, queue, hand, server>>
    BY <1>4 DEF Lock, At
  <2> HIDE DEF k
  <2> QED BY <1>0, <2>1, <2>2, PlaceCall DEF PlaceInv
<1>5. ASSUME NEW c \in Clients, Check(c) PROVE PlaceInv'
  <2> DEFINE k == [call[c] EXCEPT !.at = "save", !.file = disk[call[c].note]]
  <2>1. call[c].note \in Notes /\ call[c].at = "check"
    BY <1>0, <1>5 DEF Check, At, LockInv, Inside, Places
  <2>2. server # "down" /\ UNCHANGED <<disk, index, due, queue, hand, server>>
    BY <1>5 DEF Check, At
  <2>3. Goes(c, k) \/ Goes(c, NoCall)
    BY <1>0, <1>5, <2>1, CheckGoes
  <2>4. k.op = call[c].op /\ k.note = call[c].note /\ k.to = call[c].to
    BY <1>0, CallFields DEF CallT
  <2> HIDE DEF k
  <2> QED BY <1>0, <2>1, <2>2, <2>3, <2>4, PlaceCall DEF PlaceInv
<1>6. ASSUME NEW c \in Clients, Save(c) PROVE PlaceInv'
  <2> DEFINE k == [call[c] EXCEPT !.at = "saved"]
  <2>1. Goes(c, k) /\ k.at = "saved"
    BY <1>0, <1>6, SaveGoes, CallFields DEF CallT
  <2>2. server # "down" /\ UNCHANGED <<index, queue, hand, server>> /\ (server # "up" => due' = due)
    BY <1>6 DEF Save, At, Due
  <2>3. \A n \in Notes : disk'[n] = disk[n] \/ (last + 1 \in disk'[n].text)
    BY <1>0, <1>6 DEF Save, Written, Types
  <2> HIDE DEF k
  <2> QED BY <1>0, <2>1, <2>2, <2>3, PlaceCall DEF PlaceInv
<1>7. ASSUME NEW c \in Clients, RemoveFile(c) PROVE PlaceInv'
  <2> DEFINE k == [call[c] EXCEPT !.at = "unindex"]
  <2>1. Goes(c, k) \/ Goes(c, NoCall)
    BY <1>0, <1>7, RemoveGoes
  <2>2. k.op = call[c].op /\ k.note = call[c].note /\ k.to = call[c].to
    BY <1>0, CallFields DEF CallT
  <2>3. server # "down" /\ call[c].at = "save" /\ UNCHANGED <<index, queue, hand, server>>
        /\ (server # "up" => due' = due)
    BY <1>7 DEF RemoveFile, At, Due
  <2>4. call[c].note \in Notes
    BY <1>0, <2>3 DEF LockInv, Inside, Places
  <2>5. \A n \in Notes : disk'[n] \in {disk[n], Gone, disk[call[c].note]}
    BY <1>0, <1>7, <2>4 DEF RemoveFile, Note, Types
  <2> HIDE DEF k
  <2> QED BY <1>0, <2>1, <2>2, <2>3, <2>4, <2>5, PlaceCall DEF PlaceInv
<1>8. ASSUME NEW c \in Clients, Unindex(c) PROVE PlaceInv'
  <2>1. PICK a \in {"saved", "done"} : Goes(c, [call[c] EXCEPT !.at = a, !.note = call[c].to])
    BY <1>0, <1>8, UnindexGoes
  <2> DEFINE k == [call[c] EXCEPT !.at = a, !.note = call[c].to]
  <2>2. k.at = a
    BY <1>0, CallFields DEF CallT
  <2>3. server # "down" /\ UNCHANGED <<disk, due, queue, hand, server>> /\ index' \in [Notes -> AnyFile]
    BY <1>0, <1>8, GoneIsAFile DEF Unindex, At, PlaceInv
  <2> HIDE DEF k
  <2> QED BY <1>0, <2>1, <2>2, <2>3, PlaceCall DEF PlaceInv, k
<1>9. ASSUME NEW c \in Clients, Reload(c) PROVE PlaceInv'
  <2> DEFINE k == [call[c] EXCEPT !.at = "index", !.file = disk[call[c].note]]
  <2>1. call[c].note \in Notes
    BY <1>0, <1>9 DEF Reload, At, LockInv, Inside, Places
  <2>2. server # "down" /\ UNCHANGED <<disk, index, due, queue, hand, server>>
    BY <1>9 DEF Reload, At
  <2>3. Goes(c, k) \/ Goes(c, NoCall)
    BY <1>0, <1>9, <2>1, ReloadGoes
  <2>4. k.at = "index"
    BY <1>0, CallFields DEF CallT
  <2> HIDE DEF k
  <2> QED BY <1>0, <2>1, <2>2, <2>3, <2>4, PlaceCall DEF PlaceInv
<1>10. ASSUME NEW c \in Clients, Index(c) PROVE PlaceInv'
  <2> DEFINE k == [call[c] EXCEPT !.at = "done"]
  <2>1. Goes(c, k) /\ k.at = "done" /\ call[c].file \in AnyFile
    BY <1>0, <1>10, IndexGoes, CallFields DEF CallT
  <2>2. server # "down" /\ UNCHANGED <<disk, due, queue, hand, server>> /\ index' \in [Notes -> AnyFile]
    BY <1>0, <1>10, <2>1 DEF Index, At, PlaceInv
  <2> HIDE DEF k
  <2> QED BY <1>0, <2>1, <2>2, PlaceCall DEF PlaceInv
<1>11. ASSUME NEW c \in Clients, Done(c) PROVE PlaceInv'
  <2>1. Goes(c, NoCall)
    BY <1>11, EndGoes DEF Done
  <2>2. server # "down" /\ UNCHANGED <<disk, index, due, queue, hand, server>>
    BY <1>11 DEF Done, At
  <2> QED BY <1>0, <2>1, <2>2, PlaceCall DEF PlaceInv
<1>12. ASSUME NEW n \in Notes, Edit(n) PROVE PlaceInv'
  <2>1. \A m \in Notes : disk'[m] \in {disk[m], Gone} \/ last + 1 \in disk'[m].text
    BY <1>0, <1>12 DEF Edit, Written, Types
  <2> QED BY <1>0, <1>12, <2>1 DEF Edit, PlaceInv, Due
<1>13. ASSUME NEW n \in Notes, Fire(n) PROVE PlaceInv'
  BY <1>0, <1>13 DEF Fire, PlaceInv
<1>14. ASSUME NEW w \in Workers, Work(w) PROVE PlaceInv'
  <2>1. UNCHANGED <<disk, call, server>>
    BY <1>14 DEF Work, Wake, Pop, Compare, Settle
  <2>2. server # "up" => due' = {} /\ queue' = <<>> /\ \A v \in Workers : hand'[v].at \in {"asleep", "next"}
    <3> SUFFICES ASSUME server # "up"
                 PROVE  due' = {} /\ queue' = <<>> /\ \A v \in Workers : hand'[v].at \in {"asleep", "next"}
      OBVIOUS
    <3>1. due = {} /\ queue = <<>> /\ \A v \in Workers : hand[v].at \in {"asleep", "next"}
      BY <1>0 DEF PlaceInv
    <3>2. hand \in [Workers -> HandT]
      BY <1>0 DEF Types
    <3>3. CASE Wake(w)
      BY <3>1, <3>2, <3>3 DEF Wake, HandT
    <3>4. CASE Pop(w)
      BY <1>0, <3>1, <3>2, <3>4 DEF Pop
    <3> QED BY <1>14, <3>1, <3>3, <3>4 DEF Work, Compare, Settle
  <2>3. index' \in [Notes -> AnyFile]
    <3>1. CASE Settle(w)
      <4>1. hand[w].note \in Nat /\ hand[w].file \in AnyFile
        BY <1>0 DEF Types, HandT
      <4>2. PICK r : index' = [index EXCEPT ![hand[w].note] = r]
                     /\ (r = hand[w].file \/ r = Gone
                           \/ /\ index[hand[w].note] # Gone
                              /\ r = [index[hand[w].note] EXCEPT !.stamp = hand[w].file.stamp])
        <5> DEFINE n == hand[w].note
                   r == CASE hand[w].at = "upsert" -> hand[w].file
                        [] hand[w].at = "touch" ->
                             IF index[n] = Gone THEN Gone ELSE [index[n] EXCEPT !.stamp = hand[w].file.stamp]
                        [] hand[w].at = "drop" -> Gone
        <5>1. index' = [index EXCEPT ![n] = r] /\ hand[w].at \in {"upsert", "touch", "drop"}
          BY <3>1 DEF Settle
        <5>2. \/ r = hand[w].file \/ r = Gone
              \/ index[n] # Gone /\ r = [index[n] EXCEPT !.stamp = hand[w].file.stamp]
          BY <5>1
        <5> QED BY <5>1, <5>2
      <4>3. hand[w].note \in Notes => r \in AnyFile
        BY <1>0, <4>1, <4>2, GoneIsAFile DEF PlaceInv, AnyFile
      <4> QED BY <1>0, <4>2, <4>3 DEF PlaceInv
    <3>2. CASE ~Settle(w)
      BY <1>0, <1>14, <3>2 DEF Work, Wake, Pop, Compare, PlaceInv
    <3> QED BY <3>1, <3>2
  <2> QED BY <1>0, <2>1, <2>2, <2>3 DEF PlaceInv
<1>15. ASSUME Scan PROVE PlaceInv'
  BY <1>0, <1>15 DEF Scan, PlaceInv, Types
<1>16. ASSUME StartWatch PROVE PlaceInv'
  BY <1>0, <1>16 DEF StartWatch, PlaceInv
<1>17. ASSUME Crash PROVE PlaceInv'
  BY <1>0, <1>17 DEF Crash, PlaceInv
<1>18. ASSUME UNCHANGED vars PROVE PlaceInv'
  BY <1>0, <1>18 DEF vars, PlaceInv
<1> QED BY <1>1, <1>2, <1>3, <1>4, <1>5, <1>6, <1>7, <1>8, <1>9, <1>10, <1>11, <1>12, <1>13, <1>14, <1>15, <1>16,
           <1>17, <1>18
        DEF Next, Step

-----------------------------------------------------------------------------
(* What is known of a note *)

\* Before the watch is on, a call that changed its note holds its lock, and is the only one to have it.
LEMMA ScannedSave ==
    ASSUME IndexInv, NEW c \in Clients, NEW k, Goes(c, k), server # "up", NEW n \in Notes,
           call[c].at = "save", n \in {call[c].note, call[c].to},
           k.note = call[c].note, k.to = call[c].to,
           \/ k.at = "saved" /\ k.note = k.to /\ disk'[n] # Gone
           \/ k.at = "unindex" /\ (disk'[n] = Gone <=> n = call[c].note),
           UNCHANGED hand
    PROVE  Known(n)'
<1>1. call'[c] = k /\ \A d \in Clients \ {c} : call'[d] = call[d]
  BY OnlyItsCall DEF IndexInv, Inv
<1>2. \A d \in Clients \ {c} : ~Touches(d, n)
  BY DEF IndexInv, Inv, LockInv, Touches, Inside, Places
<1>3. \A w \in Workers : ~Handling(w, n)'
  BY DEF IndexInv, PlaceInv, Handling
<1>4. HandsInv(n)'
  BY <1>3 DEF HandsInv
<1>5. CallsInv(n)'
  BY <1>1, <1>2 DEF CallsInv, Touches
<1>6. Writing(c, n)'
  BY <1>1 DEF Writing, Touches
<1>7. RowInv(n)'
  BY <1>6 DEF RowInv
<1> QED BY <1>4, <1>5, <1>7 DEF Known

\* A save leaves an event, or, with the watch not on, a call that is to index its note.
LEMMA SaveKnown ==
    ASSUME IndexInv, NEW c \in Clients, Save(c)
    PROVE  SureInv'
<1> SUFFICES ASSUME NEW n \in Notes PROVE Known(n)'
  BY DEF SureInv
<1> DEFINE k == [call[c] EXCEPT !.at = "saved"]
<1>1. Goes(c, k) /\ k.at = "saved" /\ k.note = call[c].note /\ k.to = call[c].to
  BY SaveGoes, CallFields DEF IndexInv, Inv, CallT
<1>2. /\ call[c].at = "save" /\ call[c].note = call[c].to /\ call[c].note \in Notes
      /\ UNCHANGED <<index, queue, hand, server, doubt>>
  BY DEF Save, At, IndexInv, Inv, PlaceInv, LockInv, Inside, Places
<1>3. /\ \A m \in Notes \ {call[c].note} : disk'[m] = disk[m]
      /\ disk'[call[c].note] # Gone
      /\ due' = IF server = "up" THEN due \cup {call[c].note} ELSE due
  <2>1. disk'[call[c].note].stamp = last + 1
    BY <1>2 DEF Save, Written, Note, IndexInv, Inv, Types
  <2>2. last + 1 # 0
    BY DEF IndexInv, Inv, Types
  <2> QED BY <1>2, <2>1, <2>2, GoneIsAFile DEF Save, Written, Note, Due, IndexInv, Inv, Types
<1> HIDE DEF k
<1>4. CASE n # call[c].note
  <2>1. ~Writing(c, n) /\ ~Touches(c, n)'
    BY <1>1, <1>2, <1>4, OnlyItsCall DEF Writing, Touches, IndexInv, Inv
  <2>2. Sure(n)' => Sure(n)
    BY <1>2, <1>3 DEF Sure, Queued
  <2>3. \A d \in Clients \ {c} : call'[d] = call[d]
    BY <1>1, OnlyItsCall DEF IndexInv, Inv
  <2> QED BY <1>2, <1>3, <1>4, <2>1, <2>2, <2>3, NoteLeft DEF IndexInv, SureInv
<1>5. CASE n = call[c].note /\ server = "up"
  BY <1>3, <1>5 DEF Known, Sure
<1>6. CASE n = call[c].note /\ server # "up"
  BY <1>1, <1>2, <1>3, <1>6, ScannedSave
<1> QED BY <1>4, <1>5, <1>6

\* So does a removal of the file, of both notes of a rename.
LEMMA RemoveKnown ==
    ASSUME IndexInv, NEW c \in Clients, RemoveFile(c)
    PROVE  SureInv'
<1> DEFINE k == [call[c] EXCEPT !.at = "unindex"]
<1>1. k.at = "unindex" /\ k.note = call[c].note /\ k.to = call[c].to /\ k.op = call[c].op
  BY CallFields DEF IndexInv, Inv, CallT
<1>2. /\ call[c].at = "save" /\ call[c].note \in Notes /\ call[c].to \in Notes
      /\ call[c].op \in {"delete", "rename"}
      /\ call[c].op = "rename" <=> call[c].note # call[c].to
      /\ UNCHANGED <<index, queue, hand, server, doubt>>
  BY DEF RemoveFile, At, IndexInv, Inv, PlaceInv, LockInv, Inside, Places
<1>3. CASE ~Exists(Note(c))
  <2>1. Goes(c, NoCall) /\ UNCHANGED <<disk, due>> /\ NoCall.at = "idle"
    BY <1>3, EndGoes DEF RemoveFile, NoCall
  <2> QED BY <1>2, <2>1, CallPasses
<1>4. CASE Exists(Note(c))
  <2> SUFFICES ASSUME NEW n \in Notes PROVE Known(n)'
    BY DEF SureInv
  <2>1. Goes(c, k)
    BY <1>4, CallFields DEF RemoveFile, Goto, Goes, CallT, Places, IndexInv, Inv
  <2>2. /\ \A m \in Notes \ {call[c].note, call[c].to} : disk'[m] = disk[m]
        /\ disk'[call[c].note] = Gone
        /\ call[c].note # call[c].to => disk'[call[c].to] # Gone
        /\ due' = IF server = "up" THEN due \cup {call[c].note, call[c].to} ELSE due
    BY <1>2, <1>4 DEF RemoveFile, Note, Due, Exists, IndexInv, Inv, Types
  <2> HIDE DEF k
  <2>3. CASE n \notin {call[c].note, call[c].to}
    <3>1. ~Writing(c, n) /\ ~Touches(c, n)'
      BY <1>1, <1>2, <2>1, <2>3, OnlyItsCall DEF Writing, Touches, IndexInv, Inv
    <3>2. Sure(n)' => Sure(n)
      BY <1>2, <2>2 DEF Sure, Queued
    <3>3. \A d \in Clients \ {c} : call'[d] = call[d]
      BY <2>1, OnlyItsCall DEF IndexInv, Inv
    <3> QED BY <1>2, <2>2, <2>3, <3>1, <3>2, <3>3, NoteLeft DEF IndexInv, SureInv
  <2>4. CASE n \in {call[c].note, call[c].to} /\ server = "up"
    BY <2>2, <2>4 DEF Known, Sure
  <2>5. CASE n \in {call[c].note, call[c].to} /\ server # "up"
    BY <1>1, <1>2, <2>1, <2>2, <2>5, ScannedSave
  <2> QED BY <2>3, <2>4, <2>5
<1> QED BY <1>3, <1>4

\* The row a call drops is of a note it removed; of a rename, the other note is still to be indexed.
LEMMA UnindexKnown ==
    ASSUME IndexInv, NEW c \in Clients, Unindex(c)
    PROVE  SureInv'
<1> SUFFICES ASSUME NEW n \in Notes PROVE Known(n)'
  BY DEF SureInv
<1> DEFINE a == IF call[c].op = "rename" THEN "saved" ELSE "done"
           k == [call[c] EXCEPT !.at = a, !.note = call[c].to]
<1>1. Goes(c, k) /\ k.at = a /\ k.note = call[c].to
  BY CallFields DEF Unindex, Goes, IndexInv, Inv, CallT, Places
<1>2. /\ call[c].at = "unindex" /\ call[c].note \in Notes
      /\ call[c].op = "rename" <=> call[c].note # call[c].to
      /\ UNCHANGED <<disk, due, queue, hand, server, doubt>>
  BY DEF Unindex, At, IndexInv, Inv, PlaceInv, LockInv, Inside, Places, watch
<1>3. index'[call[c].note] = Gone /\ \A m \in Notes \ {call[c].note} : index'[m] = index[m]
  BY <1>2 DEF Unindex, Note, IndexInv, PlaceInv
<1>4. call'[c] = k /\ \A d \in Clients \ {c} : call'[d] = call[d]
  BY <1>1, OnlyItsCall DEF IndexInv, Inv
<1>5. Sure(n)' => Sure(n)
  BY <1>2 DEF Sure, Queued
<1> HIDE DEF k
<1>6. CASE n \notin {call[c].note, call[c].to}
  <2>1. ~Writing(c, n) /\ ~Touches(c, n)'
    BY <1>1, <1>2, <1>4, <1>6 DEF Writing, Touches
  <2> QED BY <1>2, <1>3, <1>4, <1>5, <1>6, <2>1, NoteLeft DEF IndexInv, SureInv
<1>7. ASSUME n \in {call[c].note, call[c].to}, Sure(n)' PROVE (HandsInv(n) /\ CallsInv(n) /\ RowInv(n))'
  <2>1. HandsInv(n) /\ CallsInv(n) /\ RowInv(n)
    BY <1>5, <1>7 DEF IndexInv, SureInv, Known
  <2>2. n = call[c].note => disk[n] = Gone
    BY <1>2, <2>1 DEF CallsInv
  <2>3. n # call[c].note => disk[n] # Gone /\ call[c].op = "rename" /\ n = call[c].to
    BY <1>2, <1>7, <2>1 DEF CallsInv
  <2>4. HandsInv(n)'
    BY <1>2, <1>3, <2>1, <2>2 DEF HandsInv, Handling
  <2>5. CallsInv(n)'
    BY <1>1, <1>2, <1>4, <2>1 DEF CallsInv
  <2>6. RowInv(n)'
    <3>1. CASE n = call[c].note
      BY <1>2, <1>3, <2>2, <3>1 DEF RowInv
    <3>2. CASE n # call[c].note
      <4>1. Writing(c, n)'
        BY <1>1, <1>2, <1>4, <2>3, <3>2 DEF Writing, Touches
      <4> QED BY <4>1 DEF RowInv
    <3> QED BY <3>1, <3>2
  <2> QED BY <2>4, <2>5, <2>6
<1> QED BY <1>6, <1>7 DEF Known

\* What a call reads to index is the note as it is, or the note is gone and nobody has to index it.
LEMMA ReloadKnown ==
    ASSUME IndexInv, NEW c \in Clients, Reload(c)
    PROVE  SureInv'
<1> DEFINE k == [call[c] EXCEPT !.at = "index", !.file = disk[call[c].note]]
<1>1. /\ call[c].at = "saved" /\ call[c].note \in Notes
      /\ UNCHANGED <<disk, index, due, queue, hand, server, doubt>>
  BY DEF Reload, At, IndexInv, Inv, LockInv, Inside, Places, watch
<1>2. CASE ~Exists(Note(c))
  <2>1. Goes(c, NoCall) /\ NoCall.at = "idle" /\ disk[call[c].note] = Gone
    BY <1>2, EndGoes DEF Reload, NoCall, Exists, Note
  <2> QED BY <1>1, <2>1, CallPasses
<1>3. CASE Exists(Note(c))
  <2> SUFFICES ASSUME NEW n \in Notes PROVE Known(n)'
    BY DEF SureInv
  <2>1. Goes(c, k) /\ k.at = "index" /\ k.note = call[c].note /\ k.file = disk[call[c].note]
    <3>1. Loaded(Note(c)) = disk[call[c].note] /\ disk[call[c].note] \in AnyFile
      BY <1>1, LoadedIsDisk DEF IndexInv, Inv, Types, Note
    <3>2. call' = [call EXCEPT ![c].at = "index", ![c].file = disk[call[c].note]]
      BY <1>3, <3>1 DEF Reload
    <3>3. k \in CallT
      <4>1. call[c] \in CallT
        BY CallFields DEF IndexInv, Inv
      <4> QED BY <3>1, <4>1 DEF CallT, Places
    <3>4. call' = [call EXCEPT ![c] = k]
      BY <3>2, CallFields DEF IndexInv, Inv
    <3> QED BY <3>3, <3>4, CallFields DEF Goes, IndexInv, Inv, CallT
  <2>2. call'[c] = k /\ \A d \in Clients \ {c} : call'[d] = call[d]
    BY <2>1, OnlyItsCall DEF IndexInv, Inv
  <2>3. Sure(n)' => Sure(n)
    BY <1>1 DEF Sure, Queued
  <2> HIDE DEF k
  <2>4. CASE n # call[c].note
    <3>1. ~Writing(c, n) /\ ~Touches(c, n)'
      BY <1>1, <2>1, <2>2, <2>4 DEF Writing, Touches
    <3> QED BY <1>1, <2>2, <2>3, <3>1, NoteLeft DEF IndexInv, SureInv
  <2>5. ASSUME n = call[c].note, Sure(n)' PROVE (HandsInv(n) /\ CallsInv(n) /\ RowInv(n))'
    <3>1. HandsInv(n) /\ CallsInv(n) /\ RowInv(n)
      BY <2>3, <2>5 DEF IndexInv, SureInv, Known
    <3>2. HandsInv(n)'
      BY <1>1, <3>1 DEF HandsInv, Handling
    <3>3. CallsInv(n)'
      BY <1>1, <2>1, <2>2, <2>5, <3>1 DEF CallsInv
    <3>4. Writing(c, n)'
      BY <2>1, <2>2, <2>5 DEF Writing, Touches
    <3>5. RowInv(n)'
      BY <3>4 DEF RowInv
    <3> QED BY <3>2, <3>3, <3>5
  <2> QED BY <2>4, <2>5 DEF Known
<1> QED BY <1>2, <1>3

\* What a call indexes of a note that is known is the note as it is.
LEMMA IndexKnown ==
    ASSUME IndexInv, NEW c \in Clients, Index(c)
    PROVE  SureInv'
<1> SUFFICES ASSUME NEW n \in Notes PROVE Known(n)'
  BY DEF SureInv
<1> DEFINE k == [call[c] EXCEPT !.at = "done"]
<1>1. Goes(c, k) /\ k.at = "done"
  BY IndexGoes, CallFields DEF IndexInv, Inv, CallT
<1>2. /\ call[c].at = "index" /\ call[c].note \in Notes
      /\ UNCHANGED <<disk, due, queue, hand, server, doubt>>
  BY DEF Index, At, IndexInv, Inv, LockInv, Inside, Places, watch
<1>3. index'[call[c].note] = call[c].file /\ \A m \in Notes \ {call[c].note} : index'[m] = index[m]
  BY <1>2 DEF Index, Note, IndexInv, PlaceInv
<1>4. call'[c] = k /\ \A d \in Clients \ {c} : call'[d] = call[d]
  BY <1>1, OnlyItsCall DEF IndexInv, Inv
<1>5. Sure(n)' => Sure(n)
  BY <1>2 DEF Sure, Queued
<1> HIDE DEF k
<1>6. CASE n # call[c].note
  <2>1. ~Writing(c, n) /\ ~Touches(c, n)'
    BY <1>1, <1>2, <1>4, <1>6 DEF Writing, Touches
  <2> QED BY <1>2, <1>3, <1>4, <1>5, <1>6, <2>1, NoteLeft DEF IndexInv, SureInv
<1>7. ASSUME n = call[c].note, Sure(n)' PROVE (HandsInv(n) /\ CallsInv(n) /\ RowInv(n))'
  <2>1. HandsInv(n) /\ CallsInv(n) /\ RowInv(n)
    BY <1>5, <1>7 DEF IndexInv, SureInv, Known
  <2>2. index'[n] = disk[n]
    BY <1>2, <1>3, <1>7, <2>1 DEF CallsInv
  <2>3. HandsInv(n)'
    BY <1>2, <2>1, <2>2 DEF HandsInv, Handling
  <2>4. CallsInv(n)'
    BY <1>1, <1>2, <1>4, <2>1 DEF CallsInv
  <2>5. RowInv(n)'
    BY <1>2, <2>2 DEF RowInv
  <2> QED BY <2>3, <2>4, <2>5
<1> QED BY <1>6, <1>7 DEF Known

\* A worker that is alone with a note when it reads it knows all that is to know.
LEMMA PopKnown ==
    ASSUME IndexInv, NEW w \in Workers, Pop(w)
    PROVE  SureInv'
<1> SUFFICES ASSUME NEW n \in Notes PROVE Known(n)'
  BY DEF SureInv
<1>1. hand[w].at = "next" /\ ~Handling(w, n) /\ UNCHANGED <<disk, index, call, due, server>>
  BY DEF Pop, Handling, files, calls
<1>2. hand \in [Workers -> HandT] /\ queue \in Seq(Notes) /\ doubt' \in {doubt, doubt'}
  BY DEF IndexInv, Inv, Types
<1>3. CASE queue = <<>>
  <2>1. hand' = [hand EXCEPT ![w] = Asleep] /\ UNCHANGED <<queue, doubt>> /\ Asleep.at = "asleep"
    BY <1>3 DEF Pop, Asleep
  <2>2. \A v \in Workers : hand'[v] = hand[v] \/ (~Handling(v, n) /\ ~Handling(v, n)')
    BY <1>1, <1>2, <2>1 DEF Handling
  <2>3. Sure(n)' => Sure(n)
    BY <1>1, <2>1 DEF Sure, Queued
  <2> QED BY <1>1, <2>2, <2>3, NoteLeft DEF IndexInv, SureInv
<1>4. CASE queue # <<>>
  <2> DEFINE m == Head(queue)
             h == [at |-> IF Exists(m) THEN "compare" ELSE "drop", note |-> m, file |-> disk[m]]
             alone == (\A v \in Workers \ {w} : ~Handling(v, m)) /\ (\A c \in Clients : ~Indexing(c, m))
  <2>1. /\ hand' = [hand EXCEPT ![w] = h] /\ queue' = Tail(queue)
        /\ doubt' = [doubt EXCEPT ![m] = IF alone THEN "none" ELSE "raced"]
    BY <1>4 DEF Pop
  <2>2. /\ hand'[w] = h /\ \A v \in Workers \ {w} : hand'[v] = hand[v]
        /\ h.note = m /\ h.file = disk[m] /\ h.at \in {"compare", "drop"} /\ (h.at = "drop" <=> disk[m] = Gone)
    BY <1>2, <2>1 DEF Exists
  <2>3. CASE n # m
    <3>1. \A v \in Workers : hand'[v] = hand[v] \/ (~Handling(v, n) /\ ~Handling(v, n)')
      BY <1>1, <2>2, <2>3 DEF Handling
    <3>2. Queued(n) => Queued(n)'
      <4>1. SUFFICES ASSUME NEW i \in DOMAIN queue, queue[i] = n PROVE \E j \in DOMAIN queue' : queue'[j] = n
        BY DEF Queued, ToSet
      <4>2. i \in 1 .. Len(queue) /\ i # 1
        BY <1>2, <1>4, <2>3, <4>1
      <4>3. i - 1 \in DOMAIN queue' /\ queue'[i - 1] = n
        BY <1>2, <1>4, <2>1, <4>1, <4>2
      <4> QED BY <4>3
    <3>3. Sure(n)' => Sure(n)
      <4>1. doubt'[n] = doubt[n]
        BY <2>1, <2>3
      <4> QED BY <1>1, <3>2, <4>1 DEF Sure
    <3> QED BY <1>1, <3>1, <3>3, NoteLeft DEF IndexInv, SureInv
  <2>4. ASSUME n = m, Sure(n)' PROVE (HandsInv(n) /\ CallsInv(n) /\ RowInv(n))'
    <3>0. doubt'[m] = (IF alone THEN "none" ELSE "raced")
      BY <2>1, <2>4 DEF IndexInv, DoubtInv
    <3>1. alone
      <4> HIDE DEF alone
      <4> QED BY <2>4, <3>0 DEF Sure
    <3>2. \A v \in Workers : Handling(v, n)' => v = w
      BY <2>2, <2>4, <3>1 DEF Handling
    <3>3. HandsInv(n)'
      BY <1>1, <2>2, <2>4, <3>2 DEF HandsInv, Handling
    <3>4. \A c \in Clients : ~(call[c].at = "index" /\ call[c].note = n)
                             /\ ~(call[c].at = "unindex" /\ n \in {call[c].note, call[c].to})
      BY <2>4, <3>1 DEF Indexing, Note
    <3>5. CallsInv(n)'
      BY <1>1, <3>4 DEF CallsInv
    <3>6. RowInv(n)'
      BY <2>2, <2>4 DEF RowInv, Handling
    <3> QED BY <3>3, <3>5, <3>6
  <2> QED BY <2>3, <2>4 DEF Known
<1> QED BY <1>3, <1>4

\* A worker passes a note by only when its row is that of the file.
LEMMA CompareKnown ==
    ASSUME IndexInv, NEW w \in Workers, Compare(w)
    PROVE  SureInv'
<1> SUFFICES ASSUME NEW n \in Notes PROVE Known(n)'
  BY DEF SureInv
<1>1. hand[w].at = "compare" /\ UNCHANGED <<disk, index, call, due, queue, server, doubt>>
  BY DEF Compare, files, calls
<1>2. /\ hand \in [Workers -> HandT] /\ index[n] \in AnyFile /\ disk[n] \in AnyFile
      /\ hand[w].file \in AnyFile
  BY DEF IndexInv, Inv, Types, PlaceInv, HandT
<1> DEFINE row == index[hand[w].note]
           place == IF row.text # hand[w].file.text THEN "upsert"
                    ELSE IF row.stamp # hand[w].file.stamp THEN "touch" ELSE "next"
<1>3. /\ hand'[w].note = hand[w].note /\ hand'[w].file = hand[w].file /\ hand'[w].at = place
      /\ \A v \in Workers \ {w} : hand'[v] = hand[v]
  BY <1>2 DEF Compare, HandT
<1>4. Sure(n)' => Sure(n)
  BY <1>1 DEF Sure, Queued
<1>5. CASE n # hand[w].note
  <2>1. \A v \in Workers : hand'[v] = hand[v] \/ (~Handling(v, n) /\ ~Handling(v, n)')
    BY <1>3, <1>5 DEF Handling
  <2> QED BY <1>1, <1>4, <2>1, NoteLeft DEF IndexInv, SureInv
<1>6. ASSUME n = hand[w].note, Sure(n)' PROVE (HandsInv(n) /\ CallsInv(n) /\ RowInv(n))'
  <2>1. HandsInv(n) /\ CallsInv(n) /\ RowInv(n)
    BY <1>4, <1>6 DEF IndexInv, SureInv, Known
  <2>2. /\ hand[w].file = disk[n] /\ disk[n] # Gone
        /\ \A v \in Workers : Handling(v, n) => v = w
    BY <1>1, <1>6, <2>1 DEF HandsInv, Handling
  <2>3. \A v \in Workers : Handling(v, n)' => v = w
    BY <1>3, <2>2 DEF Handling
  <2>4. place # "drop" /\ (place = "touch" => index[n].text = disk[n].text)
    BY <1>6, <2>2
  <2>5. HandsInv(n)'
    BY <1>1, <1>3, <2>2, <2>3, <2>4 DEF HandsInv
  <2>6. CallsInv(n)'
    BY <1>1, <2>1 DEF CallsInv
  <2>7. ASSUME ~Handling(w, n)' PROVE index[n] = disk[n]
    <3>1. place = "next"
      BY <1>3, <1>6, <2>7 DEF Handling
    <3>2. index[n].text = disk[n].text /\ index[n].stamp = disk[n].stamp
      BY <1>6, <2>2, <3>1
    <3> QED BY <1>2, <3>2 DEF AnyFile
  <2>8. RowInv(n)'
    BY <1>1, <2>7 DEF RowInv
  <2> QED BY <2>5, <2>6, <2>8
<1> QED BY <1>5, <1>6 DEF Known

\* What a worker writes of a note that is known makes the row that of the file.
LEMMA SettleKnown ==
    ASSUME IndexInv, NEW w \in Workers, Settle(w)
    PROVE  SureInv'
<1> SUFFICES ASSUME NEW n \in Notes PROVE Known(n)'
  BY DEF SureInv
<1>1. /\ hand[w].at \in {"upsert", "touch", "drop"}
      /\ UNCHANGED <<disk, call, due, queue, server, doubt>>
  BY DEF Settle, calls
<1>2. /\ hand \in [Workers -> HandT] /\ index \in [Notes -> AnyFile] /\ disk[n] \in AnyFile
  BY DEF IndexInv, Inv, Types, PlaceInv
<1>3. hand'[w].at = "next" /\ \A v \in Workers \ {w} : hand'[v] = hand[v]
  BY <1>2 DEF Settle, Asleep
<1> DEFINE m == hand[w].note
           touched == IF index[m] = Gone THEN Gone ELSE [index[m] EXCEPT !.stamp = hand[w].file.stamp]
           row == CASE hand[w].at = "upsert" -> hand[w].file
                    [] hand[w].at = "touch" -> touched
                    [] hand[w].at = "drop" -> Gone
<1>4. index' = [index EXCEPT ![m] = row]
  BY DEF Settle
<1>5. Sure(n)' => Sure(n)
  BY <1>1 DEF Sure, Queued
<1>6. CASE n # m
  <2>1. index'[n] = index[n]
    BY <1>2, <1>4, <1>6
  <2>2. \A v \in Workers : hand'[v] = hand[v] \/ (~Handling(v, n) /\ ~Handling(v, n)')
    BY <1>3, <1>6 DEF Handling
  <2> QED BY <1>1, <1>5, <2>1, <2>2, NoteLeft DEF IndexInv, SureInv
<1>7. ASSUME n = m, Sure(n)' PROVE (HandsInv(n) /\ CallsInv(n) /\ RowInv(n))'
  <2>1. HandsInv(n) /\ CallsInv(n) /\ RowInv(n)
    BY <1>5, <1>7 DEF IndexInv, SureInv, Known
  <2>2. /\ hand[w].file = disk[n] /\ (hand[w].at = "drop" <=> disk[n] = Gone)
        /\ hand[w].at = "touch" => index[n].text = disk[n].text
        /\ \A v \in Workers : Handling(v, n) => v = w
    BY <1>1, <1>7, <2>1 DEF HandsInv, Handling
  <2>3. \A v \in Workers : ~Handling(v, n)'
    BY <1>3, <2>2 DEF Handling
  <2>4. index'[n] = disk[n]
    <3>1. CASE hand[w].at = "upsert"
      BY <1>2, <1>4, <1>7, <2>2, <3>1
    <3>2. CASE hand[w].at = "touch"
      <4>1. index[n] # Gone
        <5>1. disk[n].text # {}
          BY <2>2, <3>2 DEF IndexInv, PlaceInv
        <5> QED BY <2>2, <3>2, <5>1 DEF Gone
      <4>2. row = [index[n] EXCEPT !.stamp = disk[n].stamp]
        BY <1>7, <2>2, <3>2, <4>1
      <4>3. [index[n] EXCEPT !.stamp = disk[n].stamp] = disk[n]
        <5>1. index[n] \in AnyFile /\ index[n].text = disk[n].text
          BY <1>2, <2>2, <3>2
        <5> QED BY <1>2, <5>1 DEF AnyFile
      <4> QED BY <1>2, <1>4, <1>7, <4>2, <4>3
    <3>3. CASE hand[w].at = "drop"
      BY <1>2, <1>4, <1>7, <2>2, <3>3
    <3> QED BY <1>1, <3>1, <3>2, <3>3
  <2>5. HandsInv(n)'
    BY <2>3 DEF HandsInv
  <2>6. CallsInv(n)'
    BY <1>1, <2>1 DEF CallsInv
  <2>7. RowInv(n)'
    BY <1>1, <2>4 DEF RowInv
  <2> QED BY <2>5, <2>6, <2>7
<1> QED BY <1>6, <1>7 DEF Known

\* A note edited outside has an event to come, or was edited unseen.
LEMMA EditKnown ==
    ASSUME IndexInv, NEW m \in Notes, Edit(m)
    PROVE  SureInv'
<1> SUFFICES ASSUME NEW n \in Notes PROVE Known(n)'
  BY DEF SureInv
<1>1. UNCHANGED <<index, call, queue, hand, server>>
  BY DEF Edit, calls
<1>2. /\ disk \in [Notes -> AnyFile] /\ doubt \in [Notes -> {"none", "missed", "raced"}]
      /\ server \in {"down", "scanned", "up"}
  BY DEF IndexInv, Inv, Types, DoubtInv
<1>3. CASE n = m
  <2>1. ~Sure(n)'
    <3>1. CASE server = "up"
      BY <1>3, <3>1 DEF Edit, Due, Sure
    <3>2. CASE server = "scanned"
      BY <1>2, <1>3, <3>2 DEF Edit, Sure
    <3>3. CASE server \notin {"up", "scanned"}
      BY <1>1, <1>2, <3>3 DEF Sure
    <3> QED BY <3>1, <3>2, <3>3
  <2> QED BY <2>1 DEF Known
<1>4. CASE n # m
  <2>1. disk'[n] = disk[n] /\ doubt'[n] = doubt[n] /\ (n \in due => n \in due')
    BY <1>2, <1>4 DEF Edit, Written, Due
  <2>2. Sure(n)' => Sure(n)
    BY <1>1, <2>1 DEF Sure, Queued
  <2> QED BY <1>1, <2>1, <2>2, NoteLeft DEF IndexInv, SureInv
<1> QED BY <1>3, <1>4

\* A timer that fires leaves its note in the queue.
LEMMA FireKnown ==
    ASSUME IndexInv, NEW m \in Notes, Fire(m)
    PROVE  SureInv'
<1> SUFFICES ASSUME NEW n \in Notes PROVE Known(n)'
  BY DEF SureInv
<1>1. UNCHANGED <<disk, index, call, hand, server, doubt>> /\ due' = due \ {m}
  BY DEF Fire, files, calls
<1>2. queue \in Seq(Notes) /\ (queue' = queue \/ queue' = Append(queue, m)) /\ (queue' = queue => Queued(m))
  <2>1. queue \in Seq(Notes)
    BY DEF IndexInv, Inv, Types
  <2>2. Append(queue, m) # queue
    BY <2>1
  <2> QED BY <2>1, <2>2 DEF Fire
<1>3. Queued(m)'
  <2>1. CASE queue' = queue
    BY <1>2, <2>1 DEF Queued
  <2>2. CASE queue' = Append(queue, m)
    <3>1. Len(queue') \in DOMAIN queue' /\ queue'[Len(queue')] = m
      BY <1>2, <2>2
    <3> QED BY <3>1 DEF Queued, ToSet
  <2> QED BY <1>2, <2>1, <2>2
<1>4. CASE n = m
  BY <1>3, <1>4 DEF Known, Sure
<1>5. CASE n # m
  <2>1. Queued(n) => Queued(n)'
    <3>1. SUFFICES ASSUME NEW i \in DOMAIN queue, queue[i] = n PROVE \E j \in DOMAIN queue' : queue'[j] = n
      BY DEF Queued, ToSet
    <3>2. i \in DOMAIN queue' /\ queue'[i] = n
      BY <1>2, <3>1
    <3> QED BY <3>2
  <2>2. Sure(n)' => Sure(n)
    BY <1>1, <1>5, <2>1 DEF Sure
  <2> QED BY <1>1, <2>2, NoteLeft DEF IndexInv, SureInv
<1> QED BY <1>4, <1>5

-----------------------------------------------------------------------------
(* The steps *)

\* Every step keeps what is known.
LEMMA SureStep ==
    ASSUME IndexInv, [Next]_vars
    PROVE  SureInv'
<1> USE DEF files, calls, watch
<1>0. Inv /\ Types /\ LockInv /\ NoCall.at = "idle"
  BY DEF IndexInv, Inv, NoCall
<1>1. ASSUME NEW c \in Clients, NEW n \in Notes, Peek(c, n) PROVE SureInv'
  <2> DEFINE k == [call[c] EXCEPT !.at = "put", !.note = n, !.file = disk[n]]
  <2>1. Goes(c, k) /\ k.at = "put"
    BY <1>0, <1>1, PeekGoes, CallFields DEF CallT
  <2>2. call[c].at = "idle" /\ UNCHANGED <<disk, index, due, queue, hand, server, doubt>>
    BY <1>1 DEF Peek, Idle
  <2> HIDE DEF k
  <2> QED BY <2>1, <2>2, CallPasses
<1>2. ASSUME NEW c \in Clients, Put(c) PROVE SureInv'
  <2>1. Goes(c, NoCall)
    BY <1>2, NoCallIsACall DEF Put, Goes
  <2>2. call[c].at = "put" /\ UNCHANGED <<disk, index, due, queue, hand, server, doubt>>
    BY <1>2 DEF Put, At
  <2> QED BY <1>0, <2>1, <2>2, CallPasses
<1>3. ASSUME NEW c \in Clients, NEW n \in Notes, NEW op \in Ops, NEW match \in BOOLEAN, Ask(c, n, op, match)
      PROVE  SureInv'
  <2>1. PICK m \in Notes, e \in {Gone, disk[n]} :
          Goes(c, [at |-> "lock", op |-> op, note |-> n, to |-> m, etag |-> e, locks |-> {n, m}, file |-> Gone])
    BY <1>0, <1>3, AskGoes
  <2>2. call[c].at = "idle" /\ UNCHANGED <<disk, index, due, queue, hand, server, doubt>>
    BY <1>3 DEF Ask, Idle
  <2> QED BY <2>1, <2>2, CallPasses
<1>4. ASSUME NEW c \in Clients, Lock(c) PROVE SureInv'
  <2> DEFINE k == [call[c] EXCEPT !.locks = call[c].locks \ {NextLock(c)},
                               !.at = IF call[c].locks = {NextLock(c)} THEN "check" ELSE "lock"]
  <2>1. Goes(c, k) /\ k.at \in {"check", "lock"}
    BY <1>0, <1>4, LockGoes, CallFields DEF CallT
  <2>2. call[c].at = "lock" /\ UNCHANGED <<disk, index, due, queue, hand, server, doubt>>
    BY <1>4 DEF Lock, At
  <2> HIDE DEF k
  <2> QED BY <2>1, <2>2, CallPasses
<1>5. ASSUME NEW c \in Clients, Check(c) PROVE SureInv'
  <2> DEFINE k == [call[c] EXCEPT !.at = "save", !.file = disk[call[c].note]]
  <2>1. call[c].note \in Notes /\ call[c].at = "check"
    BY <1>0, <1>5 DEF Check, At, LockInv, Inside, Places
  <2>2. UNCHANGED <<disk, index, due, queue, hand, server, doubt>>
    BY <1>5 DEF Check
  <2>3. Goes(c, k) \/ Goes(c, NoCall)
    BY <1>0, <1>5, <2>1, CheckGoes
  <2>4. k.at = "save"
    BY <1>0, CallFields DEF CallT
  <2> HIDE DEF k
  <2> QED BY <1>0, <2>1, <2>2, <2>3, <2>4, CallPasses
<1>6. ASSUME NEW c \in Clients, Done(c) PROVE SureInv'
  <2>1. Goes(c, NoCall)
    BY <1>6, EndGoes DEF Done
  <2>2. call[c].at = "done" /\ UNCHANGED <<disk, index, due, queue, hand, server, doubt>>
    BY <1>6 DEF Done, At
  <2> QED BY <1>0, <2>1, <2>2, CallPasses
<1>7. ASSUME NEW w \in Workers, Wake(w) PROVE SureInv'
  <2>1. UNCHANGED <<disk, index, call, due, queue, server, doubt>> /\ hand[w].at = "asleep"
    BY <1>7 DEF Wake
  <2>2. hand'[w].at = "next" /\ \A v \in Workers \ {w} : hand'[v] = hand[v]
    BY <1>0, <1>7 DEF Wake, Types, HandT
  <2>3. SUFFICES ASSUME NEW n \in Notes PROVE Known(n)'
    BY DEF SureInv
  <2>4. \A v \in Workers : hand'[v] = hand[v] \/ (~Handling(v, n) /\ ~Handling(v, n)')
    BY <2>1, <2>2 DEF Handling
  <2>5. Sure(n)' => Sure(n)
    BY <2>1 DEF Sure, Queued
  <2> QED BY <2>1, <2>4, <2>5, NoteLeft DEF IndexInv, SureInv
<1>8. CASE Scan
  <2>1. /\ index' = disk /\ UNCHANGED <<disk, call, hand>>
        /\ \A w \in Workers : hand[w].at \in {"asleep", "next"}
        /\ \A c \in Clients : call[c].at = "idle"
    BY <1>8 DEF Scan, IndexInv, PlaceInv
  <2> QED BY <2>1 DEF SureInv, Known, HandsInv, CallsInv, RowInv, Handling
<1>9. CASE StartWatch
  <2>1. UNCHANGED <<disk, index, call, due, queue, hand, doubt>> /\ server = "scanned"
    BY <1>9 DEF StartWatch
  <2>2. \A n \in Notes : Sure(n)' => Sure(n)
    BY <2>1 DEF Sure, Queued
  <2> QED BY <2>1, <2>2, NoteLeft DEF IndexInv, SureInv
<1>10. CASE Crash
  BY <1>10 DEF Crash, SureInv, Known, Sure
<1>11. CASE UNCHANGED vars
  <2>1. \A n \in Notes : Sure(n)' => Sure(n)
    BY <1>11 DEF vars, Sure, Queued
  <2> QED BY <1>11, <2>1, NoteLeft DEF vars, IndexInv, SureInv
<1>12. ASSUME NEW c \in Clients, Step(c) PROVE SureInv'
  BY <1>2, <1>4, <1>5, <1>6, <1>12, SaveKnown, RemoveKnown, UnindexKnown, ReloadKnown, IndexKnown DEF Step
<1>13. ASSUME NEW w \in Workers, Work(w) PROVE SureInv'
  BY <1>7, <1>13, PopKnown, CompareKnown, SettleKnown DEF Work
<1> QED BY <1>1, <1>3, <1>8, <1>9, <1>10, <1>11, <1>12, <1>13, EditKnown, FireKnown DEF Next

\* The invariant holds always.
LEMMA IndexInvariance == Spec => []IndexInv
<1>1. Init => DoubtInv /\ PlaceInv /\ SureInv
  BY InitPlace
<1>2. Inv /\ DoubtInv /\ PlaceInv /\ SureInv /\ [Next]_vars => (DoubtInv /\ PlaceInv /\ SureInv)'
  BY DoubtStep, PlaceStep, SureStep DEF IndexInv, Inv
<1>3. Spec => [](DoubtInv /\ PlaceInv /\ SureInv)
  BY <1>1, <1>2, Invariance, PTL DEF Spec
<1> QED BY <1>3, Invariance, PTL DEF IndexInv

\* SettledIndex: whatever wrote them and in whatever order, notes at rest are indexed as they are
\* on disk, when one worker alone read them after their last event (handle, saveAndIndex, Scan).
THEOREM IndexFollowsFiles == Spec => []SettledIndex
<1>1. ASSUME IndexInv, NEW n \in Notes, AtRest(n), doubt[n] = "none"
      PROVE  index[n] = disk[n]
  <2>1. Sure(n) /\ \A w \in Workers : ~Handling(w, n)
    BY <1>1 DEF AtRest, Sure
  <2>2. \A c \in Clients : ~Writing(c, n)
    BY <1>1 DEF AtRest, Writing, Touches, Note
  <2>3. RowInv(n)
    BY <1>1, <2>1 DEF IndexInv, SureInv, Known
  <2> QED BY <2>1, <2>2, <2>3 DEF RowInv
<1>2. IndexInv => SettledIndex
  BY <1>1 DEF SettledIndex
<1> QED BY <1>2, IndexInvariance, PTL

-----------------------------------------------------------------------------
(* The bounds *)

\* The calls that are still to write a file: each takes a stamp, once.
Saving(c) == call[c].op \in {"create", "replace", "append"} /\ call[c].at \in {"lock", "check", "save"}
Pending == {c \in Clients : Saving(c)}

\* There is a stamp left for every call that is still to write, and for every call and edit to come.
StampsInv ==
    /\ left \in [calls : Nat, edits : Nat, crashes : Nat, moves : Nat]
    /\ IsFiniteSet(Pending)
    /\ last + Cardinality(Pending) + left.calls + left.edits <= MaxCalls + MaxEdits

\* No path is queued twice.
WatchInv ==
    /\ due \subseteq Notes /\ wake \in BOOLEAN
    /\ \A i, j \in 1 .. Len(queue) : queue[i] = queue[j] => i = j

\* What is kept of a file, wherever it is kept, has stamps there are, and what is in hand is a note.
WithinInv ==
    /\ disk \in [Notes -> File] /\ index \in [Notes -> File] /\ cache \in [Notes -> File]
    /\ \A c \in Clients : /\ call[c].etag \in File /\ call[c].file \in File
                          /\ call[c].note \in Notes \cup {0} /\ call[c].to \in Notes \cup {0}
    /\ \A w \in Workers : hand[w].file \in File /\ hand[w].note \in Notes \cup {0}

\* With no more calls still to write, nor more of the rest, there are stamps enough.
LEMMA StampsKept ==
    ASSUME StampsInv, last \in Nat, last' = last, Pending' \subseteq Pending,
           left' \in [calls : Nat, edits : Nat, crashes : Nat, moves : Nat],
           left'.calls <= left.calls, left'.edits <= left.edits
    PROVE  StampsInv'
<1>1. /\ IsFiniteSet(Pending') /\ Cardinality(Pending') <= Cardinality(Pending)
      /\ Cardinality(Pending') \in Nat /\ Cardinality(Pending) \in Nat
  BY FS_Subset, FS_CardinalityType DEF StampsInv
<1>2. /\ left.calls \in Nat /\ left.edits \in Nat /\ left'.calls \in Nat /\ left'.edits \in Nat
  BY DEF StampsInv
<1>3. last + Cardinality(Pending') + left'.calls + left'.edits
        <= last + Cardinality(Pending) + left.calls + left.edits
  BY <1>1, <1>2
<1> QED BY <1>1, <1>2, <1>3, BoundsAssumption DEF StampsInv

\* What is spent is not left.
LEMMA Spent ==
    ASSUME StampsInv, NEW kind \in {"calls", "edits", "crashes"}, Spend(kind)
    PROVE  /\ left' \in [calls : Nat, edits : Nat, crashes : Nat, moves : Nat]
           /\ left'.calls = IF kind = "calls" THEN left.calls - 1 ELSE left.calls
           /\ left'.edits = IF kind = "edits" THEN left.edits - 1 ELSE left.edits
<1>1. /\ left = [calls |-> left.calls, edits |-> left.edits, crashes |-> left.crashes, moves |-> left.moves]
      /\ left.calls \in Nat /\ left.edits \in Nat /\ left.crashes \in Nat /\ left.moves \in Nat
  BY DEF StampsInv
<1>2. left[kind] > 0 /\ left.moves > 0 /\ left' = [left EXCEPT ![kind] = left[kind] - 1, !.moves = left.moves - 1]
  BY DEF Spend
<1>3. CASE kind = "calls"
  <2>1. left' = [calls |-> left.calls - 1, edits |-> left.edits, crashes |-> left.crashes, moves |-> left.moves - 1]
    BY <1>1, <1>2, <1>3
  <2>2. left.calls - 1 \in Nat /\ left.moves - 1 \in Nat
    <3>1. left[kind] = left.calls
      BY <1>3, Zenon
    <3>2. left[kind] > 0 /\ left.moves > 0
      BY DEF Spend
    <3>3. left.calls \in Nat /\ left.edits \in Nat /\ left.crashes \in Nat /\ left.moves \in Nat
      BY DEF StampsInv
    <3> QED BY <3>1, <3>2, <3>3
  <2>3. left' \in [calls : Nat, edits : Nat, crashes : Nat, moves : Nat]
    BY <1>1, <2>1, <2>2
  <2>4. /\ left'.calls = left.calls - 1
        /\ left'.edits = left.edits
    BY <2>1
  <2> QED BY <1>3, <2>3, <2>4
<1>4. CASE kind = "edits"
  <2>1. left' = [calls |-> left.calls, edits |-> left.edits - 1, crashes |-> left.crashes, moves |-> left.moves - 1]
    BY <1>1, <1>2, <1>4
  <2>2. left.edits - 1 \in Nat /\ left.moves - 1 \in Nat
    <3>1. left[kind] = left.edits
      BY <1>4, Zenon
    <3>2. left[kind] > 0 /\ left.moves > 0
      BY DEF Spend
    <3>3. left.calls \in Nat /\ left.edits \in Nat /\ left.crashes \in Nat /\ left.moves \in Nat
      BY DEF StampsInv
    <3> QED BY <3>1, <3>2, <3>3
  <2>3. left' \in [calls : Nat, edits : Nat, crashes : Nat, moves : Nat]
    BY <1>1, <2>1, <2>2
  <2>4. /\ left'.calls = left.calls
        /\ left'.edits = left.edits - 1
    BY <2>1
  <2> QED BY <1>4, <2>3, <2>4
<1>5. CASE kind = "crashes"
  <2>1. left' = [calls |-> left.calls, edits |-> left.edits, crashes |-> left.crashes - 1, moves |-> left.moves - 1]
    BY <1>1, <1>2, <1>5
  <2>2. left.crashes - 1 \in Nat /\ left.moves - 1 \in Nat
    <3>1. left[kind] = left.crashes
      BY <1>5, Zenon
    <3>2. left[kind] > 0 /\ left.moves > 0
      BY DEF Spend
    <3>3. left.calls \in Nat /\ left.edits \in Nat /\ left.crashes \in Nat /\ left.moves \in Nat
      BY DEF StampsInv
    <3> QED BY <3>1, <3>2, <3>3
  <2>3. left' \in [calls : Nat, edits : Nat, crashes : Nat, moves : Nat]
    BY <1>1, <2>1, <2>2
  <2>4. /\ left'.calls = left.calls
        /\ left'.edits = left.edits
    BY <2>1
  <2> QED BY <1>5, <2>3, <2>4
<1> QED BY <1>3, <1>4, <1>5

\* Of the calls, only that of c may be one more that is still to write.
LEMMA PendingGoes ==
    ASSUME Types, NEW c \in Clients, NEW k, Goes(c, k)
    PROVE  /\ Pending' \subseteq Pending \cup {c}
           /\ ~(k.op \in {"create", "replace", "append"} /\ k.at \in {"lock", "check", "save"}) =>
                  Pending' \subseteq Pending \ {c}
           /\ (k.op \in {"create", "replace", "append"} /\ k.at \in {"lock", "check", "save"} => Saving(c)) =>
                  Pending' \subseteq Pending
<1>1. call'[c] = k /\ \A d \in Clients \ {c} : call'[d] = call[d]
  BY OnlyItsCall
<1> QED BY <1>1 DEF Pending, Saving

\* Every step leaves a stamp for every call that is still to write: only a call that begins comes to these,
\* and it was counted among those to come; a write takes its stamp and leaves them.
LEMMA StampsStep ==
    ASSUME Inv, StampsInv, [Next]_vars
    PROVE  StampsInv'
<1> USE DEF Inv
<1>0. /\ Types /\ last \in Nat /\ left \in [calls : Nat, edits : Nat, crashes : Nat, moves : Nat]
      /\ IsFiniteSet(Pending) /\ Cardinality(Pending) \in Nat
      /\ last + Cardinality(Pending) + left.calls + left.edits <= MaxCalls + MaxEdits
  BY FS_CardinalityType DEF Types, StampsInv
<1>1. ASSUME NEW c \in Clients, NEW k, Goes(c, k), UNCHANGED <<last, left>>,
             k.op \in {"create", "replace", "append"} /\ k.at \in {"lock", "check", "save"} => Saving(c)
      PROVE  StampsInv'
  <2>1. Pending' \subseteq Pending
    BY <1>0, <1>1, PendingGoes
  <2> QED BY <1>0, <1>1, <2>1, StampsKept
<1>2. NoCall.op = "none"
  BY DEF NoCall
<1>3. ASSUME NEW c \in Clients, End(c), UNCHANGED <<last, left>> PROVE StampsInv'
  BY <1>1, <1>2, <1>3, EndGoes
<1>4. ASSUME NEW c \in Clients, NEW n \in Notes, Peek(c, n) PROVE StampsInv'
  <2> DEFINE k == [call[c] EXCEPT !.at = "put", !.note = n, !.file = disk[n]]
  <2>1. Goes(c, k) /\ k.at = "put"
    BY <1>0, <1>4, PeekGoes, CallFields DEF CallT
  <2>2. last' = last /\ Spend("calls")
    BY <1>4 DEF Peek
  <2> HIDE DEF k
  <2>3. Pending' \subseteq Pending
    BY <1>0, <2>1, PendingGoes
  <2>4. /\ left' \in [calls : Nat, edits : Nat, crashes : Nat, moves : Nat]
        /\ left'.calls = left.calls - 1 /\ left'.edits = left.edits
    BY <2>2, Spent
  <2>5. left'.calls <= left.calls /\ left'.edits <= left.edits
    BY <1>0, <2>4
  <2> QED BY <1>0, <2>2, <2>3, <2>4, <2>5, StampsKept
<1>5. ASSUME NEW c \in Clients, Put(c) PROVE StampsInv'
  <2>1. Goes(c, NoCall)
    BY <1>5, NoCallIsACall DEF Put, Goes
  <2> QED BY <1>1, <1>2, <1>5, <2>1 DEF Put
<1>6. ASSUME NEW c \in Clients, NEW n \in Notes, NEW op \in Ops, NEW match \in BOOLEAN, Ask(c, n, op, match)
      PROVE  StampsInv'
  <2>1. Pending' \subseteq Pending \cup {c}
    <3>1. PICK m \in Notes, e \in {Gone, disk[n]} :
            Goes(c, [at |-> "lock", op |-> op, note |-> n, to |-> m, etag |-> e, locks |-> {n, m}, file |-> Gone])
      BY <1>6, AskGoes
    <3> DEFINE k == [at |-> "lock", op |-> op, note |-> n, to |-> m, etag |-> e, locks |-> {n, m}, file |-> Gone]
    <3>2. Goes(c, k)
      BY <3>1
    <3> HIDE DEF k
    <3> QED BY <1>0, <3>2, PendingGoes
  <2>2. last' = last /\ Spend("calls")
    BY <1>6 DEF Ask
  <2>3. /\ left' \in [calls : Nat, edits : Nat, crashes : Nat, moves : Nat]
        /\ left'.calls = left.calls - 1 /\ left'.edits = left.edits
    BY <2>2, Spent
  <2>4. IsFiniteSet(Pending \cup {c}) /\ Cardinality(Pending \cup {c}) <= Cardinality(Pending) + 1
    <3>1. /\ IsFiniteSet(Pending \cup {c})
          /\ Cardinality(Pending \cup {c}) = IF c \in Pending THEN Cardinality(Pending) ELSE Cardinality(Pending) + 1
      BY <1>0, FS_AddElement
    <3> QED BY <1>0, <3>1
  <2>5. IsFiniteSet(Pending') /\ Cardinality(Pending') <= Cardinality(Pending \cup {c})
    BY <2>1, <2>4, FS_Subset
  <2>6. Cardinality(Pending') \in Nat /\ Cardinality(Pending \cup {c}) \in Nat
    BY <2>4, <2>5, FS_CardinalityType
  <2>7. left.calls \in Nat /\ left.edits \in Nat
    BY <1>0
  <2>8. last' + Cardinality(Pending') + left'.calls + left'.edits <= MaxCalls + MaxEdits
    BY <1>0, <2>2, <2>3, <2>4, <2>5, <2>6, <2>7, BoundsAssumption
  <2> QED BY <2>3, <2>5, <2>8 DEF StampsInv
<1>7. ASSUME NEW c \in Clients, Lock(c) PROVE StampsInv'
  <2> DEFINE k == [call[c] EXCEPT !.locks = call[c].locks \ {NextLock(c)},
                               !.at = IF call[c].locks = {NextLock(c)} THEN "check" ELSE "lock"]
  <2>1. Goes(c, k) /\ k.op = call[c].op
    BY <1>0, <1>7, LockGoes, CallFields DEF CallT
  <2> HIDE DEF k
  <2> QED BY <1>1, <1>7, <2>1 DEF Lock, At, Saving
<1>8. ASSUME NEW c \in Clients, Check(c) PROVE StampsInv'
  <2>1. call[c].note \in Notes /\ call[c].at = "check"
    BY <1>8 DEF Check, At, LockInv, Inside, Places
  <2> DEFINE k == [call[c] EXCEPT !.at = "save", !.file = disk[call[c].note]]
  <2>2. Goes(c, NoCall) \/ Goes(c, k)
    BY <1>8, <2>1, CheckGoes
  <2>3. k.op = call[c].op
    BY <1>0, CallFields DEF CallT
  <2> HIDE DEF k
  <2> QED BY <1>1, <1>2, <1>8, <2>1, <2>2, <2>3 DEF Check, Saving
<1>9. ASSUME NEW c \in Clients, Save(c) PROVE StampsInv'
  <2> DEFINE k == [call[c] EXCEPT !.at = "saved"]
  <2>1. Goes(c, k) /\ k.at = "saved"
    BY <1>0, <1>9, SaveGoes, CallFields DEF CallT
  <2> HIDE DEF k
  <2>2. Pending' \subseteq Pending \ {c}
    BY <1>0, <2>1, PendingGoes
  <2>3. c \in Pending
    BY <1>9 DEF Save, At, Pending, Saving
  <2>4. IsFiniteSet(Pending \ {c}) /\ Cardinality(Pending \ {c}) = Cardinality(Pending) - 1
    BY <1>0, <2>3, FS_RemoveElement
  <2>5. IsFiniteSet(Pending') /\ Cardinality(Pending') <= Cardinality(Pending \ {c})
    BY <2>2, <2>4, FS_Subset
  <2>6. Cardinality(Pending') \in Nat
    BY <2>5, FS_CardinalityType
  <2>7. last' = last + 1 /\ left' = left
    BY <1>9 DEF Save, Written
  <2>8. left.calls \in Nat /\ left.edits \in Nat
    BY <1>0
  <2>9. last' + Cardinality(Pending') + left'.calls + left'.edits <= MaxCalls + MaxEdits
    BY <1>0, <2>4, <2>5, <2>6, <2>7, <2>8, BoundsAssumption
  <2> QED BY <1>0, <2>5, <2>7, <2>9 DEF StampsInv
<1>10. ASSUME NEW c \in Clients, RemoveFile(c) PROVE StampsInv'
  <2> DEFINE k == [call[c] EXCEPT !.at = "unindex"]
  <2>1. Goes(c, NoCall) \/ Goes(c, k)
    BY <1>0, <1>10, RemoveGoes
  <2>2. k.at = "unindex"
    BY <1>0, CallFields DEF CallT
  <2> HIDE DEF k
  <2> QED BY <1>1, <1>2, <1>10, <2>1, <2>2 DEF RemoveFile
<1>11. ASSUME NEW c \in Clients, Unindex(c) PROVE StampsInv'
  <2>1. PICK a \in {"saved", "done"} : Goes(c, [call[c] EXCEPT !.at = a, !.note = call[c].to])
    BY <1>0, <1>11, UnindexGoes
  <2> DEFINE k == [call[c] EXCEPT !.at = a, !.note = call[c].to]
  <2>2. Goes(c, k) /\ k.at = a
    BY <1>0, <2>1, CallFields DEF CallT
  <2> HIDE DEF k
  <2> QED BY <1>1, <1>11, <2>2 DEF Unindex
<1>12. ASSUME NEW c \in Clients, Reload(c) PROVE StampsInv'
  <2>1. call[c].note \in Notes
    BY <1>12 DEF Reload, At, LockInv, Inside, Places
  <2> DEFINE k == [call[c] EXCEPT !.at = "index", !.file = disk[call[c].note]]
  <2>2. Goes(c, NoCall) \/ Goes(c, k)
    BY <1>12, <2>1, ReloadGoes
  <2>3. k.at = "index"
    BY <1>0, CallFields DEF CallT
  <2> HIDE DEF k
  <2> QED BY <1>1, <1>2, <1>12, <2>2, <2>3 DEF Reload
<1>13. ASSUME NEW c \in Clients, Index(c) PROVE StampsInv'
  <2> DEFINE k == [call[c] EXCEPT !.at = "done"]
  <2>1. Goes(c, k) /\ k.at = "done"
    BY <1>0, <1>13, IndexGoes, CallFields DEF CallT
  <2> HIDE DEF k
  <2> QED BY <1>1, <1>13, <2>1 DEF Index
<1>14. ASSUME NEW c \in Clients, Done(c) PROVE StampsInv'
  BY <1>3, <1>14 DEF Done
<1>15. ASSUME NEW n \in Notes, Edit(n) PROVE StampsInv'
  <2>1. Pending' = Pending /\ Spend("edits") /\ last' \in {last, last + 1}
    BY <1>15 DEF Edit, Written, calls, Pending, Saving
  <2>2. /\ left' \in [calls : Nat, edits : Nat, crashes : Nat, moves : Nat]
        /\ left'.calls = left.calls /\ left'.edits = left.edits - 1
    BY <2>1, Spent
  <2>3. left.calls \in Nat /\ left.edits \in Nat
    BY <1>0
  <2>4. last' + Cardinality(Pending') + left'.calls + left'.edits <= MaxCalls + MaxEdits
    BY <1>0, <2>1, <2>2, <2>3, BoundsAssumption
  <2> QED BY <1>0, <2>1, <2>2, <2>4 DEF StampsInv
<1>16. ASSUME Crash PROVE StampsInv'
  <2>1. Pending' \subseteq Pending /\ Spend("crashes") /\ last' = last
    BY <1>2, <1>16 DEF Crash, Pending, Saving
  <2>2. /\ left' \in [calls : Nat, edits : Nat, crashes : Nat, moves : Nat]
        /\ left'.calls = left.calls /\ left'.edits = left.edits
    BY <2>1, Spent
  <2>3. left'.calls <= left.calls /\ left'.edits <= left.edits
    BY <1>0, <2>2
  <2> QED BY <1>0, <2>1, <2>2, <2>3, StampsKept
<1>17. ASSUME UNCHANGED <<call, last, left>> PROVE StampsInv'
  <2>1. Pending' = Pending
    BY <1>17 DEF Pending, Saving
  <2> QED BY <1>17, <2>1 DEF StampsInv
<1>18. ASSUME NEW n \in Notes, Fire(n) PROVE StampsInv'
  BY <1>17, <1>18 DEF Fire, calls
<1>19. ASSUME NEW w \in Workers, Work(w) PROVE StampsInv'
  BY <1>17, <1>19 DEF Work, Wake, Pop, Compare, Settle, calls
<1>20. ASSUME Scan \/ StartWatch \/ UNCHANGED vars PROVE StampsInv'
  BY <1>17, <1>20 DEF Scan, StartWatch, calls, vars
<1>21. ASSUME NEW c \in Clients, Step(c) PROVE StampsInv'
  BY <1>5, <1>7, <1>8, <1>9, <1>10, <1>11, <1>12, <1>13, <1>14, <1>21 DEF Step
<1> QED BY <1>4, <1>6, <1>15, <1>16, <1>18, <1>19, <1>20, <1>21 DEF Next

\* A path is queued when it is not in the queue, and leaves it at its head.
LEMMA WatchStep ==
    ASSUME Inv, WatchInv, [Next]_vars
    PROVE  WatchInv'
<1> USE DEF files, calls, watch
<1>0. queue \in Seq(Notes) /\ due \subseteq Notes /\ wake \in BOOLEAN
  BY DEF Inv, Types, WatchInv
<1>1. ASSUME NEW n \in Notes, Fire(n) PROVE WatchInv'
  <2>1. due' \subseteq Notes /\ wake' \in BOOLEAN
    BY <1>0, <1>1 DEF Fire
  <2>2. CASE Queued(n)
    BY <1>1, <2>1, <2>2 DEF Fire, WatchInv
  <2>3. CASE ~Queued(n)
    <3>1. queue' = Append(queue, n)
      BY <1>1, <2>3 DEF Fire
    <3>2. \A i \in 1 .. Len(queue) : queue[i] # n
      BY <1>0, <2>3 DEF Queued, ToSet
    <3>3. /\ Len(queue') = Len(queue) + 1 /\ queue'[Len(queue) + 1] = n
          /\ \A i \in 1 .. Len(queue) : queue'[i] = queue[i]
      BY <1>0, <3>1
    <3>4. Len(queue) \in Nat
      BY <1>0
    <3> QED BY <2>1, <3>2, <3>3, <3>4 DEF WatchInv
  <2> QED BY <2>2, <2>3
<1>2. ASSUME NEW w \in Workers, Pop(w) PROVE WatchInv'
  <2>1. CASE queue = <<>>
    BY <1>0, <1>2, <2>1 DEF Pop, WatchInv
  <2>2. CASE queue # <<>>
    <3>1. queue' = Tail(queue) /\ due' = due
      BY <1>2, <2>2 DEF Pop
    <3>2. wake' \in BOOLEAN
      BY <1>2, <2>2 DEF Pop
    <3>3. Len(queue) \in Nat /\ Len(queue') = Len(queue) - 1 /\ \A i \in 1 .. Len(queue') : queue'[i] = queue[i + 1]
      BY <1>0, <2>2, <3>1
    <3> QED BY <3>1, <3>2, <3>3 DEF WatchInv
  <2> QED BY <2>1, <2>2
<1>3. ASSUME NEW w \in Workers, Wake(w) \/ Compare(w) \/ Settle(w) PROVE WatchInv'
  BY <1>0, <1>3 DEF Wake, Compare, Settle, WatchInv
<1>4. ASSUME UNCHANGED <<queue, wake>>, due' \subseteq Notes PROVE WatchInv'
  BY <1>4 DEF WatchInv
<1>5. ASSUME NEW c \in Clients, Save(c) \/ RemoveFile(c) PROVE WatchInv'
  <2>1. call[c].at = "save"
    BY <1>5 DEF Save, RemoveFile, At
  <2>2. call[c].note \in Notes /\ call[c].to \in Notes
    BY <2>1 DEF Inv, LockInv, Inside, Places
  <2>3. due' \subseteq Notes /\ UNCHANGED <<queue, wake>>
    <3>1. CASE Save(c)
      BY <1>0, <2>2, <3>1 DEF Save, Due, Note
    <3>2. CASE RemoveFile(c)
      BY <1>0, <2>2, <3>2 DEF RemoveFile, Due, Note
    <3> QED BY <1>5, <3>1, <3>2
  <2> QED BY <1>4, <2>3
<1>6. ASSUME NEW c \in Clients, Put(c) \/ Lock(c) \/ Check(c) \/ Unindex(c) \/ Reload(c) \/ Index(c) \/ Done(c)
      PROVE  WatchInv'
  BY <1>0, <1>4, <1>6 DEF Put, Lock, Check, Unindex, Reload, Index, Done
<1>7. ASSUME NEW c \in Clients, NEW n \in Notes, Peek(c, n) PROVE WatchInv'
  BY <1>0, <1>4, <1>7 DEF Peek
<1>8. ASSUME NEW c \in Clients, NEW n \in Notes, NEW op \in Ops, NEW match \in BOOLEAN, Ask(c, n, op, match)
      PROVE  WatchInv'
  BY <1>0, <1>4, <1>8 DEF Ask
<1>9. ASSUME NEW n \in Notes, Edit(n) PROVE WatchInv'
  BY <1>0, <1>4, <1>9 DEF Edit, Due
<1>10. ASSUME Scan \/ StartWatch \/ UNCHANGED vars PROVE WatchInv'
  BY <1>0, <1>4, <1>10 DEF Scan, StartWatch, vars
<1>11. ASSUME Crash PROVE WatchInv'
  <2>1. due' = {} /\ wake' = FALSE /\ queue' = <<>>
    BY <1>11 DEF Crash
  <2>2. 1 .. Len(queue') = {}
    BY <2>1
  <2>3. due' \subseteq Notes /\ wake' \in BOOLEAN
    BY <2>1
  <2> QED BY <2>2, <2>3, Zenon DEF WatchInv
<1> QED BY <1>1, <1>2, <1>3, <1>5, <1>6, <1>7, <1>8, <1>9, <1>10, <1>11 DEF Next, Step, Work

\* What holds of all that is kept holds of it after the step of a call that keeps nothing else.
LEMMA WithinCall ==
    ASSUME Types, WithinInv, NEW c \in Clients, NEW k, Goes(c, k), k.etag \in File, k.file \in File,
           k.note \in Notes \cup {0}, k.to \in Notes \cup {0}, UNCHANGED hand,
           disk' \in [Notes -> File], index' \in [Notes -> File], cache' \in [Notes -> File]
    PROVE  WithinInv'
<1>1. call'[c] = k /\ \A d \in Clients \ {c} : call'[d] = call[d]
  BY OnlyItsCall
<1> QED BY <1>1 DEF WithinInv

\* Files are only copied, but for the one a write makes, whose stamp is one there is.
LEMMA WithinStep ==
    ASSUME Inv, WithinInv, last' \in Stamps, [Next]_vars
    PROVE  WithinInv'
<1> USE DEF Inv, files, calls, watch
<1>0. /\ Types /\ disk \in [Notes -> File] /\ index \in [Notes -> File] /\ cache \in [Notes -> File]
      /\ \A c \in Clients : /\ call[c].etag \in File /\ call[c].file \in File
                            /\ call[c].note \in Notes \cup {0} /\ call[c].to \in Notes \cup {0}
      /\ \A w \in Workers : hand[w].file \in File /\ hand[w].note \in Notes \cup {0}
      /\ hand \in [Workers -> HandT]
  BY DEF Types, WithinInv
<1>1. /\ Gone \in File /\ NoCall.etag = Gone /\ NoCall.file = Gone /\ NoCall.note = 0 /\ NoCall.to = 0
      /\ Asleep.file = Gone /\ Asleep.note = 0
  BY BoundsAssumption DEF Gone, File, Stamps, NoCall, Asleep
<1>2. \A n \in Notes : CacheAfterLoad(n) \in [Notes -> File]
  BY <1>0, CacheLoaded
<1>3. ASSUME NEW c \in Clients, Goes(c, NoCall), UNCHANGED hand,
             disk' \in [Notes -> File], index' \in [Notes -> File], cache' \in [Notes -> File]
      PROVE  WithinInv'
  BY <1>0, <1>1, <1>3, WithinCall
<1>4. ASSUME NEW c \in Clients, call[c].at \in Inside PROVE call[c].note \in Notes /\ call[c].to \in Notes
  BY <1>4 DEF LockInv
<1>5. ASSUME NEW c \in Clients, NEW n \in Notes, Peek(c, n) PROVE WithinInv'
  <2> DEFINE k == [call[c] EXCEPT !.at = "put", !.note = n, !.file = disk[n]]
  <2>1. Goes(c, k) /\ k.etag = call[c].etag /\ k.file = disk[n] /\ k.note = n /\ k.to = call[c].to
    BY <1>0, <1>5, PeekGoes, CallFields DEF CallT
  <2> HIDE DEF k
  <2> QED BY <1>0, <1>5, <2>1, WithinCall DEF Peek
<1>6. ASSUME NEW c \in Clients, Put(c) PROVE WithinInv'
  <2>1. Goes(c, NoCall)
    BY <1>6, NoCallIsACall DEF Put, Goes
  <2>2. cache' \in [Notes -> File]
    BY <1>0, <1>6 DEF Put
  <2> QED BY <1>0, <1>3, <1>6, <2>1, <2>2 DEF Put
<1>7. ASSUME NEW c \in Clients, NEW n \in Notes, NEW op \in Ops, NEW match \in BOOLEAN, Ask(c, n, op, match)
      PROVE  WithinInv'
  <2>1. PICK m \in Notes, e \in {Gone, disk[n]} :
          Goes(c, [at |-> "lock", op |-> op, note |-> n, to |-> m, etag |-> e, locks |-> {n, m}, file |-> Gone])
    BY <1>7, AskGoes
  <2> DEFINE k == [at |-> "lock", op |-> op, note |-> n, to |-> m, etag |-> e, locks |-> {n, m}, file |-> Gone]
  <2>2. Goes(c, k) /\ k.etag = e /\ k.file = Gone /\ k.note = n /\ k.to = m
    BY <2>1
  <2>3. e \in File
    BY <1>0, <1>1
  <2> HIDE DEF k
  <2> QED BY <1>0, <1>1, <1>7, <2>2, <2>3, WithinCall DEF Ask
<1>8. ASSUME NEW c \in Clients, Lock(c) PROVE WithinInv'
  <2> DEFINE k == [call[c] EXCEPT !.locks = call[c].locks \ {NextLock(c)},
                               !.at = IF call[c].locks = {NextLock(c)} THEN "check" ELSE "lock"]
  <2>1. /\ Goes(c, k) /\ k.etag = call[c].etag /\ k.file = call[c].file
        /\ k.note = call[c].note /\ k.to = call[c].to
    BY <1>0, <1>8, LockGoes, CallFields DEF CallT
  <2> HIDE DEF k
  <2> QED BY <1>0, <1>8, <2>1, WithinCall DEF Lock
<1>9. ASSUME NEW c \in Clients, Check(c) PROVE WithinInv'
  <2> DEFINE k == [call[c] EXCEPT !.at = "save", !.file = disk[call[c].note]]
  <2>1. call[c].at = "check" /\ call[c].note \in Notes
    BY <1>4, <1>9 DEF Check, At, Inside, Places
  <2>2. Goes(c, NoCall) \/ Goes(c, k)
    BY <1>9, <2>1, CheckGoes
  <2>3. k.etag = call[c].etag /\ k.file = disk[call[c].note] /\ k.note = call[c].note /\ k.to = call[c].to
    BY <1>0, CallFields DEF CallT
  <2>4. cache' \in [Notes -> File] /\ UNCHANGED <<disk, index, hand>>
    BY <1>0, <1>2, <1>9, <2>1 DEF Check, Note
  <2> HIDE DEF k
  <2> QED BY <1>0, <1>3, <2>1, <2>2, <2>3, <2>4, WithinCall
<1>10. ASSUME NEW c \in Clients, Save(c) PROVE WithinInv'
  <2> DEFINE k == [call[c] EXCEPT !.at = "saved"]
             kept == IF call[c].op = "append" THEN call[c].file.text ELSE {}
             new == [text |-> kept \cup {last + 1}, stamp |-> last + 1]
  <2>1. /\ Goes(c, k) /\ k.etag = call[c].etag /\ k.file = call[c].file
        /\ k.note = call[c].note /\ k.to = call[c].to
    BY <1>0, <1>10, SaveGoes, CallFields DEF CallT
  <2>2. call[c].note \in Notes /\ last' = last + 1
    BY <1>4, <1>10 DEF Save, Written, At, Inside, Places
  <2>3. disk' = [disk EXCEPT ![call[c].note] = new] /\ cache' = [cache EXCEPT ![call[c].note] = Gone]
    BY <1>10 DEF Save, Written, Note
  <2>4. new \in File
    <3>1. kept \subseteq Stamps
      BY <1>0 DEF File
    <3> QED BY <2>2, <3>1 DEF File
  <2> HIDE DEF k, new
  <2>5. disk' \in [Notes -> File] /\ cache' \in [Notes -> File]
    BY <1>0, <1>1, <2>2, <2>3, <2>4
  <2> QED BY <1>0, <1>10, <2>1, <2>5, WithinCall DEF Save
<1>11. ASSUME NEW c \in Clients, RemoveFile(c) PROVE WithinInv'
  <2> DEFINE k == [call[c] EXCEPT !.at = "unindex"]
  <2>1. Goes(c, NoCall) \/ Goes(c, k)
    BY <1>0, <1>11, RemoveGoes
  <2>2. k.etag = call[c].etag /\ k.file = call[c].file /\ k.note = call[c].note /\ k.to = call[c].to
    BY <1>0, CallFields DEF CallT
  <2>3. call[c].note \in Notes /\ call[c].to \in Notes
    BY <1>4, <1>11 DEF RemoveFile, At, Inside, Places
  <2>4. disk' \in [Notes -> File]
    BY <1>0, <1>1, <1>11, <2>3 DEF RemoveFile, Note
  <2>5. cache' \in [Notes -> File] /\ UNCHANGED <<index, hand>>
    BY <1>0, <1>1, <1>11, <2>3 DEF RemoveFile, Note
  <2> HIDE DEF k
  <2> QED BY <1>0, <1>3, <2>1, <2>2, <2>4, <2>5, WithinCall
<1>12. ASSUME NEW c \in Clients, Unindex(c) PROVE WithinInv'
  <2>1. PICK a \in {"saved", "done"} : Goes(c, [call[c] EXCEPT !.at = a, !.note = call[c].to])
    BY <1>0, <1>12, UnindexGoes
  <2> DEFINE k == [call[c] EXCEPT !.at = a, !.note = call[c].to]
  <2>2. /\ Goes(c, k) /\ k.etag = call[c].etag /\ k.file = call[c].file
        /\ k.note = call[c].to /\ k.to = call[c].to
    BY <1>0, <2>1, CallFields DEF CallT
  <2>3. index' \in [Notes -> File] /\ UNCHANGED <<disk, cache, hand>>
    BY <1>0, <1>1, <1>12 DEF Unindex
  <2> HIDE DEF k
  <2> QED BY <1>0, <2>2, <2>3, WithinCall
<1>13. ASSUME NEW c \in Clients, Reload(c) PROVE WithinInv'
  <2> DEFINE k == [call[c] EXCEPT !.at = "index", !.file = disk[call[c].note]]
  <2>1. call[c].note \in Notes
    BY <1>4, <1>13 DEF Reload, At, Inside, Places
  <2>2. Goes(c, NoCall) \/ Goes(c, k)
    BY <1>13, <2>1, ReloadGoes
  <2>3. k.etag = call[c].etag /\ k.file = disk[call[c].note] /\ k.note = call[c].note /\ k.to = call[c].to
    BY <1>0, CallFields DEF CallT
  <2>4. cache' \in [Notes -> File] /\ UNCHANGED <<disk, index, hand>>
    BY <1>0, <1>2, <1>13, <2>1 DEF Reload, Note
  <2> HIDE DEF k
  <2> QED BY <1>0, <1>3, <2>1, <2>2, <2>3, <2>4, WithinCall
<1>14. ASSUME NEW c \in Clients, Index(c) PROVE WithinInv'
  <2> DEFINE k == [call[c] EXCEPT !.at = "done"]
  <2>1. /\ Goes(c, k) /\ k.etag = call[c].etag /\ k.file = call[c].file
        /\ k.note = call[c].note /\ k.to = call[c].to
    BY <1>0, <1>14, IndexGoes, CallFields DEF CallT
  <2>2. index' \in [Notes -> File] /\ UNCHANGED <<disk, cache, hand>>
    BY <1>0, <1>14 DEF Index
  <2> HIDE DEF k
  <2> QED BY <1>0, <2>1, <2>2, WithinCall
<1>15. ASSUME NEW c \in Clients, Done(c) PROVE WithinInv'
  <2>1. call[c].note \in Notes
    BY <1>4, <1>15 DEF Done, At, Inside, Places
  <2>2. cache' \in [Notes -> File] /\ UNCHANGED <<disk, index, hand>>
    BY <1>0, <1>2, <1>15, <2>1 DEF Done, Note
  <2> QED BY <1>0, <1>3, <1>15, <2>2, EndGoes DEF Done
<1>16. ASSUME NEW n \in Notes, Edit(n) PROVE WithinInv'
  <2>1. disk' \in [Notes -> File]
    <3>1. CASE Written(n, {last + 1})
      <4>1. last + 1 \in Stamps
        BY <3>1 DEF Written
      <4>2. [text |-> {last + 1}, stamp |-> last + 1] \in File
        BY <4>1 DEF File
      <4> QED BY <1>0, <3>1, <4>2 DEF Written
    <3>2. CASE ~Written(n, {last + 1})
      BY <1>0, <1>1, <1>16, <3>2 DEF Edit
    <3> QED BY <3>1, <3>2
  <2> QED BY <1>0, <1>16, <2>1 DEF Edit, WithinInv
<1>17. ASSUME NEW w \in Workers, Pop(w) PROVE WithinInv'
  <2>1. \A v \in Workers : hand'[v].file \in File /\ hand'[v].note \in Notes \cup {0}
    <3>1. CASE queue = <<>>
      BY <1>0, <1>1, <1>17, <3>1 DEF Pop
    <3>2. CASE queue # <<>>
      <4>1. Head(queue) \in Notes
        BY <3>2 DEF Types
      <4>2. hand' = [hand EXCEPT ![w] = [at |-> IF Exists(Head(queue)) THEN "compare" ELSE "drop",
                                         note |-> Head(queue), file |-> disk[Head(queue)]]]
        BY <1>17, <3>2 DEF Pop
      <4> QED BY <1>0, <4>1, <4>2
    <3> QED BY <3>1, <3>2
  <2> QED BY <1>0, <1>17, <2>1 DEF Pop, WithinInv
<1>18. ASSUME NEW w \in Workers, Wake(w) \/ Compare(w) PROVE WithinInv'
  <2>1. \A v \in Workers : hand'[v].file = hand[v].file /\ hand'[v].note = hand[v].note
    BY <1>0, <1>18 DEF Wake, Compare, HandT
  <2> QED BY <1>0, <1>18, <2>1 DEF Wake, Compare, WithinInv
<1>19. ASSUME NEW w \in Workers, Settle(w) PROVE WithinInv'
  <2> DEFINE n == hand[w].note
             touched == IF index[n] = Gone THEN Gone ELSE [index[n] EXCEPT !.stamp = hand[w].file.stamp]
             r == CASE hand[w].at = "upsert" -> hand[w].file
                    [] hand[w].at = "touch" -> touched
                    [] hand[w].at = "drop" -> Gone
  <2>1. index' = [index EXCEPT ![n] = r] /\ hand[w].at \in {"upsert", "touch", "drop"}
    BY <1>19 DEF Settle
  <2>2. n \in Notes => touched \in File
    BY <1>0, <1>1 DEF File
  <2>3. n \in Notes => r \in File
    BY <1>0, <1>1, <2>1, <2>2
  <2>4. index' \in [Notes -> File]
    BY <1>0, <2>1, <2>3
  <2>5. \A v \in Workers : hand'[v].file \in File /\ hand'[v].note \in Notes \cup {0}
    BY <1>0, <1>1, <1>19 DEF Settle, Asleep
  <2> QED BY <1>0, <1>19, <2>4, <2>5 DEF Settle, WithinInv
<1>20. ASSUME Crash PROVE WithinInv'
  BY <1>0, <1>1, <1>20 DEF Crash, WithinInv
<1>21. ASSUME Scan \/ StartWatch \/ UNCHANGED vars PROVE WithinInv'
  BY <1>0, <1>21 DEF Scan, StartWatch, vars, WithinInv
<1>22. ASSUME NEW n \in Notes, Fire(n) PROVE WithinInv'
  BY <1>0, <1>22 DEF Fire, WithinInv
<1>23. ASSUME NEW c \in Clients, Step(c) PROVE WithinInv'
  BY <1>6, <1>8, <1>9, <1>10, <1>11, <1>12, <1>13, <1>14, <1>15, <1>23 DEF Step
<1>24. ASSUME NEW w \in Workers, Work(w) PROVE WithinInv'
  BY <1>17, <1>18, <1>19, <1>24 DEF Work
<1> QED BY <1>5, <1>7, <1>16, <1>20, <1>21, <1>22, <1>23, <1>24 DEF Next

\* The stamps that are given are those there are.
LEMMA LastIsAStamp ==
    ASSUME StampsInv, last \in Nat
    PROVE  last \in Stamps
<1>1. Cardinality(Pending) \in Nat /\ left.calls \in Nat /\ left.edits \in Nat
  BY FS_CardinalityType DEF StampsInv
<1>2. last + Cardinality(Pending) + left.calls + left.edits <= MaxCalls + MaxEdits
  BY DEF StampsInv
<1> QED BY <1>1, <1>2, BoundsAssumption DEF Stamps

\* A queue that has no path twice is no longer than there are paths.
LEMMA QueueIsShort ==
    ASSUME queue \in Seq(Notes), WatchInv
    PROVE  queue \in BoundedSeq(Notes, Cardinality(Notes))
<1>1. Len(queue) \in Nat /\ queue \in [1 .. Len(queue) -> Notes]
  OBVIOUS
<1>2. DOMAIN queue = 1 .. Len(queue)
  BY <1>1
<1>3. IsInjective(queue)
  <2>1. \A i, j \in 1 .. Len(queue) : queue[i] = queue[j] => i = j
    BY DEF WatchInv
  <2> QED BY <1>2, <2>1, Zenon DEF IsInjective
<1>4. queue \in Injection(1 .. Len(queue), Notes)
  BY <1>1, <1>3, Zenon DEF Injection
<1>5. Cardinality(1 .. Len(queue)) <= Cardinality(Notes)
  BY <1>4, NotesAssumption, FS_Injection, Zenon
<1>6. Cardinality(1 .. Len(queue)) = Len(queue)
  BY <1>1, FS_Interval
<1>7. Cardinality(Notes) \in Nat
  BY NotesAssumption, FS_CardinalityType
<1>8. Len(queue) \in 0 .. Cardinality(Notes)
  BY <1>1, <1>5, <1>6, <1>7
<1> QED BY <1>1, <1>8 DEF BoundedSeq, SeqOf

\* The types hold always: a call takes at most one stamp, an edit one, and no path is queued twice
\* (writeWhole, the queued mark of watcher.go schedule).
THEOREM NotesTyped == Spec => []TypeOK
<1>1. Init => StampsInv /\ WatchInv /\ WithinInv
  <2> SUFFICES ASSUME Init PROVE StampsInv /\ WatchInv /\ WithinInv
    OBVIOUS
  <2>1. Pending = {}
    BY DEF Init, Pending, Saving, NoCall
  <2>2. IsFiniteSet({}) /\ Cardinality({}) = 0
    BY FS_EmptySet
  <2>3. StampsInv
    BY <2>1, <2>2, BoundsAssumption DEF Init, StampsInv
  <2>4. WatchInv
    <3>1. due = {} /\ wake = FALSE /\ queue = <<>>
      BY DEF Init
    <3>2. 1 .. Len(queue) = {}
      BY <3>1
    <3>3. due \subseteq Notes /\ wake \in BOOLEAN
      BY <3>1
    <3> QED BY <3>2, <3>3, Zenon DEF WatchInv
  <2>5. Gone \in File /\ First \in File
    BY BoundsAssumption DEF Gone, First, File, Stamps
  <2>6. WithinInv
    BY <2>5 DEF Init, WithinInv, NoCall, Asleep
  <2> QED BY <2>3, <2>4, <2>6
<1>2. Inv /\ StampsInv /\ WatchInv /\ WithinInv /\ [Next]_vars => (StampsInv /\ WatchInv /\ WithinInv)'
  <2> SUFFICES ASSUME Inv, StampsInv, WatchInv, WithinInv, [Next]_vars PROVE (StampsInv /\ WatchInv /\ WithinInv)'
    OBVIOUS
  <2>1. StampsInv' /\ WatchInv'
    BY StampsStep, WatchStep
  <2>2. last' \in Nat
    BY TypeStep DEF Inv, Types
  <2>3. last' \in Stamps
    <3>1. Cardinality(Pending') \in Nat /\ left'.calls \in Nat /\ left'.edits \in Nat
      BY <2>1, FS_CardinalityType DEF StampsInv
    <3>2. last' + Cardinality(Pending') + left'.calls + left'.edits <= MaxCalls + MaxEdits
      BY <2>1 DEF StampsInv
    <3> QED BY <2>2, <3>1, <3>2, BoundsAssumption DEF Stamps
  <2> QED BY <2>1, <2>3, WithinStep
<1>3. IndexInv /\ StampsInv /\ WatchInv /\ WithinInv => TypeOK
  <2> SUFFICES ASSUME IndexInv, StampsInv, WatchInv, WithinInv PROVE TypeOK
    OBVIOUS
  <2>1. last \in Stamps /\ queue \in BoundedSeq(Notes, Cardinality(Notes))
    BY LastIsAStamp, QueueIsShort DEF IndexInv, Inv, Types
  <2>2. ASSUME NEW c \in Clients
        PROVE  call[c] \in [at : Places, op : Ops \cup {"none"}, note : Notes \cup {0}, to : Notes \cup {0},
                            etag : File, locks : SUBSET Notes, file : File]
    BY DEF IndexInv, Inv, Types, CallT, WithinInv
  <2>3. ASSUME NEW w \in Workers PROVE hand[w] \in [at : Hands, note : Notes \cup {0}, file : File]
    BY DEF IndexInv, Inv, Types, HandT, WithinInv
  <2>4. call \in [Clients -> [at : Places, op : Ops \cup {"none"}, note : Notes \cup {0}, to : Notes \cup {0},
                              etag : File, locks : SUBSET Notes, file : File]]
    BY <2>2 DEF IndexInv, Inv, Types
  <2>5. hand \in [Workers -> [at : Hands, note : Notes \cup {0}, file : File]]
    BY <2>3 DEF IndexInv, Inv, Types
  <2>6. /\ disk \in [Notes -> File] /\ index \in [Notes -> File] /\ cache \in [Notes -> File]
        /\ lock \in [Notes -> Clients \cup {Free}] /\ due \subseteq Notes /\ wake \in BOOLEAN
        /\ server \in {"down", "scanned", "up"} /\ outside \subseteq Notes
        /\ doubt \in [Notes -> {"none", "missed", "raced"}]
    BY DEF IndexInv, Inv, Types, WithinInv, WatchInv, DoubtInv
  <2> QED BY <2>1, <2>4, <2>5, <2>6 DEF TypeOK, Places, Hands
<1>4. Spec => [](StampsInv /\ WatchInv /\ WithinInv)
  BY <1>1, <1>2, Invariance, PTL DEF Spec
<1> QED BY <1>3, <1>4, IndexInvariance, PTL

=============================================================================
