-------------------------------- MODULE Events --------------------------------
(***************************************************************************)
(* The events hub (internal/server/events) and the tool that waits on it,  *)
(* memory_wait_changes (internal/mcp/tools_wait.go).                       *)
(*                                                                         *)
(* The hub numbers each event, keeps the last of them in a ring and hands  *)
(* it to the channel of each subscriber, dropping the oldest of a channel  *)
(* that is full.  Nothing of it outlives the process.  A caller of the     *)
(* tool keeps a number, its cursor, and asks for what came after it: the   *)
(* tool subscribes, replays the ring, and when that gives nothing waits on *)
(* the channel.                                                            *)
(*                                                                         *)
(* An event is its number; log says what it was about.                     *)
(***************************************************************************)
EXTENDS Naturals, Sequences, FiniteSets

CONSTANTS
    Writers,    \* the requests that publish, and the watcher of the vault
    Callers,    \* the MCP sessions: the tool lets one wait of a session run
    None,       \* no writer, no caller
    BufLen,     \* the room of a subscriber's channel
    RingLen,    \* the room of the ring
    MaxEvents,  \* bound: the events of one process
    MaxLost,    \* bound: how many answers of the tool are lost
    MaxRestarts \* bound: how many times the server starts again

ASSUME RoomAssumption == BufLen \in Nat \ {0} /\ RingLen \in Nat \ {0}
ASSUME BoundsAssumption == MaxEvents \in Nat /\ MaxLost \in Nat /\ MaxRestarts \in Nat
ASSUME NoneAssumption == None \notin Writers \cup Callers

VARIABLES
    seq, ring, log, \* the hub's count, its ring; history: what each event is about
    pubMu,          \* the writer that holds Hub.pubMu, or None
    wpc, to, left,  \* where a writer is, the subscriber it serves, those it has still to
    subs, closed,   \* the hub's subscribers; whether Close was called
    chan,           \* the channel of each caller's subscription
    cpc,            \* where a call of the tool is
    found,          \* what ReplaySince gave it and it has not looked at yet
    last, out,      \* its last and out
    resync,         \* its answer's resync
    cursor,         \* what the caller keeps: the last cursor it was given, or NoCursor
    asked,          \* the cursor the call started from
    restarts, lost, \* how often the server started again and answers were lost
    base,           \* history: the caller asked for what comes after this event
    got,            \* history: the events the caller was told of
    dropped,        \* history: those of the call its full channel lost
    excused,        \* history: those an answer passed over for that reason
    stale           \* history: the caller's cursor counts another process's events

hub == <<seq, ring, log, pubMu, wpc, to, left>>
call == <<cpc, found, last, out, resync, asked>>
caller == <<cursor, base, got, excused, stale>>
vars == <<hub, subs, closed, chan, call, caller, dropped, restarts, lost>>

\* What an event is about: a note in the scope of the callers, the same note
\* announced by the watcher, or something the tool does not subscribe to.
Kinds == {"note", "watcher", "sidebar"}
Subscribed(n) == log[n] # "sidebar"
Matches(n) == log[n] = "note"

NoCursor == MaxEvents + 1
Numbers == 0 .. MaxEvents

TypeOK ==
    /\ seq \in Numbers
    /\ ring \in Seq(Numbers) /\ Len(ring) <= RingLen
    /\ log \in Seq(Kinds) /\ Len(log) = seq
    /\ pubMu \in Writers \cup {None}
    /\ wpc \in [Writers -> {"idle", "ring", "open", "deliver", "evict", "again"}]
    /\ to \in [Writers -> Callers \cup {None}]
    /\ left \in [Writers -> SUBSET Callers]
    /\ subs \subseteq Callers
    /\ closed \in BOOLEAN
    /\ chan \in [Callers -> Seq(Numbers)] /\ \A c \in Callers : Len(chan[c]) <= BufLen
    /\ cpc \in [Callers -> {"idle", "subscribe", "replay", "sift", "wait", "drain", "answer"}]
    /\ found \in [Callers -> Seq(Numbers)]
    /\ last \in [Callers -> Numbers]
    /\ out \in [Callers -> Seq(Numbers)]
    /\ resync \in [Callers -> BOOLEAN]
    /\ cursor \in [Callers -> Numbers \cup {NoCursor}]
    /\ asked \in [Callers -> Numbers]
    /\ restarts \in 0 .. MaxRestarts /\ lost \in 0 .. MaxLost
    /\ base \in [Callers -> Numbers \cup {NoCursor}]
    /\ got \in [Callers -> SUBSET Numbers]
    /\ dropped \in [Callers -> SUBSET Numbers]
    /\ excused \in [Callers -> SUBSET Numbers]
    /\ stale \in [Callers -> BOOLEAN]

Init ==
    /\ seq = 0 /\ ring = <<>> /\ log = <<>>
    /\ pubMu = None
    /\ wpc = [w \in Writers |-> "idle"]
    /\ to = [w \in Writers |-> None]
    /\ left = [w \in Writers |-> {}]
    /\ subs = {} /\ closed = FALSE
    /\ chan = [c \in Callers |-> <<>>]
    /\ cpc = [c \in Callers |-> "idle"]
    /\ found = [c \in Callers |-> <<>>]
    /\ last = [c \in Callers |-> 0]
    /\ out = [c \in Callers |-> <<>>]
    /\ resync = [c \in Callers |-> FALSE]
    /\ cursor = [c \in Callers |-> NoCursor]
    /\ asked = [c \in Callers |-> 0]
    /\ restarts = 0 /\ lost = 0
    /\ base = [c \in Callers |-> NoCursor]
    /\ got = [c \in Callers |-> {}]
    /\ dropped = [c \in Callers |-> {}]
    /\ excused = [c \in Callers |-> {}]
    /\ stale = [c \in Callers |-> FALSE]

-----------------------------------------------------------------------------
(* Publish, under pubMu *)

\* A bug: each step of a publish locks for itself.
NumberAlone(w, kind) ==
    /\ wpc[w] = "idle" /\ seq < MaxEvents
    /\ seq' = seq + 1
    /\ log' = Append(log, kind)
    /\ wpc' = [wpc EXCEPT ![w] = "ring"]
    /\ UNCHANGED <<ring, pubMu, to, left, subs, closed, chan, call, caller, dropped,
                   restarts, lost>>

\* Number: the writer takes the lock, and the event its number.
Number(w, kind) ==
    /\ wpc[w] = "idle" /\ pubMu = None /\ seq < MaxEvents
    /\ pubMu' = w
    /\ seq' = seq + 1
    /\ log' = Append(log, kind)
    /\ wpc' = [wpc EXCEPT ![w] = "ring"]
    /\ UNCHANGED <<ring, to, left, subs, closed, chan, call, caller, dropped, restarts, lost>>

\* A bug: the ring grows.
KeptAll(n) == Append(ring, n)

\* What the ring holds once event n came: the oldest goes when it is full.
Kept(n) == Append(IF Len(ring) >= RingLen THEN Tail(ring) ELSE ring, n)

\* Keep: the event, the last that was numbered, enters the ring.
Keep(w) ==
    /\ wpc[w] = "ring"
    /\ ring' = Kept(seq)
    /\ wpc' = [wpc EXCEPT ![w] = "open"]
    /\ UNCHANGED <<seq, log, pubMu, to, left, subs, closed, chan, call, caller, dropped,
                   restarts, lost>>

\* Someone delivers, with the read lock of Hub.mu: nobody subscribes or leaves.
Delivering == \E w \in Writers : wpc[w] \in {"deliver", "evict", "again"}

\* Open: the writer takes the read lock and starts with the subscribers of the topic.
Open(w) ==
    /\ wpc[w] = "open"
    /\ left' = [left EXCEPT ![w] = IF Subscribed(seq) THEN subs ELSE {}]
    /\ wpc' = [wpc EXCEPT ![w] = "deliver"]
    /\ UNCHANGED <<seq, ring, log, pubMu, to, subs, closed, chan, call, caller, dropped,
                   restarts, lost>>

\* A bug: a full channel keeps what it has, and the event is lost instead.
DeliverOrNot(w, c) ==
    /\ wpc[w] = "deliver" /\ c \in left[w]
    /\ chan' = IF Len(chan[c]) < BufLen THEN [chan EXCEPT ![c] = Append(@, seq)] ELSE chan
    /\ left' = [left EXCEPT ![w] = @ \ {c}]
    /\ UNCHANGED <<seq, ring, log, pubMu, wpc, to, subs, closed, call, caller, dropped,
                   restarts, lost>>

\* Deliver: the event goes to a subscriber whose channel has room.
Deliver(w, c) ==
    /\ wpc[w] = "deliver" /\ c \in left[w]
    /\ IF Len(chan[c]) < BufLen
       THEN /\ chan' = [chan EXCEPT ![c] = Append(@, seq)]
            /\ left' = [left EXCEPT ![w] = @ \ {c}]
            /\ UNCHANGED <<wpc, to>>
       ELSE /\ wpc' = [wpc EXCEPT ![w] = "evict"]
            /\ to' = [to EXCEPT ![w] = c]
            /\ UNCHANGED <<chan, left>>
    /\ UNCHANGED <<seq, ring, log, pubMu, subs, closed, call, caller, dropped, restarts, lost>>

\* Evict: the oldest of a full channel goes, unless the call has just emptied it.
Evict(w) ==
    /\ wpc[w] = "evict"
    /\ LET c == to[w] IN
       IF chan[c] = <<>>
       THEN UNCHANGED <<chan, dropped>>
       ELSE /\ dropped' = [dropped EXCEPT ![c] = @ \cup {Head(chan[c])}]
            /\ chan' = [chan EXCEPT ![c] = Tail(@)]
    /\ wpc' = [wpc EXCEPT ![w] = "again"]
    /\ UNCHANGED <<seq, ring, log, pubMu, to, left, subs, closed, call, caller, restarts, lost>>

\* Again: the second try, which finds room.
Again(w) ==
    /\ wpc[w] = "again"
    /\ chan' = [chan EXCEPT ![to[w]] = Append(@, seq)]
    /\ left' = [left EXCEPT ![w] = @ \ {to[w]}]
    /\ to' = [to EXCEPT ![w] = None]
    /\ wpc' = [wpc EXCEPT ![w] = "deliver"]
    /\ UNCHANGED <<seq, ring, log, pubMu, subs, closed, call, caller, dropped, restarts, lost>>

\* Published: every subscriber was served, and the locks are given back.
Published(w) ==
    /\ wpc[w] = "deliver" /\ left[w] = {}
    /\ wpc' = [wpc EXCEPT ![w] = "idle"]
    /\ pubMu' = None
    /\ UNCHANGED <<seq, ring, log, to, left, subs, closed, chan, call, caller, dropped,
                   restarts, lost>>

-----------------------------------------------------------------------------
(* memory_wait_changes *)

\* Call: from the cursor the caller keeps, or from now when it has none yet.
Call(c) ==
    /\ cpc[c] = "idle"
    /\ LET start == IF cursor[c] = NoCursor THEN seq ELSE cursor[c] IN
       /\ asked' = [asked EXCEPT ![c] = start]
       /\ last' = [last EXCEPT ![c] = start]
    /\ cpc' = [cpc EXCEPT ![c] = "subscribe"]
    /\ UNCHANGED <<hub, subs, closed, chan, found, out, resync, caller, dropped, restarts, lost>>

\* Subscribe: a channel of its own; that of a closed hub is closed.
Subscribe(c) ==
    /\ cpc[c] = "subscribe" /\ ~Delivering
    /\ subs' = IF closed THEN subs ELSE subs \cup {c}
    /\ chan' = [chan EXCEPT ![c] = <<>>]
    /\ dropped' = [dropped EXCEPT ![c] = {}]
    /\ cpc' = [cpc EXCEPT ![c] = "replay"]
    /\ UNCHANGED <<hub, closed, found, last, out, resync, asked, caller, restarts, lost>>

\* A bug: an event out of the ring's reach by one is not missed.
OutsideByTwo(n) ==
    \/ n > seq
    \/ n < seq /\ n + 2 < (IF ring = <<>> THEN seq + 1 ELSE Head(ring))

\* ReplaySince(n), under ringMu: whether the ring no longer has, or never had, what
\* follows n, and what it has of it.  The call looks at that copy on its own; what
\* ReplaySince leaves out of it for its topic is skipped there.
Outside(n) ==
    \/ n > seq
    \/ n < seq /\ n + 1 < (IF ring = <<>> THEN seq + 1 ELSE Head(ring))
After(n) == {i \in 1 .. Len(ring) : ring[i] > n}
First(S) == CHOOSE i \in S : \A j \in S : i <= j
Retained(n) ==
    IF n > seq \/ After(n) = {} THEN <<>> ELSE SubSeq(ring, First(After(n)), Len(ring))

Elements(s) == {s[i] : i \in 1 .. Len(s)}

\* Replay: the call takes what the ring has.
Replay(c) ==
    /\ cpc[c] = "replay"
    /\ found' = [found EXCEPT ![c] = Retained(asked[c])]
    /\ resync' = [resync EXCEPT ![c] = Outside(asked[c])]
    /\ cpc' = [cpc EXCEPT ![c] = "sift"]
    /\ UNCHANGED <<hub, subs, closed, chan, last, out, asked, caller, dropped, restarts, lost>>

\* Sift: the next event of the replay.
Sift(c) ==
    /\ cpc[c] = "sift" /\ found[c] # <<>>
    /\ LET n == Head(found[c]) IN
       IF Subscribed(n)
       THEN /\ last' = [last EXCEPT ![c] = IF n > @ THEN n ELSE @]
            /\ out' = IF Matches(n) THEN [out EXCEPT ![c] = Append(@, n)] ELSE out
       ELSE UNCHANGED <<last, out>>
    /\ found' = [found EXCEPT ![c] = Tail(@)]
    /\ UNCHANGED <<hub, subs, closed, chan, cpc, resync, asked, caller, dropped, restarts, lost>>

\* Sifted: the answer is ready when the ring had something, or had lost something.  In
\* that case its cursor is the count of this moment, not of the replay's.
Sifted(c) ==
    /\ cpc[c] = "sift" /\ found[c] = <<>>
    /\ last' = [last EXCEPT ![c] = IF resync[c] /\ seq > @ THEN seq ELSE @]
    /\ cpc' = [cpc EXCEPT ![c] = IF resync[c] \/ out[c] # <<>> THEN "answer" ELSE "wait"]
    /\ UNCHANGED <<hub, subs, closed, chan, found, out, resync, asked, caller, dropped,
                   restarts, lost>>

\* A bug: an event seen in the ring is told again.
TakeTwice(c) ==
    LET n == Head(chan[c]) IN
    /\ chan' = [chan EXCEPT ![c] = Tail(@)]
    /\ last' = [last EXCEPT ![c] = n]
    /\ out' = IF Matches(n) THEN [out EXCEPT ![c] = Append(@, n)] ELSE out

\* What a call does with the event at the head of its channel.
Take(c) ==
    LET n == Head(chan[c]) IN
    /\ chan' = [chan EXCEPT ![c] = Tail(@)]
    /\ IF n > last[c]
       THEN /\ last' = [last EXCEPT ![c] = n]
            /\ out' = IF Matches(n) THEN [out EXCEPT ![c] = Append(@, n)] ELSE out
       ELSE UNCHANGED <<last, out>>

\* Receive: a change ends the wait, an overlap or another's change does not.
Receive(c) ==
    /\ cpc[c] = "wait" /\ chan[c] # <<>>
    /\ Take(c)
    /\ cpc' = [cpc EXCEPT ![c] = IF out'[c] # <<>> THEN "drain" ELSE "wait"]
    /\ UNCHANGED <<hub, subs, closed, found, resync, asked, caller, dropped, restarts, lost>>

\* Drain: what else the channel holds goes with it.
Drain(c) ==
    /\ cpc[c] = "drain"
    /\ IF chan[c] = <<>>
       THEN /\ cpc' = [cpc EXCEPT ![c] = "answer"]
            /\ UNCHANGED <<chan, last, out>>
       ELSE /\ Take(c)
            /\ UNCHANGED cpc
    /\ UNCHANGED <<hub, subs, closed, found, resync, asked, caller, dropped, restarts, lost>>

\* GiveUp: the timer, or a caller that is gone, ends the wait with nothing.
GiveUp(c) ==
    /\ cpc[c] = "wait"
    /\ cpc' = [cpc EXCEPT ![c] = "answer"]
    /\ UNCHANGED <<hub, subs, closed, chan, found, last, out, resync, asked, caller, dropped,
                   restarts, lost>>

\* Ended: a closed channel, once it is empty, ends the wait.
Ended(c) ==
    /\ cpc[c] = "wait" /\ chan[c] = <<>> /\ c \notin subs
    /\ cpc' = [cpc EXCEPT ![c] = "answer"]
    /\ UNCHANGED <<hub, subs, closed, chan, found, last, out, resync, asked, caller, dropped,
                   restarts, lost>>

\* The call returns: its subscription goes, and with it what the channel still had.
Leave(c) ==
    /\ subs' = subs \ {c}
    /\ chan' = [chan EXCEPT ![c] = <<>>]
    /\ dropped' = [dropped EXCEPT ![c] = {}]
    /\ cpc' = [cpc EXCEPT ![c] = "idle"]
    /\ found' = [found EXCEPT ![c] = <<>>]
    /\ last' = [last EXCEPT ![c] = 0]
    /\ out' = [out EXCEPT ![c] = <<>>]
    /\ resync' = [resync EXCEPT ![c] = FALSE]
    /\ asked' = [asked EXCEPT ![c] = 0]

\* Answer: the caller keeps the cursor.  After resync=true it reads everything again.
Answer(c) ==
    /\ cpc[c] = "answer" /\ ~Delivering
    /\ Leave(c)
    /\ cursor' = [cursor EXCEPT ![c] = last[c]]
    /\ base' = [base EXCEPT ![c] = IF resync[c] \/ stale[c] THEN last[c]
                                   ELSE IF @ = NoCursor THEN asked[c] ELSE @]
    /\ got' = [got EXCEPT ![c] = @ \cup Elements(out[c])]
    /\ excused' = [excused EXCEPT ![c] = @ \cup {n \in dropped[c] : n <= last[c]}]
    /\ stale' = [stale EXCEPT ![c] = @ /\ last[c] > seq]
    /\ UNCHANGED <<hub, closed, restarts, lost>>

\* LoseAnswer: the answer does not reach the caller, which asks again.
LoseAnswer(c) ==
    /\ cpc[c] = "answer" /\ ~Delivering /\ lost < MaxLost
    /\ Leave(c)
    /\ lost' = lost + 1
    /\ UNCHANGED <<hub, closed, caller, restarts>>

-----------------------------------------------------------------------------
(* The process *)

\* A bug: those that wait are left to their timers.
CloseQuietly ==
    /\ ~closed /\ ~Delivering
    /\ restarts < MaxRestarts
    /\ closed' = TRUE
    /\ UNCHANGED <<subs, hub, chan, call, caller, dropped, restarts, lost>>

\* Close: the shutdown ends every subscription.
Close ==
    /\ ~closed /\ ~Delivering
    /\ restarts < MaxRestarts
    /\ closed' = TRUE
    /\ subs' = {}
    /\ UNCHANGED <<hub, chan, call, caller, dropped, restarts, lost>>

\* Restart: a new hub, after a shutdown or a crash.  The callers keep their cursors.
Restart ==
    /\ restarts < MaxRestarts
    /\ restarts' = restarts + 1
    /\ seq' = 0 /\ ring' = <<>> /\ log' = <<>>
    /\ pubMu' = None
    /\ wpc' = [w \in Writers |-> "idle"]
    /\ to' = [w \in Writers |-> None]
    /\ left' = [w \in Writers |-> {}]
    /\ subs' = {} /\ closed' = FALSE
    /\ chan' = [c \in Callers |-> <<>>]
    /\ cpc' = [c \in Callers |-> "idle"]
    /\ found' = [c \in Callers |-> <<>>]
    /\ last' = [c \in Callers |-> 0]
    /\ out' = [c \in Callers |-> <<>>]
    /\ resync' = [c \in Callers |-> FALSE]
    /\ asked' = [c \in Callers |-> 0]
    /\ got' = [c \in Callers |-> {}]
    /\ dropped' = [c \in Callers |-> {}]
    /\ excused' = [c \in Callers |-> {}]
    /\ stale' = [c \in Callers |-> cursor[c] # NoCursor]
    /\ UNCHANGED <<cursor, base, lost>>

Next ==
    \/ \E w \in Writers :
          \/ \E kind \in Kinds : Number(w, kind)
          \/ Keep(w)
          \/ Open(w)
          \/ \E c \in Callers : Deliver(w, c)
          \/ Evict(w)
          \/ Again(w)
          \/ Published(w)
    \/ \E c \in Callers :
          \/ Call(c)
          \/ Subscribe(c)
          \/ Replay(c)
          \/ Sift(c)
          \/ Sifted(c)
          \/ Receive(c)
          \/ Drain(c)
          \/ GiveUp(c)
          \/ Ended(c)
          \/ Answer(c)
          \/ LoseAnswer(c)
    \/ Close
    \/ Restart

Spec == Init /\ [][Next]_vars

-----------------------------------------------------------------------------
(* Fairness: a publish and a call run on, and a caller asks again.  Nothing is *)
(* asked of the timer of a wait, of who publishes, or of the process.          *)

Publishing(w) ==
    Keep(w) \/ Open(w) \/ (\E c \in Callers : Deliver(w, c)) \/ Evict(w) \/ Again(w) \/ Published(w)
Working(c) ==
    \/ Call(c) \/ Subscribe(c) \/ Replay(c) \/ Sift(c) \/ Sifted(c)
    \/ Receive(c) \/ Drain(c) \/ Ended(c) \/ Answer(c)

FairSpec ==
    /\ Spec
    /\ \A w \in Writers : WF_vars(Publishing(w))
    /\ \A c \in Callers : WF_vars(Working(c))

-----------------------------------------------------------------------------
(* Properties *)

\* A caller that got a cursor missed no change up to it: it was told of every
\* one since its first call, or since it was told to read everything again, but
\* those a full channel dropped (hub.go, drop-oldest).  It holds through lost
\* answers and concurrent publishes (BUG-112); a cursor of another process is
\* judged from the answer on (NewHubIsNoticed is about that).
MissedNothing ==
    \A c \in Callers : cursor[c] # NoCursor /\ ~stale[c] =>
        \A n \in 1 .. seq :
            base[c] < n /\ n <= cursor[c] /\ Matches(n) => n \in got[c] \cup excused[c]

\* One answer tells of events in their order, each once, and only of those that
\* are after the cursor it was asked from and not after the one it gives.
InOrderOnce ==
    \A c \in Callers : cpc[c] \in {"sift", "wait", "drain", "answer"} =>
        /\ \A i, j \in 1 .. Len(out[c]) : i < j => out[c][i] < out[c][j]
        /\ \A i \in 1 .. Len(out[c]) : asked[c] < out[c][i] /\ out[c][i] <= last[c]

\* A closed hub leaves nobody waiting: a call that is at its channel comes to its end.
CloseEndsWaits ==
    \A c \in Callers : (closed /\ cpc[c] = "wait") ~> (cpc[c] # "wait" \/ ~closed)

\* A change that comes while a caller listens from before it is told, or was
\* dropped, unless the server goes: no wait sleeps through a change, whatever
\* the timers do.
EveryChangeIsTold ==
    \A c \in Callers : \A n \in 1 .. MaxEvents :
        (n <= seq /\ Matches(n) /\ base[c] < n /\ ~stale[c])
            ~> \/ n \in got[c] \cup excused[c] \cup dropped[c]
               \/ base[c] >= n \/ closed \/ n > seq

\* A call whose cursor, of another process, already covers a change of this hub is
\* told to read everything again: the comment of ReplaySince says that resync
\* reports such a cursor (hub.go:246-249).
NewHubIsNoticed ==
    \A c \in Callers :
        /\ cpc[c] = "answer" /\ stale[c]
        /\ \E n \in 1 .. seq : n <= asked[c] /\ Matches(n)
        => resync[c]
=============================================================================
