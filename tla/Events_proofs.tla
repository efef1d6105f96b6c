----------------------------- MODULE Events_proofs -----------------------------
(***************************************************************************)
(* Proofs about Events, for any writers, callers, ring and channels, any   *)
(* number of events, lost answers and restarts.                            *)
(*                                                                         *)
(* MissedNothing says what a caller knows between two calls.  Within a     *)
(* call, ToldInv says the same of the events up to last, and NextInv that  *)
(* what follows last is before the call, in order, with nothing left out:  *)
(* in its copy of the ring, in its channel, or still on its way to it.     *)
(***************************************************************************)
EXTENDS Events, Integers, SequenceTheorems, TLAPS

\* A sequence of events in their order.
Rising(s) == \A i, j \in 1 .. Len(s) : i < j => s[i] < s[j]

\* The writer at work is the one with the lock; those it has still to serve subscribe to what
\* it publishes, and the one it made room for still has it.
WriterInv ==
    \A w \in Writers :
        /\ wpc[w] # "idle" <=> pubMu = w
        /\ wpc[w] # "idle" => seq > 0
        /\ left[w] \subseteq subs
        /\ wpc[w] \in {"idle", "ring", "open"} => left[w] = {}
        /\ wpc[w] \in {"evict", "again"} => to[w] \in left[w]
        /\ wpc[w] = "again" => Len(chan[to[w]]) < BufLen

\* The ring holds the last events, one after the other, up to the one not kept yet.
Top == IF \E w \in Writers : wpc[w] = "ring" THEN seq - 1 ELSE seq
RingInv ==
    /\ Len(ring) <= Top
    /\ ring = <<>> => Top = 0
    /\ \A i \in 1 .. Len(ring) : ring[i] + Len(ring) = Top + i

\* The last event is still to be put into the channel of c.
Pending(c) == \E w \in Writers : wpc[w] \in {"ring", "open"} \/ c \in left[w]

\* A channel holds events in their order.
ChanInv(c) ==
    /\ Rising(chan[c])
    /\ \A m \in Elements(chan[c]) : 0 < m /\ m <= seq /\ (Pending(c) => m < seq)

\* What a call may have where it is.
During == {"sift", "wait", "drain", "answer"}
CallInv(c) ==
    /\ cpc[c] \in {"idle", "subscribe"} => c \notin subs /\ chan[c] = <<>>
    /\ cpc[c] # "sift" => found[c] = <<>>
    /\ cpc[c] \notin During => out[c] = <<>> /\ ~resync[c]
    /\ cpc[c] \in {"subscribe", "replay"} => last[c] = asked[c]
    /\ cpc[c] \in {"wait", "drain"} => ~resync[c]
    /\ cpc[c] # "idle" /\ cursor[c] # NoCursor => asked[c] = cursor[c]
    /\ asked[c] <= last[c]
    /\ cursor[c] = NoCursor => base[c] = NoCursor /\ ~stale[c]
    /\ ~stale[c] => last[c] <= seq /\ (cursor[c] # NoCursor => cursor[c] <= seq)

\* What a call tells of, and what it has still to look at, in their order.
OutInv(c) ==
    /\ Rising(out[c]) /\ Rising(found[c])
    /\ \A m \in Elements(out[c]) : asked[c] < m /\ m <= last[c]
    /\ \A m \in Elements(found[c]) : 0 < m /\ m <= seq /\ last[c] < m

\* The events a call still has before it, and those its channel lost.
Coming(c) == Elements(found[c]) \cup Elements(chan[c]) \cup dropped[c]

\* A call that asks with a cursor of this hub, and is not told to read everything again, told
\* of what is up to last; what comes after last is coming in order, and none is passed over.
ToldInv(c) ==
    \A m \in 1 .. seq : Matches(m) /\ asked[c] < m /\ m <= last[c] => m \in Elements(out[c]) \cup dropped[c]
NextInv(c) ==
    \A m \in 1 .. seq : Matches(m) /\ last[c] < m =>
        /\ \A h \in Elements(found[c]) : m < h => m \in Elements(found[c])
        /\ \A h \in Elements(chan[c]) : m < h => m \in Coming(c)
        /\ c \in subs => \/ m \in Coming(c)
                         \/ m = seq /\ Pending(c)
LiveInv(c) == cpc[c] \in During /\ ~resync[c] /\ ~stale[c] => ToldInv(c) /\ NextInv(c)

MissedInv(c) ==
    cursor[c] # NoCursor /\ ~stale[c] =>
        \A n \in 1 .. seq : base[c] < n /\ n <= cursor[c] /\ Matches(n) => n \in got[c] \cup excused[c]

CallerInv(c) == ChanInv(c) /\ CallInv(c) /\ OutInv(c) /\ LiveInv(c) /\ MissedInv(c)

Inv == TypeOK /\ WriterInv /\ RingInv /\ \A c \in Callers : CallerInv(c)

-----------------------------------------------------------------------------
(* Sequences of events *)

\* The empty sequence.
LEMMA EmptyFacts ==
    /\ Elements(<<>>) = {} /\ Rising(<<>>) /\ Len(<<>>) = 0
    /\ \A S : <<>> \in Seq(S)
BY DEF Elements, Rising

\* The elements of a sequence are of its kind.
LEMMA ElementsTyped ==
    ASSUME NEW S, NEW s \in Seq(S)
    PROVE  Elements(s) \subseteq S
BY DEF Elements

\* What a sequence holds with one element more.
LEMMA AppendFacts ==
    ASSUME NEW S, NEW s \in Seq(S), NEW e \in S
    PROVE  /\ Append(s, e) \in Seq(S) /\ Len(Append(s, e)) = Len(s) + 1 /\ Append(s, e) # <<>>
           /\ Elements(Append(s, e)) = Elements(s) \cup {e}
<1>1. /\ Append(s, e) \in Seq(S) /\ Len(Append(s, e)) = Len(s) + 1 /\ Len(s) \in Nat
      /\ \A i \in 1 .. Len(s) : Append(s, e)[i] = s[i]
      /\ Append(s, e)[Len(s) + 1] = e
  OBVIOUS
<1>2. \A i \in 1 .. Len(s) + 1 : i \in 1 .. Len(s) \/ i = Len(s) + 1
  BY <1>1
<1>3. Elements(Append(s, e)) \subseteq Elements(s) \cup {e}
  BY <1>1, <1>2 DEF Elements
<1>4. Elements(s) \cup {e} \subseteq Elements(Append(s, e))
  <2>1. \A i \in 1 .. Len(s) : i \in 1 .. Len(s) + 1
    BY <1>1
  <2>2. Len(s) + 1 \in 1 .. Len(s) + 1
    BY <1>1
  <2> QED BY <1>1, <2>1, <2>2 DEF Elements
<1>5. Append(s, e) # <<>>
  BY <1>1, EmptyFacts
<1> QED BY <1>1, <1>3, <1>4, <1>5

\* A sequence in order stays so with a greater element at its end.
LEMMA AppendRises ==
    ASSUME NEW s \in Seq(Nat), NEW e \in Nat, Rising(s), \A m \in Elements(s) : m < e
    PROVE  Rising(Append(s, e))
<1>1. \A i \in 1 .. Len(s) : Append(s, e)[i] = s[i] /\ s[i] < e
  BY DEF Elements
<1>2. Append(s, e)[Len(s) + 1] = e /\ Len(Append(s, e)) = Len(s) + 1 /\ Len(s) \in Nat
  OBVIOUS
<1>3. SUFFICES ASSUME NEW i \in 1 .. Len(s) + 1, NEW j \in 1 .. Len(s) + 1, i < j
               PROVE  Append(s, e)[i] < Append(s, e)[j]
  BY <1>2 DEF Rising
<1>4. i \in 1 .. Len(s)
  BY <1>2, <1>3
<1>5. CASE j = Len(s) + 1
  BY <1>1, <1>2, <1>4, <1>5
<1>6. CASE j \in 1 .. Len(s)
  BY <1>1, <1>3, <1>4, <1>6 DEF Rising
<1> QED BY <1>2, <1>3, <1>5, <1>6

\* What a sequence holds without its head.
LEMMA TailFacts ==
    ASSUME NEW S, NEW s \in Seq(S), s # <<>>
    PROVE  /\ Head(s) \in S /\ Tail(s) \in Seq(S) /\ Len(Tail(s)) = Len(s) - 1
           /\ Len(s) \in Nat /\ Len(s) > 0
           /\ Elements(s) = {Head(s)} \cup Elements(Tail(s))
<1>1. /\ Head(s) = s[1] /\ Tail(s) \in Seq(S) /\ Len(Tail(s)) = Len(s) - 1
      /\ Len(s) \in Nat /\ Len(s) > 0
      /\ \A i \in 1 .. Len(s) - 1 : Tail(s)[i] = s[i + 1]
  OBVIOUS
<1>2. Elements(Tail(s)) \subseteq Elements(s) /\ Head(s) \in Elements(s) /\ Head(s) \in S
  BY <1>1 DEF Elements
<1>3. ASSUME NEW i \in 1 .. Len(s) PROVE s[i] \in {Head(s)} \cup Elements(Tail(s))
  <2>1. CASE i = 1
    BY <1>1, <2>1
  <2>2. CASE i # 1
    <3>1. i - 1 \in 1 .. Len(s) - 1 /\ (i - 1) + 1 = i
      BY <1>1, <2>2
    <3> QED BY <1>1, <3>1 DEF Elements
  <2> QED BY <2>1, <2>2
<1>4. Elements(s) \subseteq {Head(s)} \cup Elements(Tail(s))
  BY <1>3 DEF Elements
<1> QED BY <1>1, <1>2, <1>4

\* In order, its head is the least of it.
LEMMA TailRises ==
    ASSUME NEW s \in Seq(Nat), s # <<>>, Rising(s)
    PROVE  Rising(Tail(s)) /\ \A m \in Elements(Tail(s)) : Head(s) < m
<1>1. /\ Head(s) = s[1] /\ Tail(s) \in Seq(Nat) /\ Len(Tail(s)) = Len(s) - 1
      /\ Len(s) \in Nat /\ Len(s) > 0
      /\ \A i \in 1 .. Len(s) - 1 : Tail(s)[i] = s[i + 1]
  OBVIOUS
<1>2. \A i \in 1 .. Len(s) - 1 : i + 1 \in 1 .. Len(s) /\ 1 < i + 1 /\ 1 \in 1 .. Len(s)
  BY <1>1
<1>3. \A i, j \in 1 .. Len(s) - 1 : i < j => Tail(s)[i] < Tail(s)[j]
  BY <1>1, <1>2 DEF Rising
<1>4. \A i \in 1 .. Len(s) - 1 : Head(s) < Tail(s)[i]
  BY <1>1, <1>2 DEF Rising
<1> QED BY <1>1, <1>3, <1>4 DEF Rising, Elements

-----------------------------------------------------------------------------
(* The ring and what ReplaySince gives of it *)

\* Sequences of events are sequences of numbers.
LEMMA SeqNat ==
    ASSUME NEW s \in Seq(Numbers)
    PROVE  s \in Seq(Nat) /\ Len(s) \in Nat
<1>1. Numbers \subseteq Nat
  BY DEF Numbers
<1>2. s \in Seq(Nat)
  BY <1>1, SeqMonotonic, Zenon
<1> QED BY <1>2

\* The numbers of events, and the one that is none of them.
LEMMA NumbersNat == Numbers \subseteq Nat /\ MaxEvents \in Nat /\ NoCursor \in Nat /\ NoCursor \notin Numbers
BY BoundsAssumption DEF Numbers, NoCursor

\* The ring has the events after any number it reaches, in their order.
LEMMA RingFacts ==
    ASSUME TypeOK, RingInv
    PROVE  /\ Top \in Nat /\ Top <= seq /\ ring \in Seq(Nat) /\ Rising(ring)
           /\ \A i \in 1 .. Len(ring) : ring[i] = Top - Len(ring) + i
           /\ \A m \in Nat : m \in Elements(ring) <=> Top - Len(ring) < m /\ m <= Top
<1>1. seq \in Nat /\ ring \in Seq(Nat) /\ Len(ring) \in Nat
  <2>1. seq \in Numbers /\ ring \in Seq(Numbers)
    BY DEF TypeOK
  <2> QED BY <2>1, NumbersNat, SeqNat
<1>2. Top \in Nat /\ Top <= seq
  BY <1>1 DEF RingInv, Top
<1>3. \A i \in 1 .. Len(ring) : ring[i] = Top - Len(ring) + i
  BY <1>1, <1>2 DEF RingInv
<1>4. Rising(ring)
  BY <1>1, <1>2, <1>3 DEF Rising
<1>5. ASSUME NEW m \in Nat, Top - Len(ring) < m, m <= Top PROVE m \in Elements(ring)
  <2>1. m - (Top - Len(ring)) \in 1 .. Len(ring) /\ m = Top - Len(ring) + (m - (Top - Len(ring)))
    BY <1>1, <1>2, <1>5
  <2> QED BY <1>3, <2>1 DEF Elements
<1>6. ASSUME NEW m \in Elements(ring) PROVE Top - Len(ring) < m /\ m <= Top
  BY <1>1, <1>2, <1>3 DEF Elements
<1> QED BY <1>1, <1>2, <1>3, <1>4, <1>5, <1>6

\* The end of a sequence in order, from the element at k, holds those not less than it.
LEMMA SubSeqFacts ==
    ASSUME NEW s \in Seq(Nat), NEW k \in 1 .. Len(s), Rising(s)
    PROVE  /\ SubSeq(s, k, Len(s)) \in Seq(Nat) /\ Len(SubSeq(s, k, Len(s))) <= Len(s)
           /\ Rising(SubSeq(s, k, Len(s)))
           /\ Elements(SubSeq(s, k, Len(s))) = {m \in Elements(s) : m >= s[k]}
<1> DEFINE t == SubSeq(s, k, Len(s))
           L == Len(s) - k + 1
<1>1. /\ Len(s) \in Nat /\ L \in Nat /\ t \in Seq(Nat) /\ Len(t) = L
      /\ \A i \in 1 .. L : i + k - 1 \in 1 .. Len(s) /\ t[i] = s[i + k - 1]
  OBVIOUS
<1> HIDE DEF t
<1>2. Rising(t)
  <2> SUFFICES ASSUME NEW i \in 1 .. L, NEW j \in 1 .. L, i < j PROVE t[i] < t[j]
    BY <1>1 DEF Rising
  <2>1. i + k - 1 \in 1 .. Len(s) /\ j + k - 1 \in 1 .. Len(s) /\ i + k - 1 < j + k - 1
    BY <1>1
  <2>2. s[i + k - 1] < s[j + k - 1]
    BY <2>1 DEF Rising
  <2> QED BY <1>1, <2>2
<1>3. ASSUME NEW i \in 1 .. L PROVE t[i] \in Elements(s) /\ t[i] >= s[k]
  <2>1. i + k - 1 \in 1 .. Len(s) /\ t[i] = s[i + k - 1] /\ (i + k - 1 = k \/ k < i + k - 1)
    BY <1>1
  <2>2. s[i + k - 1] >= s[k]
    BY <2>1 DEF Rising
  <2> QED BY <2>1, <2>2 DEF Elements
<1>4. ASSUME NEW i \in 1 .. Len(s), s[i] >= s[k] PROVE s[i] \in Elements(t)
  <2>1. i >= k
    BY <1>1, <1>4 DEF Rising
  <2>2. i - k + 1 \in 1 .. L /\ (i - k + 1) + k - 1 = i
    BY <1>1, <2>1
  <2> QED BY <1>1, <2>2 DEF Elements
<1>5. Elements(t) = {m \in Elements(s) : m >= s[k]}
  BY <1>1, <1>3, <1>4 DEF Elements
<1> QED BY <1>1, <1>2, <1>5 DEF t

\* ReplaySince gives, in order, events after n only; without resync it gives all the ring was
\* given after n.
LEMMA RetainedFacts ==
    ASSUME TypeOK, RingInv, NEW n \in Numbers
    PROVE  /\ Retained(n) \in Seq(Numbers) /\ Rising(Retained(n))
           /\ \A m \in Elements(Retained(n)) : m \in Nat /\ n < m /\ m <= Top
           /\ ~Outside(n) => n <= seq /\ \A m \in Nat : n < m /\ m <= Top => m \in Elements(Retained(n))
<1>0. ring \in Seq(Nat) /\ ring \in Seq(Numbers) /\ n \in Nat /\ seq \in Nat /\ Len(ring) \in Nat
  <2>1. seq \in Numbers /\ ring \in Seq(Numbers)
    BY DEF TypeOK
  <2> QED BY <2>1, NumbersNat, SeqNat
<1>1. CASE n > seq
  BY <1>1, EmptyFacts DEF Retained, Outside
<1>2. CASE n <= seq /\ After(n) = {}
  <2>1. Retained(n) = <<>>
    BY <1>2 DEF Retained
  <2>2. \A m \in Elements(ring) : ~(n < m)
    BY <1>0, <1>2 DEF After, Elements
  <2>3. ASSUME ~Outside(n), NEW m \in Nat, n < m, m <= Top PROVE FALSE
    <3>1. Top <= seq /\ Top \in Nat /\ n < seq
      BY <1>0, <2>3, RingFacts
    <3>2. ring # <<>> /\ n + 1 >= Head(ring)
      BY <1>0, <2>3, <3>1 DEF Outside
    <3>3. Len(ring) \in 1 .. Len(ring) /\ 1 \in 1 .. Len(ring) /\ Head(ring) = ring[1]
      BY <1>0, <3>2
    <3>4. ring[Len(ring)] = Top
      BY <1>0, <3>1, <3>3 DEF RingInv
    <3>5. Top \in Elements(ring)
      BY <3>3, <3>4 DEF Elements
    <3> QED BY <1>0, <2>2, <2>3, <3>1, <3>5
  <2> QED BY <1>2, <2>1, <2>3, EmptyFacts
<1>3. CASE n <= seq /\ After(n) # {}
  <2> DEFINE k == First(After(n))
  <2>1. k \in After(n) /\ \A j \in After(n) : k <= j
    <3>1. PICK i \in After(n) : TRUE
      BY <1>3
    <3>2. After(n) \subseteq 1 .. Len(ring)
      BY DEF After
    <3>3. \E a \in After(n) : \A j \in After(n) : a <= j
      <4> DEFINE d == n + 1 - (Top - Len(ring))
      <4>0. Top \in Nat
        BY RingFacts
      <4>1. \A j \in 1 .. Len(ring) : ring[j] = Top - Len(ring) + j /\ Top \in Nat
        BY <4>0, RingFacts
      <4>2. \A j \in 1 .. Len(ring) : j \in After(n) <=> j >= d
        BY <1>0, <4>1 DEF After
      <4>3. CASE d \in 1 .. Len(ring)
        BY <3>2, <4>2, <4>3
      <4>4. CASE d < 1
        <5>1. 1 \in 1 .. Len(ring)
          BY <1>0, <3>1, <3>2
        <5>2. 1 \in After(n)
          BY <1>0, <4>0, <4>2, <4>4, <5>1
        <5>3. \A j \in After(n) : 1 <= j
          BY <3>2
        <5> QED BY <5>2, <5>3
      <4>5. d \in Int /\ d <= Len(ring)
        BY <1>0, <3>1, <3>2, <4>1, <4>2
      <4> QED BY <1>0, <4>3, <4>4, <4>5
    <3> QED BY <3>3 DEF First
  <2> HIDE DEF k
  <2>2. k \in 1 .. Len(ring) /\ ring[k] > n /\ Retained(n) = SubSeq(ring, k, Len(ring))
    <3>1. ~(n > seq)
      BY <1>0, <1>3
    <3>2. Retained(n) = SubSeq(ring, k, Len(ring))
      BY <1>3, <3>1 DEF Retained, k
    <3> QED BY <2>1, <3>2 DEF After
  <2>3. \A i \in 1 .. Len(ring) : ring[i] > n => ring[i] >= ring[k]
    <3> SUFFICES ASSUME NEW i \in 1 .. Len(ring), ring[i] > n PROVE ring[i] >= ring[k]
      OBVIOUS
    <3>1. k <= i
      BY <2>1 DEF After
    <3>2. Top \in Nat
      BY RingFacts
    <3>3. ring[i] = Top - Len(ring) + i /\ ring[k] = Top - Len(ring) + k
      BY <2>2, RingFacts
    <3> QED BY <1>0, <2>2, <3>1, <3>2, <3>3
  <2>4. Elements(Retained(n)) = {m \in Elements(ring) : m >= ring[k]} /\ Rising(Retained(n))
    BY <1>0, <2>2, RingFacts, SubSeqFacts
  <2>5. Retained(n) \in Seq(Numbers)
    BY <1>0, <2>2
  <2>6. \A m \in Elements(ring) : m \in Nat /\ m <= Top
    <3>1. Elements(ring) \subseteq Nat
      BY <1>0, ElementsTyped
    <3> QED BY <3>1, RingFacts
  <2>7. \A m \in Elements(Retained(n)) : m \in Nat /\ n < m /\ m <= Top
    <3>1. ring[k] \in Nat
      BY <1>0, <2>2
    <3> QED BY <1>0, <2>2, <2>4, <2>6, <3>1
  <2>8. ASSUME ~Outside(n), NEW m \in Nat, n < m, m <= Top PROVE m \in Elements(Retained(n))
    <3>1. Top <= seq /\ Top \in Nat /\ n < seq
      BY <1>0, <2>8, RingFacts
    <3>2. ring # <<>> /\ n + 1 >= ring[1] /\ 1 \in 1 .. Len(ring)
      BY <1>0, <2>8, <3>1 DEF Outside
    <3>3. ring[1] = Top - Len(ring) + 1
      BY <1>0, <3>1, <3>2 DEF RingInv
    <3>4. m \in Elements(ring)
      BY <1>0, <2>8, <3>1, <3>2, <3>3, RingFacts
    <3>5. PICK i \in 1 .. Len(ring) : m = ring[i]
      BY <3>4 DEF Elements
    <3> QED BY <2>3, <2>4, <2>8, <3>4, <3>5
  <2> QED BY <1>3, <2>4, <2>5, <2>7, <2>8
<1> QED BY <1>0, <1>1, <1>2, <1>3

-----------------------------------------------------------------------------
(* What a step leaves as it was *)

\* What the state says of one caller.
View(c) ==
    <<chan[c], cpc[c], found[c], last[c], out[c], resync[c], asked[c],
      cursor[c], base[c], got[c], dropped[c], excused[c], stale[c]>>

\* A caller sees nothing of a step that changes neither its own state nor the events, and
\* takes nothing from what is to be delivered to it.
LEMMA SameCaller ==
    ASSUME NEW c \in Callers, CallerInv(c), UNCHANGED <<View(c), seq, log>>,
           c \in subs' => c \in subs,
           Pending(c)' => Pending(c),
           c \in subs /\ Pending(c) => Pending(c)' \/ ~Matches(seq)
    PROVE  CallerInv(c)'
<1>0. /\ UNCHANGED <<chan[c], cpc[c], found[c], last[c], out[c], resync[c], asked[c]>>
      /\ UNCHANGED <<cursor[c], base[c], got[c], dropped[c], excused[c], stale[c], seq, log>>
  BY DEF View
<1>1. ChanInv(c)'
  BY <1>0 DEF CallerInv, ChanInv
<1>2. CallInv(c)'
  BY <1>0 DEF CallerInv, CallInv
<1>3. OutInv(c)'
  BY <1>0 DEF CallerInv, OutInv
<1>4. LiveInv(c)'
  <2>1. ToldInv(c) => ToldInv(c)'
    BY <1>0 DEF ToldInv, Matches
  <2>2. NextInv(c) => NextInv(c)'
    BY <1>0 DEF NextInv, Matches, Coming
  <2> QED BY <1>0, <2>1, <2>2 DEF CallerInv, LiveInv
<1>5. MissedInv(c)'
  BY <1>0 DEF CallerInv, MissedInv, Matches
<1> QED BY <1>1, <1>2, <1>3, <1>4, <1>5 DEF CallerInv

\* The writers see nothing of a step of a caller, unless it leaves while nobody delivers.
LEMMA SameWriters ==
    ASSUME TypeOK, WriterInv, RingInv, UNCHANGED hub, subs \subseteq subs' \/ ~Delivering,
           \A d \in Callers : Len(chan'[d]) \in Nat /\ Len(chan'[d]) <= Len(chan[d])
    PROVE  WriterInv' /\ RingInv' /\ \A d \in Callers : Pending(d)' <=> Pending(d)
<1>0. UNCHANGED <<seq, ring, log, pubMu, wpc, to, left>>
  BY DEF hub
<1>1. ASSUME NEW w \in Writers PROVE left[w] \subseteq subs'
  <2>1. CASE subs \subseteq subs'
    BY <2>1 DEF WriterInv
  <2>2. CASE ~Delivering
    <3>1. wpc[w] \in {"idle", "ring", "open"}
      BY <2>2 DEF Delivering, TypeOK
    <3> QED BY <3>1 DEF WriterInv
  <2> QED BY <2>1, <2>2
<1>2. ASSUME NEW w \in Writers, wpc[w] = "again" PROVE Len(chan'[to[w]]) < BufLen
  <2>1. to[w] \in Callers /\ Len(chan[to[w]]) < BufLen
    BY <1>2 DEF WriterInv, TypeOK
  <2>2. Len(chan[to[w]]) \in Nat /\ BufLen \in Nat
    BY <2>1, RoomAssumption DEF TypeOK
  <2> QED BY <2>1, <2>2
<1>3. WriterInv'
  BY <1>0, <1>1, <1>2 DEF WriterInv
<1>4. RingInv'
  BY <1>0 DEF RingInv, Top
<1>5. \A d \in Callers : Pending(d)' <=> Pending(d)
  BY <1>0 DEF Pending
<1> QED BY <1>3, <1>4, <1>5

-----------------------------------------------------------------------------
(* Publish *)

\* A writer at work is alone.
LEMMA OneWriter ==
    ASSUME TypeOK, WriterInv, NEW w \in Writers, wpc[w] # "idle"
    PROVE  /\ pubMu = w /\ seq \in Nat /\ seq > 0 /\ seq \in Numbers
           /\ \A v \in Writers : v # w => wpc[v] = "idle" /\ left[v] = {}
<1>1. seq \in Numbers /\ seq > 0 /\ pubMu = w
  BY DEF TypeOK, WriterInv
<1>2. \A v \in Writers : v # w => wpc[v] = "idle" /\ left[v] = {}
  BY <1>1 DEF WriterInv
<1> QED BY <1>1, <1>2, NumbersNat

\* Without one, nothing is on its way.
LEMMA NoWriter ==
    ASSUME TypeOK, WriterInv, pubMu = None
    PROVE  /\ \A v \in Writers : wpc[v] = "idle" /\ left[v] = {}
           /\ Top = seq /\ \A c : ~Pending(c)
<1>1. \A v \in Writers : v # None
  BY NoneAssumption
<1>2. \A v \in Writers : wpc[v] = "idle" /\ left[v] = {}
  BY <1>1 DEF WriterInv
<1> QED BY <1>2 DEF Top, Pending

\* A new number: it is on its way to every channel, and after all that any call has seen.
LEMMA NumberStep ==
    ASSUME Inv, NEW w \in Writers, NEW kind \in Kinds, Number(w, kind)
    PROVE  Inv'
<1>0. /\ TypeOK /\ WriterInv /\ RingInv /\ wpc[w] = "idle" /\ pubMu = None /\ seq < MaxEvents
      /\ pubMu' = w /\ seq' = seq + 1 /\ log' = Append(log, kind) /\ wpc' = [wpc EXCEPT ![w] = "ring"]
      /\ UNCHANGED <<ring, to, left, subs, closed, chan, dropped, restarts, lost>>
      /\ UNCHANGED <<cpc, found, last, out, resync, asked, cursor, base, got, excused, stale>>
  BY DEF Inv, Number, call, caller
<1>1. /\ \A v \in Writers : wpc[v] = "idle" /\ left[v] = {}
      /\ Top = seq /\ \A c : ~Pending(c)
  BY <1>0, NoWriter
<1>2. /\ seq \in Nat /\ seq' \in Nat /\ seq' \in Numbers /\ log \in Seq(Kinds) /\ Len(log) = seq
      /\ log' \in Seq(Kinds) /\ Len(log') = seq' /\ \A m \in 1 .. seq : log'[m] = log[m]
  <2>1. seq \in Nat /\ log \in Seq(Kinds) /\ Len(log) = seq
    BY <1>0, NumbersNat DEF TypeOK
  <2>2. seq' \in Numbers
    BY <1>0, <2>1, BoundsAssumption DEF Numbers
  <2> QED BY <1>0, <2>1, <2>2
<1>3. wpc' \in [Writers -> {"idle", "ring", "open", "deliver", "evict", "again"}] /\ wpc'[w] = "ring"
  BY <1>0 DEF TypeOK
<1>4. TypeOK'
  BY <1>0, <1>2, <1>3 DEF TypeOK
<1>5. WriterInv'
  BY <1>0, <1>1, <1>2 DEF WriterInv, TypeOK
<1>6. RingInv'
  <2>1. Top' = seq
    BY <1>0, <1>2, <1>3 DEF Top
  <2> QED BY <1>0, <1>1, <2>1 DEF RingInv
<1>7. ASSUME NEW c \in Callers PROVE CallerInv(c)'
  <2>0. CallerInv(c) /\ Pending(c)'
    BY <1>0, <1>3 DEF Inv, Pending
  <2>1. ChanInv(c)'
    <3>1. \A m \in Elements(chan[c]) : m \in Nat
      BY <1>0, NumbersNat, ElementsTyped DEF TypeOK
    <3> QED BY <1>0, <1>2, <2>0, <3>1 DEF CallerInv, ChanInv
  <2>2. CallInv(c)'
    <3>1. last[c] \in Nat /\ cursor[c] \in Nat
      BY <1>0, NumbersNat DEF TypeOK
    <3> QED BY <1>0, <1>2, <2>0, <3>1 DEF CallerInv, CallInv
  <2>3. OutInv(c)'
    <3>1. \A m \in Elements(found[c]) : m \in Nat
      BY <1>0, NumbersNat, ElementsTyped DEF TypeOK
    <3> QED BY <1>0, <1>2, <2>0, <3>1 DEF CallerInv, OutInv
  <2>4. LiveInv(c)'
    <3>0. SUFFICES ASSUME cpc[c] \in During, ~resync[c], ~stale[c]
                   PROVE  ToldInv(c)' /\ NextInv(c)'
      BY <1>0 DEF LiveInv
    <3>1. ToldInv(c) /\ NextInv(c) /\ last[c] <= seq /\ last[c] \in Nat
      BY <1>0, <2>0, <3>0, NumbersNat DEF CallerInv, LiveInv, CallInv, TypeOK
    <3>2. ASSUME NEW m \in 1 .. seq', m \notin 1 .. seq PROVE m = seq' /\ m = seq + 1
      BY <1>0, <1>2, <3>2
    <3>3. ToldInv(c)'
      BY <1>0, <1>2, <3>1, <3>2 DEF ToldInv, Matches
    <3>4. ASSUME NEW m \in 1 .. seq', log'[m] = "note", last[c] < m
          PROVE  /\ \A h \in Elements(found[c]) : m < h => m \in Elements(found[c])
                 /\ \A h \in Elements(chan[c]) : m < h => m \in Coming(c)
                 /\ c \in subs => m \in Coming(c) \/ m = seq'
      <4>1. CASE m \in 1 .. seq
        BY <1>1, <1>2, <3>1, <3>4, <4>1 DEF NextInv, Matches
      <4>2. CASE m \notin 1 .. seq
        <5>1. m = seq + 1 /\ m = seq'
          BY <3>2, <4>2
        <5>2. \A h \in Elements(found[c]) \cup Elements(chan[c]) : h \in Nat /\ h <= seq
          <6>1. chan[c] \in Seq(Numbers) /\ found[c] \in Seq(Numbers)
            BY <1>0 DEF TypeOK
          <6> QED BY <2>0, <6>1, ElementsTyped, NumbersNat DEF CallerInv, ChanInv, OutInv
        <5> QED BY <1>2, <5>1, <5>2
      <4> QED BY <4>1, <4>2
    <3>5. NextInv(c)'
      BY <1>0, <2>0, <3>4 DEF NextInv, Matches, Coming
    <3> QED BY <3>3, <3>5
  <2>5. MissedInv(c)'
    <3>0. SUFFICES ASSUME cursor[c] # NoCursor, ~stale[c], NEW n \in 1 .. seq',
                          base[c] < n, n <= cursor[c], log'[n] = "note"
                   PROVE  n \in got[c] \cup excused[c]
      BY <1>0 DEF MissedInv, Matches
    <3>1. cursor[c] <= seq /\ cursor[c] \in Nat
      BY <1>0, <2>0, <3>0, NumbersNat DEF CallerInv, CallInv, TypeOK
    <3>2. n \in 1 .. seq
      BY <1>2, <3>0, <3>1
    <3> QED BY <1>2, <2>0, <3>0, <3>2 DEF CallerInv, MissedInv, Matches
  <2> QED BY <2>1, <2>2, <2>3, <2>4, <2>5 DEF CallerInv
<1> QED BY <1>4, <1>5, <1>6, <1>7 DEF Inv

\* The ring takes the event, and with it every number up to the count.
LEMMA KeepStep ==
    ASSUME Inv, NEW w \in Writers, Keep(w)
    PROVE  Inv'
<1>0. /\ TypeOK /\ WriterInv /\ RingInv /\ wpc[w] = "ring"
      /\ ring' = Kept(seq) /\ wpc' = [wpc EXCEPT ![w] = "open"]
      /\ UNCHANGED <<seq, log, pubMu, to, left, subs, closed, chan, dropped, restarts, lost>>
      /\ UNCHANGED <<cpc, found, last, out, resync, asked, cursor, base, got, excused, stale>>
  BY DEF Inv, Keep, call, caller
<1>1. /\ seq \in Nat /\ seq > 0 /\ seq \in Numbers
      /\ \A v \in Writers : v # w => wpc[v] = "idle" /\ left[v] = {}
  BY <1>0, OneWriter
<1>2. /\ wpc' \in [Writers -> {"idle", "ring", "open", "deliver", "evict", "again"}] /\ wpc'[w] = "open"
      /\ \A v \in Writers : v # w => wpc'[v] = "idle"
  BY <1>0, <1>1 DEF TypeOK
<1>3. Top = seq - 1 /\ Top' = seq
  BY <1>0, <1>1, <1>2 DEF Top
<1>4. /\ ring' \in Seq(Numbers) /\ Len(ring') <= RingLen /\ Len(ring') <= Top'
      /\ \A i \in 1 .. Len(ring') : ring'[i] + Len(ring') = Top' + i
      /\ ring' # <<>>
  <2>0. /\ ring \in Seq(Numbers) /\ Len(ring) \in Nat /\ Len(ring) <= RingLen /\ RingLen \in Nat
        /\ RingLen > 0 /\ Len(ring) <= seq - 1
        /\ \A i \in 1 .. Len(ring) : ring[i] \in Nat /\ ring[i] = seq - 1 - Len(ring) + i
    <3>1. ring \in Seq(Numbers) /\ Len(ring) \in Nat /\ Len(ring) <= RingLen /\ RingLen \in Nat /\ RingLen > 0
      BY <1>0, RoomAssumption DEF TypeOK
    <3>2. \A i \in 1 .. Len(ring) : ring[i] \in Nat
      BY <3>1, SeqNat
    <3> QED BY <1>0, <1>1, <1>3, <3>1, <3>2, RingFacts DEF RingInv
  <2>1. CASE Len(ring) >= RingLen
    <3>1. ring # <<>> /\ ring' = Append(Tail(ring), seq)
      BY <1>0, <2>0, <2>1, EmptyFacts DEF Kept
    <3>2. Tail(ring) \in Seq(Numbers) /\ Len(Tail(ring)) = Len(ring) - 1
      BY <2>0, <3>1, TailFacts
    <3>3. \A i \in 1 .. Len(ring) - 1 : Tail(ring)[i] = ring[i + 1] /\ i + 1 \in 1 .. Len(ring)
      BY <2>0, <3>1
    <3>4. ring' \in Seq(Numbers) /\ Len(ring') = Len(ring) /\ ring' # <<>>
      BY <1>1, <2>0, <3>1, <3>2, AppendFacts
    <3>5. ASSUME NEW i \in 1 .. Len(ring') PROVE ring'[i] = seq - Len(ring) + i
      <4>1. CASE i = Len(ring)
        <5>1. ring'[i] = seq
          BY <3>1, <3>2, <4>1
        <5> QED BY <1>1, <2>0, <4>1, <5>1
      <4>2. CASE i # Len(ring)
        <5>1. i \in 1 .. Len(ring) - 1
          BY <2>0, <3>4, <4>2
        <5>2. ring'[i] = ring[i + 1]
          BY <3>1, <3>2, <3>3, <5>1
        <5> QED BY <1>1, <2>0, <3>3, <5>1, <5>2
      <4> QED BY <4>1, <4>2
    <3> QED BY <1>1, <1>3, <2>0, <3>4, <3>5
  <2>2. CASE Len(ring) < RingLen
    <3>1. ring' = Append(ring, seq)
      BY <1>0, <2>0, <2>2 DEF Kept
    <3>2. ring' \in Seq(Numbers) /\ Len(ring') = Len(ring) + 1 /\ ring' # <<>>
      BY <1>1, <2>0, <3>1, AppendFacts
    <3>3. ASSUME NEW i \in 1 .. Len(ring') PROVE ring'[i] = seq - (Len(ring) + 1) + i
      <4>1. CASE i = Len(ring) + 1
        <5>1. ring'[i] = seq
          BY <2>0, <3>1, <4>1
        <5> QED BY <1>1, <2>0, <4>1, <5>1
      <4>2. CASE i # Len(ring) + 1
        <5>1. i \in 1 .. Len(ring)
          BY <2>0, <3>2, <4>2
        <5>2. ring'[i] = ring[i]
          BY <2>0, <3>1, <5>1
        <5> QED BY <1>1, <2>0, <5>1, <5>2
      <4> QED BY <4>1, <4>2
    <3>4. Len(ring') <= RingLen /\ Len(ring') <= Top'
      BY <1>1, <1>3, <2>0, <2>2, <3>2
    <3>5. \A i \in 1 .. Len(ring') : ring'[i] + Len(ring') = Top' + i
      BY <1>1, <1>3, <2>0, <3>2, <3>3
    <3> QED BY <3>2, <3>4, <3>5
  <2> QED BY <2>0, <2>1, <2>2
<1>5. TypeOK'
  BY <1>0, <1>2, <1>4 DEF TypeOK
<1>6. WriterInv'
  BY <1>0, <1>1, <1>2 DEF WriterInv
<1>7. RingInv'
  BY <1>4 DEF RingInv
<1>8. ASSUME NEW c \in Callers PROVE CallerInv(c)'
  BY <1>0, <1>2, SameCaller DEF Inv, View, Pending
<1> QED BY <1>5, <1>6, <1>7, <1>8 DEF Inv

\* The delivery starts: who does not subscribe to the event is owed nothing.
LEMMA OpenStep ==
    ASSUME Inv, NEW w \in Writers, Open(w)
    PROVE  Inv'
<1>0. /\ TypeOK /\ WriterInv /\ RingInv /\ wpc[w] = "open"
      /\ left' = [left EXCEPT ![w] = IF Subscribed(seq) THEN subs ELSE {}]
      /\ wpc' = [wpc EXCEPT ![w] = "deliver"]
      /\ UNCHANGED <<seq, ring, log, pubMu, to, subs, closed, chan, dropped, restarts, lost>>
      /\ UNCHANGED <<cpc, found, last, out, resync, asked, cursor, base, got, excused, stale>>
  BY DEF Inv, Open, call, caller
<1>1. \A v \in Writers : v # w => wpc[v] = "idle" /\ left[v] = {}
  BY <1>0, OneWriter
<1>2. /\ wpc' \in [Writers -> {"idle", "ring", "open", "deliver", "evict", "again"}] /\ wpc'[w] = "deliver"
      /\ \A v \in Writers : v # w => wpc'[v] = "idle" /\ left'[v] = {}
      /\ left' \in [Writers -> SUBSET Callers] /\ left'[w] = IF Subscribed(seq) THEN subs ELSE {}
  BY <1>0, <1>1 DEF TypeOK
<1>3. TypeOK'
  BY <1>0, <1>2 DEF TypeOK
<1>4. WriterInv'
  BY <1>0, <1>1, <1>2 DEF WriterInv
<1>5. RingInv'
  <2>1. Top' = Top
    BY <1>0, <1>1, <1>2 DEF Top
  <2> QED BY <1>0, <2>1 DEF RingInv
<1>6. ASSUME NEW c \in Callers PROVE CallerInv(c)'
  <2>1. Pending(c)
    BY <1>0 DEF Pending
  <2>2. c \in subs => Pending(c)' \/ ~Matches(seq)
    BY <1>2 DEF Pending, Matches, Subscribed
  <2> QED BY <1>0, <2>1, <2>2, SameCaller DEF Inv, View
<1> QED BY <1>3, <1>4, <1>5, <1>6 DEF Inv

\* The end of a publish: nobody is left to serve.
LEMMA PublishedStep ==
    ASSUME Inv, NEW w \in Writers, Published(w)
    PROVE  Inv'
<1>0. /\ TypeOK /\ WriterInv /\ RingInv /\ wpc[w] = "deliver" /\ left[w] = {}
      /\ wpc' = [wpc EXCEPT ![w] = "idle"] /\ pubMu' = None
      /\ UNCHANGED <<seq, ring, log, to, left, subs, closed, chan, dropped, restarts, lost>>
      /\ UNCHANGED <<cpc, found, last, out, resync, asked, cursor, base, got, excused, stale>>
  BY DEF Inv, Published, call, caller
<1>1. \A v \in Writers : v # w => wpc[v] = "idle" /\ left[v] = {}
  BY <1>0, OneWriter
<1>2. /\ wpc' \in [Writers -> {"idle", "ring", "open", "deliver", "evict", "again"}]
      /\ \A v \in Writers : wpc'[v] = "idle" /\ left[v] = {} /\ v # None
  BY <1>0, <1>1, NoneAssumption DEF TypeOK
<1>3. TypeOK'
  BY <1>0, <1>2 DEF TypeOK
<1>4. WriterInv'
  BY <1>0, <1>2 DEF WriterInv
<1>5. RingInv'
  <2>1. Top' = Top
    BY <1>0, <1>1, <1>2 DEF Top
  <2> QED BY <1>0, <2>1 DEF RingInv
<1>6. ASSUME NEW c \in Callers PROVE CallerInv(c)'
  <2>1. ~Pending(c) /\ ~Pending(c)'
    BY <1>0, <1>1, <1>2 DEF Pending
  <2> QED BY <1>0, <2>1, SameCaller DEF Inv, View
<1> QED BY <1>3, <1>4, <1>5, <1>6 DEF Inv

\* The last event goes to a channel with room.
LEMMA GiveStep ==
    ASSUME Inv, NEW w \in Writers, NEW c \in Callers, c \in left[w],
           wpc[w] \in {"deliver", "again"}, wpc[w] = "again" => to[w] = c,
           Len(chan[c]) < BufLen,
           chan' = [chan EXCEPT ![c] = Append(@, seq)],
           left' = [left EXCEPT ![w] = @ \ {c}],
           to' \in [Writers -> Callers \cup {None}],
           wpc' = [wpc EXCEPT ![w] = "deliver"],
           UNCHANGED <<seq, ring, log, pubMu, subs, closed, dropped, restarts, lost>>,
           UNCHANGED <<cpc, found, last, out, resync, asked, cursor, base, got, excused, stale>>
    PROVE  Inv'
<1>0. TypeOK /\ WriterInv /\ RingInv /\ wpc[w] # "idle"
  BY DEF Inv
<1>1. /\ \A v \in Writers : v # w => wpc[v] = "idle" /\ left[v] = {}
      /\ seq \in Nat /\ seq > 0 /\ seq \in Numbers
  BY <1>0, OneWriter
<1>2. /\ wpc' \in [Writers -> {"idle", "ring", "open", "deliver", "evict", "again"}] /\ wpc'[w] = "deliver"
      /\ left' \in [Writers -> SUBSET Callers] /\ left'[w] = left[w] \ {c}
      /\ \A v \in Writers : v # w => wpc'[v] = "idle" /\ left'[v] = {}
  BY <1>0, <1>1 DEF TypeOK
<1>3. /\ chan[c] \in Seq(Numbers) /\ Len(chan[c]) \in Nat /\ BufLen \in Nat
      /\ chan'[c] = Append(chan[c], seq) /\ chan'[c] \in Seq(Numbers) /\ Len(chan'[c]) <= BufLen
      /\ Elements(chan'[c]) = Elements(chan[c]) \cup {seq}
      /\ chan' \in [Callers -> Seq(Numbers)] /\ \A d \in Callers : d # c => chan'[d] = chan[d]
  <2>1. chan[c] \in Seq(Numbers) /\ Len(chan[c]) \in Nat /\ BufLen \in Nat
    BY <1>0, RoomAssumption DEF TypeOK
  <2>2. chan'[c] = Append(chan[c], seq) /\ \A d \in Callers : d # c => chan'[d] = chan[d]
    BY <1>0 DEF TypeOK
  <2>3. /\ chan'[c] \in Seq(Numbers) /\ Len(chan'[c]) <= BufLen
        /\ Elements(chan'[c]) = Elements(chan[c]) \cup {seq}
    BY <1>1, <2>1, <2>2, AppendFacts
  <2>4. chan' \in [Callers -> Seq(Numbers)]
    BY <1>0, <2>2, <2>3 DEF TypeOK
  <2> QED BY <2>1, <2>2, <2>3, <2>4
<1>4. TypeOK'
  <2>1. \A d \in Callers : Len(chan'[d]) <= BufLen
    BY <1>0, <1>3 DEF TypeOK
  <2> QED BY <1>0, <1>2, <1>3, <2>1 DEF TypeOK
<1>5. WriterInv'
  BY <1>0, <1>2 DEF WriterInv
<1>6. RingInv'
  <2>1. Top' = Top
    BY <1>0, <1>1, <1>2 DEF Top
  <2> QED BY <1>0, <2>1 DEF RingInv
<1>7. ASSUME NEW d \in Callers, d # c PROVE CallerInv(d)'
  <2>1. Pending(d)' <=> Pending(d)
    BY <1>0, <1>1, <1>2, <1>7 DEF Pending
  <2> QED BY <1>3, <1>7, <2>1, SameCaller DEF Inv, View
<1>8. CallerInv(c)'
  <2>0. CallerInv(c) /\ Pending(c) /\ ~Pending(c)' /\ c \in subs
    BY <1>0, <1>2 DEF Inv, Pending, WriterInv
  <2>1. ChanInv(c)'
    <3>1. \A m \in Elements(chan[c]) : 0 < m /\ m < seq
      BY <2>0 DEF CallerInv, ChanInv
    <3>2. chan[c] \in Seq(Nat)
      BY <1>3, SeqNat
    <3>3. Rising(chan'[c])
      BY <1>1, <1>3, <2>0, <3>1, <3>2, AppendRises DEF CallerInv, ChanInv
    <3>4. \A m \in Elements(chan'[c]) : 0 < m /\ m <= seq
      <4>1. \A m \in Elements(chan[c]) : m \in Nat
        BY <3>2, ElementsTyped
      <4> QED BY <1>1, <1>3, <3>1, <4>1
    <3> QED BY <2>0, <3>3, <3>4 DEF ChanInv
  <2>2. CallInv(c)'
    BY <2>0 DEF CallerInv, CallInv
  <2>3. OutInv(c)'
    BY <2>0 DEF CallerInv, OutInv
  <2>4. LiveInv(c)'
    <3>1. ToldInv(c) => ToldInv(c)'
      BY DEF ToldInv, Matches
    <3>2. Coming(c)' = Coming(c) \cup {seq}
      BY <1>3 DEF Coming
    <3>3. ASSUME NextInv(c), NEW m \in 1 .. seq, log[m] = "note", last[c] < m
          PROVE  /\ \A h \in Elements(found[c]) : m < h => m \in Elements(found[c])
                 /\ m \in Coming(c)'
      BY <2>0, <3>2, <3>3 DEF NextInv, Matches
    <3>4. NextInv(c) => NextInv(c)'
      BY <3>3 DEF NextInv, Matches
    <3> QED BY <2>0, <3>1, <3>4 DEF CallerInv, LiveInv
  <2>5. MissedInv(c)'
    BY <2>0 DEF CallerInv, MissedInv, Matches
  <2> QED BY <2>1, <2>2, <2>3, <2>4, <2>5 DEF CallerInv
<1> QED BY <1>4, <1>5, <1>6, <1>7, <1>8 DEF Inv

\* A delivery puts the event into the channel, or finds the channel full.
LEMMA DeliverStep ==
    ASSUME Inv, NEW w \in Writers, NEW c \in Callers, Deliver(w, c)
    PROVE  Inv'
<1>0. /\ TypeOK /\ WriterInv /\ RingInv /\ wpc[w] = "deliver" /\ c \in left[w]
      /\ UNCHANGED <<seq, ring, log, pubMu, subs, closed, dropped, restarts, lost>>
      /\ UNCHANGED <<cpc, found, last, out, resync, asked, cursor, base, got, excused, stale>>
  BY DEF Inv, Deliver, call, caller
<1>1. CASE Len(chan[c]) < BufLen
  <2>1. /\ chan' = [chan EXCEPT ![c] = Append(@, seq)] /\ left' = [left EXCEPT ![w] = @ \ {c}]
        /\ UNCHANGED <<wpc, to>>
    BY <1>1 DEF Deliver
  <2>2. wpc' = [wpc EXCEPT ![w] = "deliver"] /\ to' \in [Writers -> Callers \cup {None}]
    BY <1>0, <2>1 DEF TypeOK
  <2> QED BY <1>0, <1>1, <2>1, <2>2, GiveStep
<1>2. CASE ~(Len(chan[c]) < BufLen)
  <2>1. /\ wpc' = [wpc EXCEPT ![w] = "evict"] /\ to' = [to EXCEPT ![w] = c] /\ UNCHANGED <<chan, left>>
    BY <1>2 DEF Deliver
  <2>2. /\ wpc' \in [Writers -> {"idle", "ring", "open", "deliver", "evict", "again"}] /\ wpc'[w] = "evict"
        /\ \A v \in Writers : v # w => wpc'[v] = wpc[v] /\ to'[v] = to[v]
        /\ to' \in [Writers -> Callers \cup {None}] /\ to'[w] = c
    BY <1>0, <2>1 DEF TypeOK
  <2>3. TypeOK'
    BY <1>0, <2>1, <2>2 DEF TypeOK
  <2>4. WriterInv'
    BY <1>0, <2>1, <2>2 DEF WriterInv
  <2>5. RingInv'
    <3>1. Top' = Top
      BY <1>0, <2>2 DEF Top
    <3> QED BY <1>0, <3>1 DEF RingInv
  <2>6. ASSUME NEW d \in Callers PROVE CallerInv(d)'
    <3>1. Pending(d)' <=> Pending(d)
      BY <1>0, <2>1, <2>2 DEF Pending
    <3> QED BY <1>0, <2>1, <3>1, SameCaller DEF Inv, View
  <2> QED BY <2>3, <2>4, <2>5, <2>6 DEF Inv
<1> QED BY <1>1, <1>2

\* The second try finds the room the first one made.
LEMMA AgainStep ==
    ASSUME Inv, NEW w \in Writers, Again(w)
    PROVE  Inv'
<1>0. /\ TypeOK /\ WriterInv /\ wpc[w] = "again"
      /\ chan' = [chan EXCEPT ![to[w]] = Append(@, seq)]
      /\ left' = [left EXCEPT ![w] = @ \ {to[w]}]
      /\ to' = [to EXCEPT ![w] = None]
      /\ wpc' = [wpc EXCEPT ![w] = "deliver"]
      /\ UNCHANGED <<seq, ring, log, pubMu, subs, closed, dropped, restarts, lost>>
      /\ UNCHANGED <<cpc, found, last, out, resync, asked, cursor, base, got, excused, stale>>
  BY DEF Inv, Again, call, caller
<1>1. to[w] \in left[w] /\ to[w] \in Callers /\ Len(chan[to[w]]) < BufLen
  BY <1>0 DEF WriterInv, TypeOK
<1>2. to' \in [Writers -> Callers \cup {None}]
  BY <1>0 DEF TypeOK
<1> QED BY <1>0, <1>1, <1>2, GiveStep

\* What a full channel loses counts as dropped, and nothing else is lost.
LEMMA EvictFrom ==
    ASSUME Inv, NEW w \in Writers, NEW c \in Callers, c = to[w], Evict(w)
    PROVE  Inv'
<1>0. /\ TypeOK /\ WriterInv /\ RingInv /\ wpc[w] = "evict" /\ wpc' = [wpc EXCEPT ![w] = "again"]
      /\ IF chan[c] = <<>>
         THEN UNCHANGED <<chan, dropped>>
         ELSE /\ dropped' = [dropped EXCEPT ![c] = @ \cup {Head(chan[c])}]
              /\ chan' = [chan EXCEPT ![c] = Tail(@)]
      /\ UNCHANGED <<seq, ring, log, pubMu, to, left, subs, closed, restarts, lost>>
      /\ UNCHANGED <<cpc, found, last, out, resync, asked, cursor, base, got, excused, stale>>
  BY DEF Inv, Evict, call, caller
<1>1. c \in Callers /\ c \in left[w] /\ \A v \in Writers : v # w => wpc[v] = "idle" /\ left[v] = {}
  BY <1>0, OneWriter DEF WriterInv, TypeOK
<1>2. /\ wpc' \in [Writers -> {"idle", "ring", "open", "deliver", "evict", "again"}] /\ wpc'[w] = "again"
      /\ \A v \in Writers : v # w => wpc'[v] = "idle"
  BY <1>0, <1>1 DEF TypeOK
<1>3. /\ chan[c] \in Seq(Numbers) /\ dropped[c] \subseteq Numbers /\ chan'[c] \in Seq(Numbers)
      /\ Len(chan'[c]) \in Nat /\ Len(chan'[c]) < BufLen /\ BufLen \in Nat
      /\ dropped'[c] \subseteq Numbers
      /\ dropped[c] \subseteq dropped'[c]
      /\ Elements(chan'[c]) \subseteq Elements(chan[c])
      /\ Elements(chan[c]) \cup dropped[c] = Elements(chan'[c]) \cup dropped'[c]
      /\ chan'[c] = chan[c] \/ (chan[c] # <<>> /\ chan'[c] = Tail(chan[c]))
      /\ \A d \in Callers : d # c => chan'[d] = chan[d] /\ dropped'[d] = dropped[d]
  <2>1. chan[c] \in Seq(Numbers) /\ dropped[c] \subseteq Numbers /\ Len(chan[c]) <= BufLen /\ BufLen \in Nat
        /\ BufLen > 0 /\ Len(chan[c]) \in Nat
    BY <1>0, <1>1, RoomAssumption DEF TypeOK
  <2>2. CASE chan[c] = <<>>
    BY <1>0, <2>1, <2>2, EmptyFacts
  <2>3. CASE chan[c] # <<>>
    <3>1. /\ dropped'[c] = dropped[c] \cup {Head(chan[c])} /\ chan'[c] = Tail(chan[c])
          /\ \A d \in Callers : d # c => chan'[d] = chan[d] /\ dropped'[d] = dropped[d]
      BY <1>0, <1>1, <2>3 DEF TypeOK
    <3>2. /\ Head(chan[c]) \in Numbers /\ Tail(chan[c]) \in Seq(Numbers) /\ Len(Tail(chan[c])) = Len(chan[c]) - 1
          /\ Len(chan[c]) > 0
          /\ Elements(chan[c]) = {Head(chan[c])} \cup Elements(Tail(chan[c]))
      BY <2>1, <2>3, TailFacts
    <3> QED BY <2>1, <2>3, <3>1, <3>2
  <2> QED BY <2>2, <2>3
<1>4. /\ chan' \in [Callers -> Seq(Numbers)] /\ \A d \in Callers : Len(chan'[d]) <= BufLen
      /\ dropped' \in [Callers -> SUBSET Numbers]
  <2>1. chan' \in [Callers -> Seq(Numbers)] /\ dropped' \in [Callers -> SUBSET Numbers]
    <3>1. CASE chan[c] = <<>>
      BY <1>0, <3>1 DEF TypeOK
    <3>2. CASE chan[c] # <<>>
      <4>1. chan' = [chan EXCEPT ![c] = Tail(chan[c])] /\ dropped' = [dropped EXCEPT ![c] = @ \cup {Head(chan[c])}]
        BY <1>0, <3>2
      <4>2. Tail(chan[c]) \in Seq(Numbers) /\ Head(chan[c]) \in Numbers
        BY <1>3, <3>2, TailFacts
      <4> QED BY <1>0, <1>1, <4>1, <4>2 DEF TypeOK
    <3> QED BY <3>1, <3>2
  <2>2. Len(chan'[c]) <= BufLen
    BY <1>3
  <2>3. \A d \in Callers : Len(chan[d]) <= BufLen
    BY <1>0 DEF TypeOK
  <2> QED BY <1>3, <2>1, <2>2, <2>3
<1>5. TypeOK'
  BY <1>0, <1>2, <1>4 DEF TypeOK
<1>6. WriterInv'
  <2>1. Len(chan'[to[w]]) < BufLen /\ to[w] \in left[w]
    BY <1>1, <1>3
  <2> QED BY <1>0, <1>2, <2>1 DEF WriterInv
<1>7. RingInv'
  <2>1. Top' = Top
    BY <1>0, <1>1, <1>2 DEF Top
  <2> QED BY <1>0, <2>1 DEF RingInv
<1>8. \A d \in Callers : Pending(d)' <=> Pending(d)
  BY <1>0, <1>1, <1>2 DEF Pending
<1>9. ASSUME NEW d \in Callers, d # c PROVE CallerInv(d)'
  BY <1>0, <1>3, <1>8, <1>9, SameCaller DEF Inv, View
<1>10. CallerInv(c)'
  <2>0. CallerInv(c) /\ (Pending(c)' <=> Pending(c)) /\ c \in subs
    BY <1>0, <1>1, <1>8 DEF Inv, WriterInv
  <2>1. ChanInv(c)'
    <3>1. Rising(chan'[c])
      BY <1>3, <2>0, SeqNat, TailRises DEF CallerInv, ChanInv
    <3> QED BY <1>0, <1>3, <2>0, <3>1 DEF CallerInv, ChanInv
  <2>2. CallInv(c)'
    BY <1>0, <2>0, <1>1 DEF CallerInv, CallInv, WriterInv
  <2>3. OutInv(c)'
    BY <1>0, <2>0 DEF CallerInv, OutInv
  <2>4. LiveInv(c)'
    <3>1. ToldInv(c) => ToldInv(c)'
      BY <1>0, <1>3 DEF ToldInv, Matches
    <3>2. Coming(c)' = Coming(c)
      BY <1>0, <1>3 DEF Coming
    <3>3. NextInv(c) => NextInv(c)'
      BY <1>0, <1>3, <2>0, <3>2 DEF NextInv, Matches
    <3> QED BY <1>0, <2>0, <3>1, <3>3 DEF CallerInv, LiveInv
  <2>5. MissedInv(c)'
    BY <1>0, <2>0 DEF CallerInv, MissedInv, Matches
  <2> QED BY <2>1, <2>2, <2>3, <2>4, <2>5 DEF CallerInv
<1> QED BY <1>5, <1>6, <1>7, <1>9, <1>10 DEF Inv

\* A writer evicts from the channel of a caller.
LEMMA EvictStep ==
    ASSUME Inv, NEW w \in Writers, Evict(w)
    PROVE  Inv'
<1>1. to[w] \in Callers
  BY DEF Inv, Evict, WriterInv, TypeOK
<1> QED BY <1>1, EvictFrom

-----------------------------------------------------------------------------
(* A call *)

\* A step of one caller that publishes nothing: what is left to show is about that caller.
LEMMA CallerStep ==
    ASSUME Inv, NEW c \in Callers, UNCHANGED hub, TypeOK',
           subs \subseteq subs' \/ ~Delivering,
           \A d \in Callers : d # c => UNCHANGED View(d) /\ (d \in subs' => d \in subs),
           Len(chan'[c]) \in Nat /\ Len(chan'[c]) <= Len(chan[c]),
           Pending(c)' = Pending(c) => CallerInv(c)'
    PROVE  Inv'
<1>0. TypeOK /\ WriterInv /\ RingInv /\ UNCHANGED <<seq, log>>
  BY DEF Inv, hub
<1>1. \A d \in Callers : Len(chan'[d]) \in Nat /\ Len(chan'[d]) <= Len(chan[d])
  <2>1. ASSUME NEW d \in Callers, d # c PROVE chan'[d] = chan[d] /\ Len(chan[d]) \in Nat
    BY <1>0, <2>1 DEF View, TypeOK
  <2> QED BY <2>1
<1>2. WriterInv' /\ RingInv' /\ \A d \in Callers : Pending(d)' <=> Pending(d)
  BY <1>0, <1>1, SameWriters
<1>3. ASSUME NEW d \in Callers PROVE CallerInv(d)'
  <2>1. CASE d = c
    <3>1. Pending(c)' = Pending(c)
      BY <1>2 DEF Pending
    <3> QED BY <2>1, <3>1
  <2>2. CASE d # c
    BY <1>0, <1>2, <2>2, SameCaller DEF Inv
  <2> QED BY <2>1, <2>2
<1> QED BY <1>2, <1>3 DEF Inv

\* A call starts from the cursor, or from now.
LEMMA CallStep ==
    ASSUME Inv, NEW c \in Callers, Call(c)
    PROVE  Inv'
<1> DEFINE start == IF cursor[c] = NoCursor THEN seq ELSE cursor[c]
<1>0. /\ TypeOK /\ cpc[c] = "idle" /\ CallerInv(c)
      /\ asked' = [asked EXCEPT ![c] = start] /\ last' = [last EXCEPT ![c] = start]
      /\ cpc' = [cpc EXCEPT ![c] = "subscribe"]
      /\ UNCHANGED <<hub, subs, closed, chan, found, out, resync, dropped, restarts, lost>>
      /\ UNCHANGED <<cursor, base, got, excused, stale>>
  BY DEF Inv, Call, caller
<1>1. start \in Numbers /\ start \in Nat
  BY <1>0, NumbersNat DEF TypeOK
<1> HIDE DEF start
<1>2. TypeOK'
  BY <1>0, <1>1 DEF TypeOK, hub
<1>3. \A d \in Callers : d # c => UNCHANGED View(d)
  BY <1>0 DEF View, TypeOK
<1>4. asked'[c] = start /\ last'[c] = start /\ cpc'[c] = "subscribe"
  BY <1>0 DEF TypeOK
<1>5. ASSUME Pending(c)' = Pending(c) PROVE CallerInv(c)'
  <2>1. ChanInv(c)'
    BY <1>0, <1>5 DEF CallerInv, ChanInv, hub
  <2>2. CallInv(c)'
    BY <1>0, <1>1, <1>4, NumbersNat DEF CallerInv, CallInv, hub, start, During, TypeOK
  <2>3. OutInv(c)'
    BY <1>0, <1>4, EmptyFacts DEF CallerInv, CallInv, OutInv, During
  <2>4. LiveInv(c)'
    BY <1>4 DEF LiveInv, During
  <2>5. MissedInv(c)'
    BY <1>0 DEF CallerInv, MissedInv, Matches, hub
  <2> QED BY <2>1, <2>2, <2>3, <2>4, <2>5 DEF CallerInv
<1>6. Len(chan'[c]) \in Nat /\ Len(chan'[c]) <= Len(chan[c])
  BY <1>0 DEF TypeOK
<1> QED BY <1>0, <1>2, <1>3, <1>5, <1>6, CallerStep

\* The channel starts empty.
LEMMA SubscribeStep ==
    ASSUME Inv, NEW c \in Callers, Subscribe(c)
    PROVE  Inv'
<1>0. /\ TypeOK /\ cpc[c] = "subscribe" /\ CallerInv(c) /\ ~Delivering
      /\ subs' = (IF closed THEN subs ELSE subs \cup {c})
      /\ chan' = [chan EXCEPT ![c] = <<>>] /\ dropped' = [dropped EXCEPT ![c] = {}]
      /\ cpc' = [cpc EXCEPT ![c] = "replay"]
      /\ UNCHANGED <<hub, closed, found, last, out, resync, asked, restarts, lost>>
      /\ UNCHANGED <<cursor, base, got, excused, stale>>
  BY DEF Inv, Subscribe, caller
<1>1. chan'[c] = <<>> /\ cpc'[c] = "replay"
  BY <1>0 DEF TypeOK
<1>2. TypeOK'
  <2>1. chan' \in [Callers -> Seq(Numbers)] /\ \A d \in Callers : Len(chan'[d]) <= BufLen
    BY <1>0, RoomAssumption, EmptyFacts DEF TypeOK
  <2> QED BY <1>0, <2>1 DEF TypeOK, hub
<1>3. \A d \in Callers : d # c => UNCHANGED View(d) /\ (d \in subs' => d \in subs)
  BY <1>0 DEF View, TypeOK
<1>5. ASSUME Pending(c)' = Pending(c) PROVE CallerInv(c)'
  <2>1. ChanInv(c)'
    BY <1>1, EmptyFacts DEF ChanInv
  <2>2. CallInv(c)'
    BY <1>0, <1>1 DEF CallerInv, CallInv, hub, During
  <2>3. OutInv(c)'
    BY <1>0 DEF CallerInv, OutInv, hub
  <2>4. LiveInv(c)'
    BY <1>1 DEF LiveInv, During
  <2>5. MissedInv(c)'
    BY <1>0 DEF CallerInv, MissedInv, Matches, hub
  <2> QED BY <2>1, <2>2, <2>3, <2>4, <2>5 DEF CallerInv
<1>6. Len(chan'[c]) \in Nat /\ Len(chan'[c]) <= Len(chan[c])
  BY <1>0, <1>1, EmptyFacts DEF TypeOK
<1> QED BY <1>0, <1>2, <1>3, <1>5, <1>6, CallerStep

\* From the replay on, what follows the cursor is in the copy of the ring, in the channel or on
\* its way to it, or the call is told to read everything again.
LEMMA ReplayStep ==
    ASSUME Inv, NEW c \in Callers, Replay(c)
    PROVE  Inv'
<1>0. /\ TypeOK /\ RingInv /\ cpc[c] = "replay" /\ CallerInv(c)
      /\ found' = [found EXCEPT ![c] = Retained(asked[c])]
      /\ resync' = [resync EXCEPT ![c] = Outside(asked[c])]
      /\ cpc' = [cpc EXCEPT ![c] = "sift"]
      /\ UNCHANGED <<hub, subs, closed, chan, last, out, asked, dropped, restarts, lost>>
      /\ UNCHANGED <<cursor, base, got, excused, stale>>
  BY DEF Inv, Replay, caller
<1>1. /\ asked[c] \in Numbers /\ Retained(asked[c]) \in Seq(Numbers) /\ Rising(Retained(asked[c]))
      /\ \A m \in Elements(Retained(asked[c])) : m \in Nat /\ asked[c] < m /\ m <= Top
      /\ ~Outside(asked[c]) => /\ asked[c] <= seq
                               /\ \A m \in Nat : asked[c] < m /\ m <= Top => m \in Elements(Retained(asked[c]))
  <2>1. asked[c] \in Numbers
    BY <1>0 DEF TypeOK
  <2> QED BY <1>0, <2>1, RetainedFacts
<1>2. /\ found'[c] = Retained(asked[c]) /\ resync'[c] = Outside(asked[c]) /\ cpc'[c] = "sift"
      /\ Outside(asked[c]) \in BOOLEAN
  BY <1>0 DEF TypeOK, Outside
<1>3. TypeOK'
  BY <1>0, <1>1, <1>2 DEF TypeOK, hub
<1>4. \A d \in Callers : d # c => UNCHANGED View(d)
  BY <1>0 DEF View, TypeOK
<1>5. ASSUME Pending(c)' = Pending(c) PROVE CallerInv(c)'
  <2>0. last[c] = asked[c] /\ out[c] = <<>> /\ asked[c] \in Nat /\ Top \in Nat /\ Top <= seq /\ seq \in Nat
    BY <1>0, <1>1, NumbersNat, RingFacts DEF CallerInv, CallInv, During, TypeOK
  <2>1. ChanInv(c)'
    BY <1>0, <1>5 DEF CallerInv, ChanInv, hub
  <2>2. CallInv(c)'
    BY <1>0, <1>2 DEF CallerInv, CallInv, hub, During
  <2>3. OutInv(c)'
    <3>1. \A m \in Elements(found'[c]) : 0 < m /\ m <= seq /\ last[c] < m
      BY <1>1, <1>2, <2>0
    <3> QED BY <1>0, <1>1, <1>2, <2>0, <3>1, EmptyFacts DEF OutInv, hub
  <2>4. LiveInv(c)'
    <3>0. SUFFICES ASSUME ~resync'[c], ~stale[c] PROVE ToldInv(c)' /\ NextInv(c)'
      BY <1>0 DEF LiveInv
    <3>1. \A m \in Nat : asked[c] < m /\ m <= Top => m \in Elements(found'[c])
      BY <1>1, <1>2, <3>0
    <3>2. ToldInv(c)'
      BY <1>0, <2>0 DEF ToldInv
    <3>3. ASSUME NEW m \in 1 .. seq, asked[c] < m
          PROVE  \/ m \in Elements(found'[c])
                 \/ m = seq /\ Pending(c) /\ Top = seq - 1
      <4>1. CASE m <= Top
        BY <3>1, <3>3, <4>1
      <4>2. CASE ~(m <= Top)
        <5>1. \E w \in Writers : wpc[w] = "ring"
          BY <2>0, <3>3, <4>2 DEF Top
        <5>2. Top = seq - 1 /\ Pending(c)
          BY <5>1 DEF Top, Pending
        <5> QED BY <2>0, <3>3, <4>2, <5>2
      <4> QED BY <4>1, <4>2
    <3>4. ASSUME NEW m \in 1 .. seq, asked[c] < m
          PROVE  /\ \A h \in Elements(found'[c]) : m < h => m \in Elements(found'[c])
                 /\ \A h \in Elements(chan[c]) : m < h => m \in Elements(found'[c])
      <4>1. ASSUME NEW h \in Elements(found'[c]), m < h PROVE m <= Top
        BY <1>1, <1>2, <2>0, <3>4, <4>1
      <4>2. ASSUME NEW h \in Elements(chan[c]), m < h PROVE m \in Elements(found'[c])
        <5>1. h \in Nat /\ h <= seq
          <6>1. chan[c] \in Seq(Numbers)
            BY <1>0 DEF TypeOK
          <6> QED BY <1>0, <6>1, NumbersNat, ElementsTyped DEF CallerInv, ChanInv
        <5>2. m # seq
          BY <2>0, <3>4, <4>2, <5>1
        <5> QED BY <3>3, <3>4, <5>2
      <4> QED BY <3>1, <3>4, <4>1, <4>2
    <3>5. NextInv(c)'
      <4>1. Elements(found'[c]) \subseteq Coming(c)'
        BY <1>2 DEF Coming
      <4> QED BY <1>0, <1>5, <2>0, <3>3, <3>4, <4>1 DEF NextInv, hub
    <3> QED BY <3>2, <3>5
  <2>5. MissedInv(c)'
    BY <1>0 DEF CallerInv, MissedInv, Matches, hub
  <2> QED BY <2>1, <2>2, <2>3, <2>4, <2>5 DEF CallerInv
<1>6. Len(chan'[c]) \in Nat /\ Len(chan'[c]) <= Len(chan[c])
  BY <1>0 DEF TypeOK
<1> QED BY <1>0, <1>3, <1>4, <1>5, <1>6, CallerStep

\* The next event of the copy is the next there is.
LEMMA SiftStep ==
    ASSUME Inv, NEW c \in Callers, Sift(c)
    PROVE  Inv'
<1> DEFINE n == Head(found[c])
<1>0. /\ TypeOK /\ cpc[c] = "sift" /\ found[c] # <<>> /\ CallerInv(c)
      /\ IF Subscribed(n)
         THEN /\ last' = [last EXCEPT ![c] = IF n > @ THEN n ELSE @]
              /\ out' = IF Matches(n) THEN [out EXCEPT ![c] = Append(@, n)] ELSE out
         ELSE UNCHANGED <<last, out>>
      /\ found' = [found EXCEPT ![c] = Tail(@)]
      /\ UNCHANGED <<hub, subs, closed, chan, cpc, resync, asked, dropped, restarts, lost>>
      /\ UNCHANGED <<cursor, base, got, excused, stale>>
  BY DEF Inv, Sift, caller
<1>1. /\ found[c] \in Seq(Numbers) /\ out[c] \in Seq(Numbers) /\ last[c] \in Nat /\ asked[c] \in Nat /\ seq \in Nat
  BY <1>0, NumbersNat DEF TypeOK
<1>2. /\ n \in Numbers /\ n \in Nat /\ Tail(found[c]) \in Seq(Numbers)
      /\ Elements(found[c]) = {n} \cup Elements(Tail(found[c]))
      /\ Rising(Tail(found[c])) /\ \A m \in Elements(Tail(found[c])) : m \in Nat /\ n < m
      /\ 0 < n /\ n <= seq /\ last[c] < n
  <2>1. /\ n \in Numbers /\ Tail(found[c]) \in Seq(Numbers)
        /\ Elements(found[c]) = {n} \cup Elements(Tail(found[c]))
    BY <1>0, <1>1, TailFacts
  <2>2. Rising(Tail(found[c])) /\ \A m \in Elements(Tail(found[c])) : n < m
    BY <1>0, <1>1, SeqNat, TailRises DEF CallerInv, OutInv
  <2>3. 0 < n /\ n <= seq /\ last[c] < n
    BY <1>0, <2>1 DEF CallerInv, OutInv
  <2> QED BY <2>1, <2>2, <2>3, NumbersNat, ElementsTyped
<1> HIDE DEF n
<1>3. /\ found'[c] = Tail(found[c])
      /\ last'[c] = IF Subscribed(n) THEN n ELSE last[c]
      /\ out'[c] = IF Matches(n) THEN Append(out[c], n) ELSE out[c]
  BY <1>0, <1>1, <1>2 DEF TypeOK, Matches, Subscribed
<1>4. TypeOK'
  <2>1. out' \in [Callers -> Seq(Numbers)]
    <3>1. Append(out[c], n) \in Seq(Numbers)
      BY <1>1, <1>2, AppendFacts
    <3> QED BY <1>0, <3>1 DEF TypeOK
  <2>2. last' \in [Callers -> Numbers] /\ found' \in [Callers -> Seq(Numbers)]
    BY <1>0, <1>2 DEF TypeOK
  <2> QED BY <1>0, <2>1, <2>2 DEF TypeOK, hub
<1>5. \A d \in Callers : d # c => UNCHANGED View(d)
  BY <1>0 DEF View, TypeOK
<1>6. ASSUME Pending(c)' = Pending(c) PROVE CallerInv(c)'
  <2>1. ChanInv(c)'
    BY <1>0, <1>6 DEF CallerInv, ChanInv, hub
  <2>2. CallInv(c)'
    BY <1>0, <1>1, <1>2, <1>3 DEF CallerInv, CallInv, hub, During
  <2>3. OutInv(c)'
    <3>1. \A m \in Elements(found'[c]) : 0 < m /\ m <= seq /\ last'[c] < m
      BY <1>0, <1>1, <1>2, <1>3 DEF CallerInv, OutInv
    <3>2. CASE ~Matches(n)
      <4>1. \A m \in Elements(out[c]) : m \in Nat /\ asked[c] < m /\ m <= last[c]
        BY <1>0, <1>1, NumbersNat, ElementsTyped DEF CallerInv, OutInv
      <4>2. \A m \in Elements(out'[c]) : asked[c] < m /\ m <= last'[c]
        BY <1>1, <1>2, <1>3, <3>2, <4>1
      <4> QED BY <1>0, <1>2, <1>3, <3>1, <3>2, <4>2 DEF CallerInv, OutInv, hub
    <3>3. CASE Matches(n)
      <4>0. last'[c] = n /\ out'[c] = Append(out[c], n)
        BY <1>3, <3>3 DEF Matches, Subscribed
      <4>1. \A m \in Elements(out[c]) : m \in Nat /\ asked[c] < m /\ m <= last[c] /\ m < n
        <5>1. \A m \in Elements(out[c]) : m \in Nat /\ asked[c] < m /\ m <= last[c]
          BY <1>0, <1>1, NumbersNat, ElementsTyped DEF CallerInv, OutInv
        <5> QED BY <1>1, <1>2, <5>1
      <4>2. Elements(out'[c]) = Elements(out[c]) \cup {n}
        BY <1>1, <1>2, <4>0, AppendFacts
      <4>3. Rising(out'[c])
        BY <1>0, <1>1, <1>2, <4>0, <4>1, SeqNat, AppendRises DEF CallerInv, OutInv
      <4>4. asked[c] < n
        BY <1>0, <1>1, <1>2 DEF CallerInv, CallInv
      <4>5. \A m \in Elements(out'[c]) : asked[c] < m /\ m <= last'[c]
        BY <1>1, <1>2, <4>0, <4>1, <4>2, <4>4
      <4> QED BY <1>0, <1>2, <1>3, <3>1, <4>3, <4>5 DEF OutInv, hub
    <3> QED BY <3>2, <3>3
  <2>4. LiveInv(c)'
    <3>0. SUFFICES ASSUME ~resync[c], ~stale[c] PROVE ToldInv(c)' /\ NextInv(c)'
      BY <1>0 DEF LiveInv
    <3>1. ToldInv(c) /\ NextInv(c)
      BY <1>0, <3>0 DEF CallerInv, LiveInv, During
    <3>2. Elements(out[c]) \subseteq Elements(out'[c]) /\ (Matches(n) => n \in Elements(out'[c]))
      BY <1>1, <1>2, <1>3, AppendFacts
    <3>3. ASSUME NEW m \in 1 .. seq, Matches(m), asked[c] < m, m <= last'[c]
          PROVE  m \in Elements(out'[c]) \cup dropped[c]
      <4>1. CASE m <= last[c]
        BY <3>1, <3>2, <3>3, <4>1 DEF ToldInv
      <4>2. CASE ~(m <= last[c])
        <5>1. m <= n /\ last[c] < m
          BY <1>1, <1>3, <3>3, <4>2
        <5>2. CASE m = n
          BY <3>2, <3>3, <5>2
        <5>3. CASE m < n
          <6>1. m \in Elements(found[c])
            BY <1>2, <3>1, <3>3, <5>1, <5>3 DEF NextInv
          <6>2. m \notin Elements(found[c])
            BY <1>2, <3>3, <5>3
          <6> QED BY <6>1, <6>2
        <5> QED BY <1>2, <5>1, <5>2, <5>3
      <4> QED BY <4>1, <4>2
    <3>4. ASSUME NEW m \in 1 .. seq, Matches(m), last'[c] < m
          PROVE  m # n /\ last[c] < m
      BY <1>1, <1>2, <1>3, <3>4 DEF Matches, Subscribed
    <3>5. Elements(found[c]) = {n} \cup Elements(found'[c])
      BY <1>2, <1>3
    <3>6. \A m : m \in Coming(c) => m = n \/ m \in Coming(c)'
      BY <1>0, <3>5 DEF Coming
    <3>7. ToldInv(c)'
      BY <1>0, <3>3 DEF ToldInv, hub, Matches
    <3>8. NextInv(c)'
      BY <1>0, <1>6, <3>1, <3>4, <3>5, <3>6 DEF NextInv, hub, Matches
    <3> QED BY <3>7, <3>8
  <2>5. MissedInv(c)'
    BY <1>0 DEF CallerInv, MissedInv, Matches, hub
  <2> QED BY <2>1, <2>2, <2>3, <2>4, <2>5 DEF CallerInv
<1>7. Len(chan'[c]) \in Nat /\ Len(chan'[c]) <= Len(chan[c])
  BY <1>0 DEF TypeOK
<1> QED BY <1>0, <1>4, <1>5, <1>6, <1>7, CallerStep

\* With the copy at its end, what follows last is in the channel or on its way.
LEMMA SiftedStep ==
    ASSUME Inv, NEW c \in Callers, Sifted(c)
    PROVE  Inv'
<1>0. /\ TypeOK /\ cpc[c] = "sift" /\ found[c] = <<>> /\ CallerInv(c)
      /\ last' = [last EXCEPT ![c] = IF resync[c] /\ seq > @ THEN seq ELSE @]
      /\ cpc' = [cpc EXCEPT ![c] = IF resync[c] \/ out[c] # <<>> THEN "answer" ELSE "wait"]
      /\ UNCHANGED <<hub, subs, closed, chan, found, out, resync, asked, dropped, restarts, lost>>
      /\ UNCHANGED <<cursor, base, got, excused, stale>>
  BY DEF Inv, Sifted, caller
<1>1. last[c] \in Nat /\ asked[c] \in Nat /\ seq \in Nat /\ seq \in Numbers /\ out[c] \in Seq(Numbers)
  BY <1>0, NumbersNat DEF TypeOK
<1>2. /\ cpc'[c] \in {"answer", "wait"} /\ (cpc'[c] = "wait" => ~resync[c])
      /\ last'[c] = (IF resync[c] /\ seq > last[c] THEN seq ELSE last[c])
      /\ last[c] <= last'[c] /\ last'[c] \in Nat /\ (~resync[c] => last'[c] = last[c])
  BY <1>0, <1>1 DEF TypeOK
<1>3. TypeOK'
  BY <1>0, <1>1 DEF TypeOK, hub
<1>4. \A d \in Callers : d # c => UNCHANGED View(d)
  BY <1>0 DEF View, TypeOK
<1>5. ASSUME Pending(c)' = Pending(c) PROVE CallerInv(c)'
  <2>1. ChanInv(c)'
    BY <1>0, <1>5 DEF CallerInv, ChanInv, hub
  <2>2. CallInv(c)'
    BY <1>0, <1>1, <1>2 DEF CallerInv, CallInv, hub, During
  <2>3. OutInv(c)'
    <3>1. \A m \in Elements(out[c]) : m \in Nat /\ asked[c] < m /\ m <= last[c]
      BY <1>0, <1>1, NumbersNat, ElementsTyped DEF CallerInv, OutInv
    <3>2. \A m \in Elements(out[c]) : asked[c] < m /\ m <= last'[c]
      BY <1>1, <1>2, <3>1
    <3> QED BY <1>0, <3>2, EmptyFacts DEF CallerInv, OutInv, hub
  <2>4. LiveInv(c)'
    BY <1>0, <1>2, <1>5 DEF CallerInv, LiveInv, During, ToldInv, NextInv, Coming, Matches, hub
  <2>5. MissedInv(c)'
    BY <1>0 DEF CallerInv, MissedInv, Matches, hub
  <2> QED BY <2>1, <2>2, <2>3, <2>4, <2>5 DEF CallerInv
<1>6. Len(chan'[c]) \in Nat /\ Len(chan'[c]) <= Len(chan[c])
  BY <1>0 DEF TypeOK
<1> QED BY <1>0, <1>3, <1>4, <1>5, <1>6, CallerStep

\* The head of the channel is the next event there is, but for those the channel dropped.
LEMMA TakeStep ==
    ASSUME Inv, NEW c \in Callers, cpc[c] \in {"wait", "drain"}, chan[c] # <<>>, Take(c),
           cpc' = [cpc EXCEPT ![c] = IF out'[c] # <<>> THEN "drain" ELSE "wait"] \/ UNCHANGED cpc,
           UNCHANGED <<hub, subs, closed, found, resync, asked, caller, dropped, restarts, lost>>
    PROVE  Inv'
<1> DEFINE n == Head(chan[c])
<1>0. /\ TypeOK /\ CallerInv(c)
      /\ chan' = [chan EXCEPT ![c] = Tail(@)]
      /\ IF n > last[c]
         THEN /\ last' = [last EXCEPT ![c] = n]
              /\ out' = IF Matches(n) THEN [out EXCEPT ![c] = Append(@, n)] ELSE out
         ELSE UNCHANGED <<last, out>>
      /\ UNCHANGED <<cursor, base, got, excused, stale>>
  BY DEF Inv, Take, caller
<1>1. /\ chan[c] \in Seq(Numbers) /\ out[c] \in Seq(Numbers) /\ last[c] \in Nat /\ asked[c] \in Nat /\ seq \in Nat
      /\ found[c] = <<>> /\ ~resync[c]
  BY <1>0, NumbersNat DEF TypeOK, CallerInv, CallInv
<1>2. /\ n \in Numbers /\ n \in Nat /\ Tail(chan[c]) \in Seq(Numbers) /\ Len(Tail(chan[c])) = Len(chan[c]) - 1
      /\ Len(chan[c]) \in Nat /\ Len(chan[c]) > 0
      /\ Elements(chan[c]) = {n} \cup Elements(Tail(chan[c]))
      /\ Rising(Tail(chan[c])) /\ \A m \in Elements(Tail(chan[c])) : m \in Nat /\ n < m
      /\ 0 < n /\ n <= seq
  <2>1. /\ n \in Numbers /\ Tail(chan[c]) \in Seq(Numbers) /\ Len(Tail(chan[c])) = Len(chan[c]) - 1
        /\ Len(chan[c]) \in Nat /\ Len(chan[c]) > 0 /\ Elements(chan[c]) = {n} \cup Elements(Tail(chan[c]))
    BY <1>1, TailFacts
  <2>2. Rising(Tail(chan[c])) /\ \A m \in Elements(Tail(chan[c])) : n < m
    BY <1>0, <1>1, SeqNat, TailRises DEF CallerInv, ChanInv
  <2>3. 0 < n /\ n <= seq
    BY <1>0, <2>1 DEF CallerInv, ChanInv
  <2> QED BY <2>1, <2>2, <2>3, NumbersNat, ElementsTyped
<1> HIDE DEF n
<1>3. /\ chan'[c] = Tail(chan[c])
      /\ last'[c] = IF n > last[c] THEN n ELSE last[c]
      /\ out'[c] = IF n > last[c] /\ Matches(n) THEN Append(out[c], n) ELSE out[c]
      /\ cpc'[c] \in {"wait", "drain"} /\ last'[c] \in Nat /\ last[c] <= last'[c]
  <2>1. chan'[c] = Tail(chan[c]) /\ cpc'[c] \in {"wait", "drain"}
    BY <1>0 DEF TypeOK
  <2>2. /\ last'[c] = IF n > last[c] THEN n ELSE last[c]
        /\ out'[c] = IF n > last[c] /\ Matches(n) THEN Append(out[c], n) ELSE out[c]
    BY <1>0 DEF TypeOK
  <2> QED BY <1>1, <1>2, <2>1, <2>2
<1>4. TypeOK'
  <2>1. out' \in [Callers -> Seq(Numbers)]
    <3>1. Append(out[c], n) \in Seq(Numbers)
      BY <1>1, <1>2, AppendFacts
    <3> QED BY <1>0, <3>1 DEF TypeOK
  <2>2. last' \in [Callers -> Numbers] /\ chan' \in [Callers -> Seq(Numbers)]
    BY <1>0, <1>2 DEF TypeOK
  <2>3. \A d \in Callers : Len(chan'[d]) <= BufLen
    <3>1. Len(chan[c]) <= BufLen /\ BufLen \in Nat
      BY <1>0, RoomAssumption DEF TypeOK
    <3>2. Len(chan'[c]) <= BufLen
      BY <1>2, <1>3, <3>1
    <3>3. \A d \in Callers : d # c => Len(chan'[d]) <= BufLen
      BY <1>0 DEF TypeOK
    <3> QED BY <3>2, <3>3
  <2>4. cpc' \in [Callers -> {"idle", "subscribe", "replay", "sift", "wait", "drain", "answer"}]
    BY <1>0 DEF TypeOK
  <2> QED BY <1>0, <2>1, <2>2, <2>3, <2>4 DEF TypeOK, hub
<1>5. \A d \in Callers : d # c => UNCHANGED View(d)
  BY <1>0 DEF View, TypeOK
<1>6. ASSUME Pending(c)' = Pending(c) PROVE CallerInv(c)'
  <2>1. ChanInv(c)'
    BY <1>0, <1>2, <1>3, <1>6 DEF CallerInv, ChanInv, hub
  <2>2. CallInv(c)'
    BY <1>0, <1>1, <1>2, <1>3 DEF CallerInv, CallInv, hub, During
  <2>3. OutInv(c)'
    <3>1. \A m \in Elements(out[c]) : m \in Nat /\ asked[c] < m /\ m <= last[c]
      BY <1>0, <1>1, NumbersNat, ElementsTyped DEF CallerInv, OutInv
    <3>2. CASE ~(n > last[c] /\ Matches(n))
      <4>1. \A m \in Elements(out[c]) : asked[c] < m /\ m <= last'[c]
        BY <1>1, <1>3, <3>1
      <4> QED BY <1>0, <1>1, <1>3, <3>2, <4>1, EmptyFacts DEF CallerInv, OutInv, hub
    <3>3. CASE n > last[c] /\ Matches(n)
      <4>0. last'[c] = n /\ out'[c] = Append(out[c], n) /\ asked[c] < n /\ \A m \in Elements(out[c]) : m < n
        <5>1. asked[c] <= last[c]
          BY <1>0 DEF CallerInv, CallInv
        <5> QED BY <1>1, <1>2, <1>3, <3>1, <3>3, <5>1
      <4>1. Elements(out'[c]) = Elements(out[c]) \cup {n}
        BY <1>1, <1>2, <4>0, AppendFacts
      <4>2. Rising(out'[c])
        BY <1>0, <1>1, <1>2, <4>0, SeqNat, AppendRises DEF CallerInv, OutInv
      <4>3. \A m \in Elements(out'[c]) : asked[c] < m /\ m <= last'[c]
        BY <1>1, <1>2, <3>1, <4>0, <4>1
      <4> QED BY <1>1, <4>2, <4>3, EmptyFacts DEF OutInv
    <3> QED BY <3>2, <3>3
  <2>4. LiveInv(c)'
    <3>0. SUFFICES ASSUME ~stale[c] PROVE ToldInv(c)' /\ NextInv(c)'
      BY <1>0 DEF LiveInv
    <3>1. ToldInv(c) /\ NextInv(c)
      BY <1>0, <1>1, <3>0 DEF CallerInv, LiveInv, During
    <3>2. Elements(out[c]) \subseteq Elements(out'[c]) /\ (n > last[c] /\ Matches(n) => n \in Elements(out'[c]))
      BY <1>1, <1>2, <1>3, AppendFacts
    <3>3. ASSUME NEW m \in 1 .. seq, Matches(m), asked[c] < m, m <= last'[c]
          PROVE  m \in Elements(out'[c]) \cup dropped[c]
      <4>1. CASE m <= last[c]
        BY <3>1, <3>2, <3>3, <4>1 DEF ToldInv
      <4>2. CASE ~(m <= last[c])
        <5>1. m <= n /\ last[c] < m /\ n > last[c]
          BY <1>1, <1>2, <1>3, <3>3, <4>2
        <5>2. CASE m = n
          BY <3>2, <3>3, <5>1, <5>2
        <5>3. CASE m < n
          <6>1. m \in Coming(c)
            BY <1>2, <3>1, <3>3, <5>1, <5>3 DEF NextInv
          <6>2. m \notin Elements(chan[c]) /\ m \notin Elements(found[c])
            BY <1>1, <1>2, <5>3, EmptyFacts
          <6> QED BY <6>1, <6>2 DEF Coming
        <5> QED BY <1>2, <5>1, <5>2, <5>3
      <4> QED BY <4>1, <4>2
    <3>4. ASSUME NEW m \in 1 .. seq, Matches(m), last'[c] < m
          PROVE  m # n /\ last[c] < m
      BY <1>1, <1>2, <1>3, <3>4
    <3>5. Elements(chan[c]) = {n} \cup Elements(chan'[c])
      BY <1>2, <1>3
    <3>6. \A m : m \in Coming(c) => m = n \/ m \in Coming(c)'
      BY <1>0, <3>5 DEF Coming
    <3>7. ToldInv(c)'
      BY <1>0, <3>3 DEF ToldInv, hub, Matches
    <3>8. NextInv(c)'
      BY <1>0, <1>6, <3>1, <3>4, <3>5, <3>6 DEF NextInv, hub, Matches
    <3> QED BY <3>7, <3>8
  <2>5. MissedInv(c)'
    BY <1>0 DEF CallerInv, MissedInv, Matches, hub
  <2> QED BY <2>1, <2>2, <2>3, <2>4, <2>5 DEF CallerInv
<1>7. Len(chan'[c]) \in Nat /\ Len(chan'[c]) <= Len(chan[c])
  BY <1>2, <1>3
<1> QED BY <1>0, <1>4, <1>5, <1>6, <1>7, CallerStep

\* The end of a wait.
LEMMA ToAnswer ==
    ASSUME Inv, NEW c \in Callers, cpc[c] \in {"wait", "drain"},
           cpc' = [cpc EXCEPT ![c] = "answer"],
           UNCHANGED <<hub, subs, closed, chan, found, last, out, resync, asked, caller, dropped, restarts, lost>>
    PROVE  Inv'
<1>0. /\ TypeOK /\ CallerInv(c) /\ cpc'[c] = "answer" /\ UNCHANGED <<cursor, base, got, excused, stale>>
  BY DEF Inv, TypeOK, caller
<1>1. TypeOK'
  BY <1>0 DEF TypeOK, hub
<1>2. \A d \in Callers : d # c => UNCHANGED View(d)
  BY <1>0 DEF View, TypeOK
<1>3. ASSUME Pending(c)' = Pending(c) PROVE CallerInv(c)'
  <2>1. ChanInv(c)'
    BY <1>0, <1>3 DEF CallerInv, ChanInv, hub
  <2>2. CallInv(c)'
    BY <1>0 DEF CallerInv, CallInv, hub, During
  <2>3. OutInv(c)'
    BY <1>0 DEF CallerInv, OutInv, hub
  <2>4. LiveInv(c)'
    BY <1>0, <1>3 DEF CallerInv, LiveInv, During, ToldInv, NextInv, Coming, Matches, hub
  <2>5. MissedInv(c)'
    BY <1>0 DEF CallerInv, MissedInv, Matches, hub
  <2> QED BY <2>1, <2>2, <2>3, <2>4, <2>5 DEF CallerInv
<1>4. Len(chan'[c]) \in Nat /\ Len(chan'[c]) <= Len(chan[c])
  BY <1>0 DEF TypeOK
<1> QED BY <1>0, <1>1, <1>2, <1>3, <1>4, CallerStep

\* The steps of a wait.
LEMMA WaitSteps ==
    ASSUME Inv, NEW c \in Callers, Receive(c) \/ Drain(c) \/ GiveUp(c) \/ Ended(c)
    PROVE  Inv'
<1>1. CASE Receive(c)
  BY <1>1, TakeStep DEF Receive
<1>2. CASE Drain(c)
  <2>1. CASE chan[c] = <<>>
    BY <1>2, <2>1, ToAnswer DEF Drain
  <2>2. CASE chan[c] # <<>>
    BY <1>2, <2>2, TakeStep DEF Drain
  <2> QED BY <2>1, <2>2
<1>3. CASE GiveUp(c)
  BY <1>3, ToAnswer DEF GiveUp
<1>4. CASE Ended(c)
  BY <1>4, ToAnswer DEF Ended
<1> QED BY <1>1, <1>2, <1>3, <1>4

\* A call leaves, with its answer told or lost.
LEMMA LeaveStep ==
    ASSUME Inv, NEW c \in Callers, ~Delivering, Leave(c), UNCHANGED <<hub, closed, restarts>>, TypeOK',
           \A d \in Callers : d # c => UNCHANGED <<cursor[d], base[d], got[d], excused[d], stale[d]>>,
           cursor'[c] = NoCursor => base'[c] = NoCursor /\ ~stale'[c],
           ~stale'[c] /\ cursor'[c] # NoCursor => cursor'[c] <= seq,
           MissedInv(c)'
    PROVE  Inv'
<1>0. TypeOK /\ UNCHANGED seq
  BY DEF Inv, hub
<1>1. /\ chan'[c] = <<>> /\ cpc'[c] = "idle" /\ last'[c] = 0 /\ found'[c] = <<>> /\ out'[c] = <<>>
      /\ resync'[c] = FALSE /\ asked'[c] = 0 /\ c \notin subs'
  BY <1>0 DEF Leave, TypeOK
<1>2. \A d \in Callers : d # c => UNCHANGED View(d) /\ (d \in subs' => d \in subs)
  BY <1>0 DEF View, TypeOK, Leave
<1>3. CallerInv(c)'
  <2>1. ChanInv(c)' /\ OutInv(c)'
    BY <1>1, EmptyFacts DEF ChanInv, OutInv
  <2>2. CallInv(c)'
    BY <1>0, <1>1, NumbersNat DEF CallInv, During, TypeOK
  <2>3. LiveInv(c)'
    BY <1>1 DEF LiveInv, During
  <2> QED BY <2>1, <2>2, <2>3 DEF CallerInv
<1>4. Len(chan'[c]) \in Nat /\ Len(chan'[c]) <= Len(chan[c])
  BY <1>0, <1>1, EmptyFacts DEF TypeOK
<1> QED BY <1>2, <1>3, <1>4, CallerStep

\* What a call that leaves has, by type.
LEMMA LeaveTyped ==
    ASSUME TypeOK, NEW c \in Callers, Leave(c)
    PROVE  /\ subs' \subseteq Callers
           /\ chan' \in [Callers -> Seq(Numbers)] /\ \A d \in Callers : Len(chan'[d]) <= BufLen
           /\ cpc' \in [Callers -> {"idle", "subscribe", "replay", "sift", "wait", "drain", "answer"}]
           /\ found' \in [Callers -> Seq(Numbers)] /\ last' \in [Callers -> Numbers]
           /\ out' \in [Callers -> Seq(Numbers)] /\ resync' \in [Callers -> BOOLEAN]
           /\ asked' \in [Callers -> Numbers] /\ dropped' \in [Callers -> SUBSET Numbers]
<1>1. 0 \in Numbers
  BY BoundsAssumption DEF Numbers
<1> QED BY <1>1, RoomAssumption, EmptyFacts DEF TypeOK, Leave

\* An answer adds what it tells, and what its channel dropped, to what the caller knows; without
\* resync it asked from the cursor the caller had.
LEMMA AnswerStep ==
    ASSUME Inv, NEW c \in Callers, Answer(c)
    PROVE  Inv'
<1>0. /\ TypeOK /\ CallerInv(c) /\ cpc[c] = "answer" /\ ~Delivering /\ Leave(c)
      /\ cursor' = [cursor EXCEPT ![c] = last[c]]
      /\ base' = [base EXCEPT ![c] = IF resync[c] \/ stale[c] THEN last[c]
                                     ELSE IF @ = NoCursor THEN asked[c] ELSE @]
      /\ got' = [got EXCEPT ![c] = @ \cup Elements(out[c])]
      /\ excused' = [excused EXCEPT ![c] = @ \cup {n \in dropped[c] : n <= last[c]}]
      /\ stale' = [stale EXCEPT ![c] = @ /\ last[c] > seq]
      /\ UNCHANGED <<hub, closed, restarts, lost>>
  BY DEF Inv, Answer
<1>1. /\ last[c] \in Numbers /\ last[c] \in Nat /\ asked[c] \in Numbers /\ asked[c] \in Nat /\ seq \in Nat
      /\ Elements(out[c]) \subseteq Numbers /\ base[c] \in Nat /\ last[c] # NoCursor /\ cursor[c] \in Nat
      /\ Elements(out[c]) \subseteq Nat
  <2>1. out[c] \in Seq(Numbers)
    BY <1>0 DEF TypeOK
  <2> QED BY <1>0, <2>1, NumbersNat, ElementsTyped DEF TypeOK
<1>2. TypeOK'
  <2>1. cursor' \in [Callers -> Numbers \cup {NoCursor}] /\ base' \in [Callers -> Numbers \cup {NoCursor}]
    BY <1>0, <1>1 DEF TypeOK
  <2>2. got' \in [Callers -> SUBSET Numbers]
    BY <1>0, <1>1 DEF TypeOK
  <2>3. excused' \in [Callers -> SUBSET Numbers]
    BY <1>0 DEF TypeOK
  <2>4. stale' \in [Callers -> BOOLEAN]
    <3>1. (stale[c] /\ last[c] > seq) \in BOOLEAN
      OBVIOUS
    <3> QED BY <1>0, <3>1 DEF TypeOK
  <2> QED BY <1>0, <2>1, <2>2, <2>3, <2>4, LeaveTyped DEF TypeOK, hub
<1>3. /\ cursor'[c] = last[c] /\ got'[c] = got[c] \cup Elements(out[c])
      /\ excused'[c] = excused[c] \cup {n \in dropped[c] : n <= last[c]}
      /\ base'[c] = IF resync[c] \/ stale[c] THEN last[c] ELSE IF base[c] = NoCursor THEN asked[c] ELSE base[c]
      /\ stale'[c] <=> stale[c] /\ last[c] > seq
  BY <1>0 DEF TypeOK
<1>4. \A d \in Callers : d # c => UNCHANGED <<cursor[d], base[d], got[d], excused[d], stale[d]>>
  BY <1>0 DEF TypeOK
<1>5. ~stale'[c] /\ cursor'[c] # NoCursor => cursor'[c] <= seq
  BY <1>0, <1>1, <1>3 DEF CallerInv, CallInv
<1>6. MissedInv(c)'
  <2>0. SUFFICES ASSUME ~stale'[c], NEW n \in 1 .. seq, base'[c] < n, n <= last[c], Matches(n)
                 PROVE  n \in got'[c] \cup excused'[c]
    BY <1>0, <1>3 DEF MissedInv, Matches, hub
  <2>1. ~resync[c] /\ ~stale[c]
    BY <1>1, <1>3, <2>0
  <2>2. CASE asked[c] < n
    <3>1. n \in Elements(out[c]) \cup dropped[c]
      BY <1>0, <2>0, <2>1, <2>2 DEF CallerInv, LiveInv, ToldInv, During
    <3> QED BY <1>3, <2>0, <3>1
  <2>3. CASE ~(asked[c] < n)
    <3>1. base[c] # NoCursor /\ base[c] < n
      BY <1>1, <1>3, <2>0, <2>1, <2>3
    <3>2. cursor[c] # NoCursor /\ asked[c] = cursor[c]
      BY <1>0, <3>1 DEF CallerInv, CallInv
    <3>3. n \in got[c] \cup excused[c]
      BY <1>0, <1>1, <2>0, <2>1, <2>3, <3>1, <3>2 DEF CallerInv, MissedInv
    <3> QED BY <1>3, <3>3
  <2> QED BY <2>2, <2>3
<1> QED BY <1>0, <1>1, <1>2, <1>3, <1>4, <1>5, <1>6, LeaveStep

\* A lost answer leaves the caller as it was before the call.
LEMMA LoseAnswerStep ==
    ASSUME Inv, NEW c \in Callers, LoseAnswer(c)
    PROVE  Inv'
<1>0. /\ TypeOK /\ CallerInv(c) /\ ~Delivering /\ Leave(c) /\ lost < MaxLost /\ lost' = lost + 1
      /\ UNCHANGED <<hub, closed, restarts, cursor, base, got, excused, stale>>
  BY DEF Inv, LoseAnswer, caller
<1>1. TypeOK'
  <2>1. lost' \in 0 .. MaxLost
    BY <1>0, BoundsAssumption DEF TypeOK
  <2> QED BY <1>0, <2>1, LeaveTyped DEF TypeOK, hub
<1>2. MissedInv(c)'
  BY <1>0 DEF CallerInv, MissedInv, Matches, hub
<1> QED BY <1>0, <1>1, <1>2, LeaveStep DEF CallerInv, CallInv

-----------------------------------------------------------------------------
(* The process *)

\* A closed hub owes its subscribers nothing more.
LEMMA CloseStep ==
    ASSUME Inv, Close
    PROVE  Inv'
<1>0. /\ TypeOK /\ WriterInv /\ RingInv /\ ~Delivering /\ closed' = TRUE /\ subs' = {}
      /\ UNCHANGED <<seq, ring, log, pubMu, wpc, to, left, chan, dropped, restarts, lost>>
      /\ UNCHANGED <<cpc, found, last, out, resync, asked, cursor, base, got, excused, stale>>
  BY DEF Inv, Close, hub, call, caller
<1>1. TypeOK'
  BY <1>0 DEF TypeOK
<1>2. WriterInv' /\ RingInv' /\ \A d \in Callers : Pending(d)' <=> Pending(d)
  BY <1>0, SameWriters DEF TypeOK, hub
<1>3. ASSUME NEW d \in Callers PROVE CallerInv(d)'
  BY <1>0, <1>2, SameCaller DEF Inv, View
<1> QED BY <1>1, <1>2, <1>3 DEF Inv

\* The invariant holds when the process starts.
LEMMA InitInv == Init => Inv
<1> SUFFICES ASSUME Init PROVE Inv
  OBVIOUS
<1>0. /\ 0 \in Numbers /\ RingLen \in Nat /\ BufLen \in Nat /\ MaxRestarts \in Nat /\ MaxLost \in Nat
      /\ <<>> \in Seq(Numbers) /\ <<>> \in Seq(Kinds) /\ Len(<<>>) = 0
  BY BoundsAssumption, RoomAssumption, EmptyFacts DEF Numbers
<1>1. TypeOK
  <2>1. /\ seq \in Numbers /\ ring \in Seq(Numbers) /\ Len(ring) <= RingLen
        /\ log \in Seq(Kinds) /\ Len(log) = seq /\ restarts \in 0 .. MaxRestarts /\ lost \in 0 .. MaxLost
    BY <1>0 DEF Init
  <2>2. /\ chan \in [Callers -> Seq(Numbers)] /\ found \in [Callers -> Seq(Numbers)]
        /\ out \in [Callers -> Seq(Numbers)] /\ \A c \in Callers : Len(chan[c]) <= BufLen
    BY <1>0 DEF Init
  <2>3. /\ last \in [Callers -> Numbers] /\ asked \in [Callers -> Numbers]
        /\ cursor \in [Callers -> Numbers \cup {NoCursor}] /\ base \in [Callers -> Numbers \cup {NoCursor}]
    BY <1>0 DEF Init
  <2> QED BY <2>1, <2>2, <2>3 DEF Init, TypeOK
<1>2. WriterInv /\ RingInv
  <2>1. \A w \in Writers : w # None /\ wpc[w] = "idle" /\ left[w] = {}
    BY NoneAssumption DEF Init
  <2>2. Top = 0
    BY <2>1 DEF Top, Init
  <2> QED BY <1>0, <2>1, <2>2 DEF Init, WriterInv, RingInv
<1>3. ASSUME NEW c \in Callers PROVE CallerInv(c)
  BY EmptyFacts DEF Init, CallerInv, ChanInv, CallInv, OutInv, LiveInv, MissedInv, During
<1> QED BY <1>1, <1>2, <1>3 DEF Inv

\* A new process: nothing is left but the cursors.
LEMMA RestartStep ==
    ASSUME Inv, Restart
    PROVE  Inv'
<1>0. /\ TypeOK /\ 0 \in Numbers /\ RingLen \in Nat /\ BufLen \in Nat
      /\ <<>> \in Seq(Numbers) /\ <<>> \in Seq(Kinds) /\ Len(<<>>) = 0
  BY BoundsAssumption, RoomAssumption, EmptyFacts DEF Inv, Numbers
<1>1. TypeOK'
  <2>1. /\ seq' \in Numbers /\ ring' \in Seq(Numbers) /\ Len(ring') <= RingLen
        /\ log' \in Seq(Kinds) /\ Len(log') = seq' /\ restarts' \in 0 .. MaxRestarts
    BY <1>0, BoundsAssumption DEF Restart, TypeOK
  <2>2. /\ chan' \in [Callers -> Seq(Numbers)] /\ found' \in [Callers -> Seq(Numbers)]
        /\ out' \in [Callers -> Seq(Numbers)] /\ \A c \in Callers : Len(chan'[c]) <= BufLen
    BY <1>0 DEF Restart
  <2>3. /\ last' \in [Callers -> Numbers] /\ asked' \in [Callers -> Numbers]
        /\ stale' \in [Callers -> BOOLEAN]
    BY <1>0 DEF Restart
  <2> QED BY <1>0, <2>1, <2>2, <2>3 DEF Restart, TypeOK
<1>2. WriterInv' /\ RingInv'
  <2>1. \A w \in Writers : w # None /\ wpc'[w] = "idle" /\ left'[w] = {}
    BY NoneAssumption DEF Restart
  <2>2. Top' = 0
    BY <2>1 DEF Top, Restart
  <2> QED BY <1>0, <2>1, <2>2 DEF Restart, WriterInv, RingInv
<1>3. ASSUME NEW c \in Callers PROVE CallerInv(c)'
  <2>1. /\ chan'[c] = <<>> /\ cpc'[c] = "idle" /\ found'[c] = <<>> /\ out'[c] = <<>> /\ last'[c] = 0
        /\ asked'[c] = 0 /\ resync'[c] = FALSE /\ c \notin subs' /\ seq' = 0
        /\ (stale'[c] <=> cursor[c] # NoCursor) /\ UNCHANGED <<cursor, base>>
    BY DEF Restart
  <2>2. cursor[c] = NoCursor => base[c] = NoCursor
    BY DEF Inv, CallerInv, CallInv
  <2> QED BY <2>1, <2>2, EmptyFacts DEF CallerInv, ChanInv, CallInv, OutInv, LiveInv, MissedInv, During
<1> QED BY <1>1, <1>2, <1>3 DEF Inv

-----------------------------------------------------------------------------
(* The theorems *)

\* The invariant holds throughout.
LEMMA Invariance == Spec => []Inv
<1>1. ASSUME Inv, Next PROVE Inv'
  BY <1>1, NumberStep, KeepStep, OpenStep, DeliverStep, EvictStep, AgainStep, PublishedStep,
     CallStep, SubscribeStep, ReplayStep, SiftStep, SiftedStep, WaitSteps, AnswerStep,
     LoseAnswerStep, CloseStep, RestartStep DEF Next
<1>2. ASSUME Inv, UNCHANGED vars PROVE Inv'
  <2>0. /\ UNCHANGED <<hub, seq, log, closed, subs, chan, dropped, restarts, lost>>
        /\ UNCHANGED <<cpc, found, last, out, resync, asked, cursor, base, got, excused, stale>>
    BY <1>2 DEF vars, hub, call, caller
  <2>1. TypeOK'
    BY <1>2, <2>0 DEF Inv, TypeOK, hub
  <2>2. WriterInv' /\ RingInv' /\ \A d \in Callers : Pending(d)' <=> Pending(d)
    BY <1>2, <2>0, SameWriters DEF Inv, TypeOK
  <2>3. ASSUME NEW d \in Callers PROVE CallerInv(d)'
    BY <1>2, <2>0, <2>2, SameCaller DEF Inv, View
  <2> QED BY <2>1, <2>2, <2>3 DEF Inv
<1> QED BY <1>1, <1>2, InitInv, PTL DEF Spec

\* TypeOK: the ring and the channels stay within their room, however publishes, calls, lost
\* answers and restarts mix (Hub.Publish).
THEOREM EventsTyped == Spec => []TypeOK
<1>1. Inv => TypeOK
  BY DEF Inv
<1> QED BY <1>1, Invariance, PTL

\* MissedNothing: a caller that got a cursor was told of every change up to it, but those its
\* full channel dropped: no change falls between the replay and the channel, nor between one
\* call and the next (handleWaitChanges, BUG-112).
THEOREM NothingIsMissed == Spec => []MissedNothing
<1>1. Inv => MissedNothing
  BY DEF Inv, CallerInv, MissedInv, MissedNothing
<1> QED BY <1>1, Invariance, PTL

\* InOrderOnce: an answer tells of changes in their order, each once, between the cursor it was
\* asked from and the one it gives.
THEOREM ToldInOrderOnce == Spec => []InOrderOnce
<1>1. ASSUME Inv PROVE InOrderOnce
  <2> SUFFICES ASSUME NEW c \in Callers
               PROVE  /\ \A i, j \in 1 .. Len(out[c]) : i < j => out[c][i] < out[c][j]
                      /\ \A i \in 1 .. Len(out[c]) : asked[c] < out[c][i] /\ out[c][i] <= last[c]
    BY DEF InOrderOnce
  <2>1. Rising(out[c]) /\ \A m \in Elements(out[c]) : asked[c] < m /\ m <= last[c]
    BY <1>1 DEF Inv, CallerInv, OutInv
  <2> QED BY <2>1 DEF Rising, Elements
<1> QED BY <1>1, Invariance, PTL

=============================================================================
