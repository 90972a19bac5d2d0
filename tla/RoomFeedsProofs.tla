-------------------------- MODULE RoomFeedsProofs --------------------------
(***************************************************************************)
(* For any number of Agents, rings of any size and any number of uploads   *)
(* and frames on their way: the room and its runtimes implement EventLog,  *)
(* nobody waits for an event the room has, and an event has one turn.      *)
(*                                                                         *)
(* The refinement holds until a stale record is saved, which ends the      *)
(* promise.  Its invariant says of every frame, wherever it is, from which *)
(* cursor on it tells everything: the frames of a socket only do so        *)
(* together with those in front of them, down to what the runtime has      *)
(* received or is applying.                                                *)
(***************************************************************************)
EXTENDS AgentEventStream, LiveTranscriptLog, SequenceTheorems, NumberLemmas

-----------------------------------------------------------------------------
(* What the invariant says *)

\* The events of Agent a after c, up to n.
News(h, a, c, n) == {s \in 1..n : s > c /\ a \in h[s]}

\* f tells Agent a of its own events only, and of all of them after c.
Tells(h, a, f, c) ==
    /\ f.cursor <= Len(h)
    /\ f.events \subseteq News(h, a, 0, f.cursor)
    /\ f.gone \subseteq 1..f.cursor
    /\ News(h, a, c, f.cursor) \subseteq f.events \cup f.gone

\* The record has the events that its floor promises: only staged briefs, which
\* nobody reads, leave the end of a ring.
RecordOk(r, h) ==
    /\ r.next = Len(h)
    /\ \A e \in Retained(r) : e.seq \in 1..Len(h) /\ e.readers = h[e.seq]
    /\ \A s \in 1..Len(h) : h[s] # {} => \E e \in Retained(r) : ~e.brief /\ e.seq >= s

UploadOk(u, h) ==
    /\ u.kind = "brief" => u.readers = {} /\ Len(u.loaded.attachments) < MaxAttachments
    /\ u.loaded.next = Len(u.known)
    /\ Len(u.known) <= Len(h)
    /\ \A s \in 1..Len(u.known) : u.known[s] = h[s]

\* What the runtime has behind it, or will when it ends its frame.
Base(a) ==
    IF reader[a] # None /\ reader[a].frame.cursor > cursor[a]
    THEN reader[a].frame.cursor ELSE cursor[a]

Carried(w, k) == UNION {w[j].events \cup w[j].gone : j \in 1..k}

WireOk(h, a, b, s) ==
    /\ s.cursor <= Len(h)
    /\ News(h, a, b, s.cursor) \subseteq Carried(s.wire, Len(s.wire))
    /\ \A k \in 1..Len(s.wire) :
          /\ Tells(h, a, s.wire[k], s.wire[k].cursor)
          /\ News(h, a, b, s.wire[k].cursor) \subseteq Carried(s.wire, k)

StreamOk(h, a, b, s) == WireOk(h, a, b, s) /\ News(h, a, s.cursor, Len(h)) = {}

HeldOk(h, a, c, x) == x <= c /\ News(h, a, x, Len(h)) = {}

ApplyingOk(h, a, c, x) == x.through <= c /\ Tells(h, a, x.frame, x.through)

RuntimeOk(a) ==
    /\ cursor[a] <= Len(history) /\ delivered[a] <= cursor[a]
    /\ Settled[a] = News(history, a, 0, cursor[a])
    /\ reader[a] # None => ApplyingOk(history, a, cursor[a], reader[a])
    /\ late[a] # None => ApplyingOk(history, a, cursor[a], late[a])

Follows(a) ==
    /\ RuntimeOk(a)
    /\ reply[a] # None => Tells(history, a, reply[a], cursor[a])
    /\ held[a] # None => HeldOk(history, a, cursor[a], held[a])
    /\ sock[a] # None => StreamOk(history, a, Base(a), sock[a])

Promise ==
    /\ RecordOk(room, history)
    /\ \A u \in uploads : UploadOk(u, history)
    /\ \A a \in Agents : Follows(a)

\* Every trigger waits once, and has had its turn only if it is marked or passed.
Once(a) ==
    /\ \A i, j \in 1..Len(pending[a]) : pending[a][i] = pending[a][j] => i = j
    /\ ahead[a] \subseteq Range(pending[a])
    /\ \A s \in ahead[a] : answered[a][s] > 0
    /\ \A s \in Sequences1 :
          /\ answered[a][s] <= 1
          /\ answered[a][s] > 0 =>
                s \in ahead[a] \/ (s <= delivered[a] /\ s \notin Range(pending[a]))

IInv == TypeOK /\ (\A a \in Agents : Once(a)) /\ (overwritten \/ Promise)
-----------------------------------------------------------------------------
(* Sequences *)

LEMMA WiderSequences ==
    ASSUME NEW S, NEW T, S \subseteq T, NEW s \in Seq(S)
    PROVE  s \in Seq(T)
<1>1. Len(s) \in Nat /\ s \in [1..Len(s) -> S]
  OBVIOUS
<1>2. s \in [1..Len(s) -> T]
  BY <1>1
<1>3. QED
  BY <1>1, <1>2

\* The entry at i is gone, the others stay.
LEMMA WithoutOne ==
    ASSUME NEW S, NEW s \in Seq(S), NEW i \in 1..Len(s)
    PROVE  LET t == SubSeq(s, 1, i - 1) \o SubSeq(s, i + 1, Len(s))
           IN  /\ t \in Seq(S)
               /\ Range(t) \subseteq Range(s)
               /\ \A j \in 1..Len(s) : j # i => s[j] \in Range(t)
<1> DEFINE u == SubSeq(s, 1, i - 1)
           v == SubSeq(s, i + 1, Len(s))
<1>1. /\ Len(s) \in Nat /\ i \in 1..Len(s) /\ i - 1 \in Nat
      /\ \A j \in 1..Len(s) : s[j] \in S
  OBVIOUS
<1>2. u \in Seq(S) /\ Len(u) = i - 1 /\ \A j \in 1..(i - 1) : u[j] = s[j]
  BY <1>1
<1>3. v \in Seq(S) /\ Len(v) = Len(s) - i /\ \A j \in 1..(Len(s) - i) : v[j] = s[i + j]
  BY <1>1
<1>4. Range(u \o v) = Range(u) \cup Range(v) /\ u \o v \in Seq(S)
  <2> HIDE DEF u, v
  <2>1. u \in Seq(S) /\ v \in Seq(S)
    BY <1>2, <1>3
  <2>2. u \o v \in Seq(S)
    BY <2>1
  <2>3. Range(u \o v) = Range(u) \cup Range(v)
    BY <2>1, RangeConcatenation
  <2>4. QED
    BY <2>2, <2>3
<1>5. Range(u) = {u[j] : j \in 1..Len(u)} /\ Range(v) = {v[j] : j \in 1..Len(v)}
      /\ Range(s) = {s[j] : j \in 1..Len(s)}
  BY <1>2, <1>3, RangeEquality
<1> HIDE DEF u, v
<1>6. Range(u) \subseteq Range(s) /\ Range(v) \subseteq Range(s)
  <2>1. \A j \in 1..(Len(s) - i) : i + j \in 1..Len(s)
    BY <1>1
  <2>2. QED
    BY <1>1, <1>2, <1>3, <1>5, <2>1
<1>7. \A j \in 1..Len(s) : j # i => s[j] \in Range(u) \cup Range(v)
  <2> SUFFICES ASSUME NEW j \in 1..Len(s), j # i PROVE s[j] \in Range(u) \cup Range(v)
    OBVIOUS
  <2>1. CASE j < i
    <3>1. j \in 1..(i - 1)
      BY <1>1, <2>1
    <3>2. QED
      BY <1>2, <1>5, <3>1
  <2>2. CASE j > i
    <3>1. j - i \in 1..(Len(s) - i) /\ i + (j - i) = j
      BY <1>1, <2>2
    <3>2. v[j - i] = s[j]
      BY <1>3, <3>1
    <3>3. QED
      BY <1>3, <1>5, <3>1, <3>2
  <2>3. QED
    BY <1>1, <2>1, <2>2
<1>8. QED
  BY <1>4, <1>6, <1>7 DEF u, v

\* The newest n entries of a ring.
LEMMA Newest ==
    ASSUME NEW S, NEW s \in Seq(S), NEW n \in 0..Len(s)
    PROVE  LET t == SubSeq(s, Len(s) - n + 1, Len(s))
           IN  /\ t \in Seq(S) /\ Len(t) = n
               /\ Range(t) \subseteq Range(s)
               /\ n > 0 => s[Len(s)] \in Range(t)
               /\ n = Len(s) => t = s
<1> DEFINE t == SubSeq(s, Len(s) - n + 1, Len(s))
<1>1. /\ Len(s) \in Nat /\ n \in Nat /\ n <= Len(s)
      /\ \A j \in 1..Len(s) : s[j] \in S
  OBVIOUS
<1>2. t \in Seq(S) /\ Len(t) = n /\ \A j \in 1..n : t[j] = s[Len(s) - n + j]
  BY <1>1
<1>3. Range(t) = {t[j] : j \in 1..n} /\ Range(s) = {s[j] : j \in 1..Len(s)}
  BY <1>2, RangeEquality
<1>4. n = Len(s) => t = s
  <2>1. n = Len(s) => \A j \in 1..n : t[j] = s[j]
    BY <1>1, <1>2
  <2>2. QED
    BY <1>1, <1>2, <2>1, SeqEqual
<1> HIDE DEF t
<1>5. \A j \in 1..n : Len(s) - n + j \in 1..Len(s)
  BY <1>1
<1>6. Range(t) \subseteq Range(s)
  BY <1>2, <1>3, <1>5
<1>7. n > 0 => t[n] = s[Len(s)] /\ n \in 1..n
  BY <1>1, <1>2
<1>8. n > 0 => s[Len(s)] \in Range(t)
  BY <1>3, <1>7
<1>9. QED
  BY <1>2, <1>4, <1>6, <1>8 DEF t

\* The numbers of a set in their order, each once.
LEMMA Ordered ==
    ASSUME NEW n \in Nat, NEW S \in SUBSET (1..n)
    PROVE  /\ InOrder(S) \in Seq(S) /\ Len(InOrder(S)) = Cardinality(S)
           /\ Range(InOrder(S)) = S
           /\ \A i, j \in 1..Len(InOrder(S)) : InOrder(S)[i] = InOrder(S)[j] => i = j
<1> DEFINE m == Cardinality(S)
           At(i) == CHOOSE s \in S : Cardinality({t \in S : t < s}) = i - 1
           q == [i \in 1..m |-> At(i)]
<1>1. IsFiniteSet(S)
  <2>1. IsFiniteSet(1..n)
    BY FS_Interval
  <2>2. QED
    BY <2>1, FS_Subset
<1>4. /\ m \in Nat
      /\ \A x \in S : Cardinality({t \in S : t < x}) \in 0..(m - 1)
      /\ \A x, y \in S :
            Cardinality({t \in S : t < x}) = Cardinality({t \in S : t < y}) => x = y
      /\ \A k \in 0..(m - 1) : \E x \in S : Cardinality({t \in S : t < x}) = k
  <2>1. RankedByRank(S)
    BY <1>1, NumberRanks
  <2>2. QED
    BY <2>1 DEF RankedByRank, Rank
<1>5. \A i \in 1..m : At(i) \in S /\ Cardinality({t \in S : t < At(i)}) = i - 1
  <2> SUFFICES ASSUME NEW i \in 1..m
               PROVE  At(i) \in S /\ Cardinality({t \in S : t < At(i)}) = i - 1
    OBVIOUS
  <2>1. i - 1 \in 0..(m - 1)
    BY <1>4
  <2>2. \E s \in S : Cardinality({t \in S : t < s}) = i - 1
    BY <1>4, <2>1
  <2>3. QED
    BY <2>2
<1>6. InOrder(S) = q
  BY DEF InOrder
<1> HIDE DEF At
<1>7. q \in [1..m -> S] /\ DOMAIN q = 1..m
  BY <1>5
<1>8. q \in Seq(S) /\ Len(q) = m
  BY <1>4, <1>7
<1>9. \A i, j \in 1..m : q[i] = q[j] => i = j
  <2> SUFFICES ASSUME NEW i \in 1..m, NEW j \in 1..m, At(i) = At(j) PROVE i = j
    BY <1>4
  <2>1. i - 1 = j - 1
    BY <1>5
  <2>2. QED
    BY <2>1, <1>4
<1>10. \A x \in S : \E i \in 1..m : q[i] = x
  <2> SUFFICES ASSUME NEW x \in S PROVE \E i \in 1..m : At(i) = x
    OBVIOUS
  <2> DEFINE c == Cardinality({t \in S : t < x})
  <2>1. c \in 0..(m - 1)
    BY <1>4
  <2>2. c + 1 \in 1..m /\ (c + 1) - 1 = c
    BY <1>4, <2>1
  <2>3. At(c + 1) \in S /\ Cardinality({t \in S : t < At(c + 1)}) = c
    BY <1>5, <2>2
  <2>4. At(c + 1) = x
    BY <1>4, <2>3
  <2>5. QED
    BY <2>2, <2>4
<1>11. Range(q) = S
  BY <1>7, <1>10 DEF Range
<1>12. QED
  BY <1>6, <1>8, <1>9, <1>11

-----------------------------------------------------------------------------
(* Frames *)

\* From the floor on no retained sequence is missing.
LEMMA FloorFacts ==
    ASSUME NEW n \in Nat, NEW S \in SUBSET (1..n), S # {}
    PROVE  /\ Floor(S) \in S
           /\ \E top \in S : /\ \A s \in S : s <= top
                             /\ \A s \in Nat : Floor(S) <= s /\ s <= top => s \in S
<1> DEFINE newest == CHOOSE m \in S : \A s \in S : s <= m
           Run == {f \in S : f..newest \subseteq S}
<1>1. newest \in S /\ \A s \in S : s <= newest
  <2>1. \E m \in S : \A s \in S : s <= m
    BY Greatest
  <2>2. QED
    BY <2>1
<1>2. Floor(S) = CHOOSE f \in S : f..newest \subseteq S /\ f - 1 \notin S
  BY DEF Floor
<1> HIDE DEF newest
<1>3. newest \in Run
  <2>1. newest \in 1..n
    BY <1>1
  <2>2. newest..newest \subseteq S
    BY <1>1, <2>1
  <2>3. QED
    BY <1>1, <2>2
<1>4. PICK f \in Run : \A g \in Run : f <= g
  <2>1. Run \in SUBSET Nat
    <3>1. Run \subseteq S /\ S \subseteq Nat
      OBVIOUS
    <3>2. QED
      BY <3>1
  <2>2. QED
    BY <1>3, <2>1, Smallest
<1>5. f \in S /\ f..newest \subseteq S /\ f \in 1..n
  BY <1>4
<1>6. f - 1 \notin S
  <2>1. SUFFICES ASSUME f - 1 \in S PROVE FALSE
    OBVIOUS
  <2>2. \A s \in (f - 1)..newest : s = f - 1 \/ s \in f..newest
    BY <1>1, <1>5
  <2>3. f - 1 \in Run
    BY <1>5, <2>1, <2>2
  <2>4. QED
    BY <1>4, <1>5, <2>3
<1>7. Floor(S) \in S /\ Floor(S)..newest \subseteq S
  BY <1>2, <1>5, <1>6
<1>8. \A s \in Nat : Floor(S) <= s /\ s <= newest => s \in S
  BY <1>1, <1>7
<1>9. QED
  BY <1>1, <1>7, <1>8

LEMMA RecordTypes ==
    ASSUME NEW r \in Records
    PROVE  /\ r.next \in 0..MaxEntries /\ r.next \in Nat
           /\ r.messages \in Seq(Entries) /\ r.attachments \in Seq(Entries)
           /\ Len(r.messages) \in Nat /\ Len(r.attachments) \in Nat
           /\ Range(r.messages) \subseteq Entries /\ Range(r.attachments) \subseteq Entries
           /\ Retained(r) \subseteq Entries
           /\ \A e \in Retained(r) : e.seq \in Sequences1 /\ e.readers \subseteq Agents
           /\ SeqsOf(Retained(r)) \subseteq Sequences1
<1>1. r.messages \in Seq(Entries) /\ r.attachments \in Seq(Entries) /\ r.next \in 0..MaxEntries
  BY DEF Records
<1>2. Range(r.messages) \subseteq Entries /\ Range(r.attachments) \subseteq Entries
  BY <1>1, RangeOfSeq
<1>3. Retained(r) \subseteq Entries
  BY <1>2 DEF Retained
<1>4. \A e \in Retained(r) : e.seq \in Sequences1 /\ e.readers \subseteq Agents
  BY <1>3 DEF Entries
<1>5. MaxEntries \in Nat
  BY Bounds
<1>6. QED
  BY <1>1, <1>2, <1>3, <1>4, <1>5 DEF SeqsOf

LEMMA FrameTypes ==
    ASSUME NEW r \in Records, NEW a \in Agents, NEW c \in 0..MaxEntries
    PROVE  FrameFor(r, a, c) \in Frames
<1> DEFINE S == SeqsOf(Retained(r))
           floor == Floor(S)
           from == Lower(c, r.next)
           after == IF floor > 0 /\ from < floor - 1 THEN floor - 1 ELSE from
           f == FrameFor(r, a, c)
<1>1. MaxEntries \in Nat /\ r.next \in 0..MaxEntries /\ S \subseteq Sequences1
  BY Bounds, RecordTypes
<1>2. floor \in 0..MaxEntries
  <2>1. CASE S = {}
    BY <1>1, <2>1 DEF Floor
  <2>2. CASE S # {}
    <3>1. S \in SUBSET (1..MaxEntries)
      BY <1>1 DEF Sequences1
    <3>2. Floor(S) \in S
      <4> HIDE DEF S
      <4>1. QED
        BY <1>1, <2>2, <3>1, FloorFacts
    <3>3. QED
      BY <1>1, <3>1, <3>2
  <2>3. QED
    BY <2>1, <2>2
<1>3. from \in 0..MaxEntries
  BY <1>1 DEF Lower
<1>4. f = [events |-> SeqsOf({e \in Retained(r) : e.seq > after /\ a \in e.readers}),
           cursor |-> r.next, gone |-> from + 1 .. after]
  BY DEF FrameFor
<1> HIDE DEF floor, from, S, f
<1>5. after \in 0..MaxEntries
  BY <1>1, <1>2, <1>3
<1>6. from + 1 .. after \subseteq Sequences1
  <2> HIDE DEF after
  <2>1. QED
    BY <1>1, <1>3, <1>5 DEF Sequences1
<1> HIDE DEF after
<1>7. SeqsOf({e \in Retained(r) : e.seq > after /\ a \in e.readers}) \subseteq Sequences1
  BY RecordTypes DEF SeqsOf
<1>8. f \in Frames
  BY <1>1, <1>4, <1>6, <1>7 DEF Frames
<1>9. QED
  BY <1>8 DEF f

\* A frame from c on tells everything after c, and is empty only when there is
\* nothing to tell.
LEMMA FrameTells ==
    ASSUME NEW r \in Records, NEW h \in Seq(SUBSET Agents), RecordOk(r, h),
           NEW a \in Agents, NEW c \in 0..Len(h)
    PROVE  /\ FrameFor(r, a, c).cursor = Len(h)
           /\ Tells(h, a, FrameFor(r, a, c), c)
           /\ ~HasNews(FrameFor(r, a, c)) => News(h, a, c, Len(h)) = {}
<1> DEFINE S == SeqsOf(Retained(r))
           floor == Floor(S)
           after == IF floor > 0 /\ c < floor - 1 THEN floor - 1 ELSE c
           f == FrameFor(r, a, c)
<1>1. r.next = Len(h) /\ Len(h) \in Nat /\ c \in Nat /\ c <= Len(h)
  BY DEF RecordOk
<1>2. Lower(c, r.next) = c
  BY <1>1 DEF Lower
<1>3. /\ f.events = SeqsOf({e \in Retained(r) : e.seq > after /\ a \in e.readers})
      /\ f.cursor = r.next /\ f.gone = c + 1 .. after
  BY <1>2 DEF FrameFor
<1>4. S \in SUBSET (1..Len(h))
  BY <1>1 DEF RecordOk, SeqsOf
<1>5. \A s \in S : \E e \in Retained(r) : e.seq = s /\ e.readers = h[s]
  BY DEF RecordOk, SeqsOf
<1>6. \A s \in 1..Len(h) : a \in h[s] => \E t \in S : t >= s
  BY DEF RecordOk, SeqsOf
<1>7. floor \in Nat /\ floor <= Len(h)
  <2>1. CASE S = {}
    BY <1>1, <2>1 DEF Floor
  <2>2. CASE S # {}
    <3>1. Floor(S) \in S
      <4> HIDE DEF S
      <4>1. QED
        BY <1>1, <1>4, <2>2, FloorFacts
    <3>2. QED
      BY <1>4, <3>1
  <2>3. QED
    BY <2>1, <2>2
<1>8. \A s \in 1..Len(h) : (a \in h[s] /\ s >= floor) => s \in S
  <2> SUFFICES ASSUME NEW s \in 1..Len(h), a \in h[s], s >= floor PROVE s \in S
    OBVIOUS
  <2>1. PICK t \in S : t >= s
    BY <1>6
  <2> HIDE DEF S
  <2>2. PICK top \in S : /\ \A k \in S : k <= top
                         /\ \A k \in Nat : floor <= k /\ k <= top => k \in S
    BY <1>1, <1>4, <2>1, FloorFacts
  <2>3. t <= top /\ t \in Nat /\ top \in Nat /\ s \in Nat
    BY <1>1, <1>4, <2>1, <2>2
  <2>4. QED
    BY <2>1, <2>2, <2>3
<1> HIDE DEF floor, S, f
<1>9. after \in Nat /\ after <= Len(h) /\ c <= after /\ \A s \in Nat : s > after => s >= floor
  BY <1>1, <1>7
<1> HIDE DEF after
<1>10. f.events \subseteq News(h, a, 0, Len(h))
  <2>1. \A s \in f.events : \E e \in Retained(r) : e.seq = s /\ a \in e.readers
    BY <1>3 DEF SeqsOf
  <2>2. QED
    BY <1>1, <2>1 DEF RecordOk, News
<1>11. f.gone \subseteq 1..Len(h)
  BY <1>1, <1>3, <1>9
<1>12. News(h, a, c, Len(h)) \subseteq f.events \cup f.gone
  <2> SUFFICES ASSUME NEW s \in 1..Len(h), s > c, a \in h[s] PROVE s \in f.events \cup f.gone
    BY DEF News
  <2>1. CASE s <= after
    BY <1>1, <1>3, <1>9, <2>1
  <2>2. CASE s > after
    <3>1. s \in S
      BY <1>1, <1>8, <1>9, <2>2
    <3>2. PICK e \in Retained(r) : e.seq = s /\ e.readers = h[s]
      BY <1>5, <3>1
    <3>3. s \in f.events
      BY <1>3, <2>2, <3>2 DEF SeqsOf
    <3>4. QED
      BY <3>3
  <2>3. QED
    BY <1>1, <1>9, <2>1, <2>2
<1>13. Tells(h, a, f, c)
  BY <1>1, <1>3, <1>10, <1>11, <1>12 DEF Tells
<1>14. ~HasNews(f) => News(h, a, c, Len(h)) = {}
  BY <1>12 DEF HasNews
<1>15. f.cursor = Len(h)
  BY <1>1, <1>3
<1>16. QED
  BY <1>13, <1>14, <1>15 DEF f

-----------------------------------------------------------------------------
(* The history only grows *)

Extends(g, h) ==
    /\ Len(g) <= Len(h)
    /\ \A s \in 1..Len(g) : h[s] = g[s]

Histories == Seq(SUBSET Agents)

LEMMA SameNews ==
    ASSUME NEW g \in Histories, NEW h \in Histories, Extends(g, h), NEW a, NEW c,
           NEW n \in Nat, n <= Len(g)
    PROVE  News(h, a, c, n) = News(g, a, c, n)
<1>1. Len(g) \in Nat
  BY DEF Histories
<1>2. \A s \in 1..n : h[s] = g[s]
  BY <1>1 DEF Extends
<1>3. QED
  BY <1>2 DEF News

LEMMA TellsStill ==
    ASSUME NEW g \in Histories, NEW h \in Histories, Extends(g, h), NEW a, NEW c,
           NEW f \in Frames, Tells(g, a, f, c)
    PROVE  Tells(h, a, f, c)
<1>1. f.cursor \in Nat /\ Len(g) \in Nat /\ Len(h) \in Nat
  BY DEF Frames, Histories
<1>2. f.cursor <= Len(g) /\ Len(g) <= Len(h)
  BY DEF Tells, Extends
<1>3. News(h, a, c, f.cursor) = News(g, a, c, f.cursor)
      /\ News(h, a, 0, f.cursor) = News(g, a, 0, f.cursor)
  BY <1>1, <1>2, SameNews
<1>4. f.cursor <= Len(h)
  BY <1>1, <1>2
<1>5. QED
  BY <1>3, <1>4 DEF Tells

LEMMA TellsLater ==
    ASSUME NEW h, NEW a, NEW c \in Nat, NEW d \in Nat, c <= d, NEW f, Tells(h, a, f, c)
    PROVE  Tells(h, a, f, d)
<1>1. News(h, a, d, f.cursor) \subseteq News(h, a, c, f.cursor)
  BY DEF News
<1>2. QED
  BY <1>1 DEF Tells

LEMMA SocketTypes ==
    ASSUME NEW s \in Sockets
    PROVE  /\ s.cursor \in 0..MaxEntries /\ s.cursor \in Nat
           /\ s.wire \in Seq(Frames) /\ Len(s.wire) \in Nat
           /\ \A k \in 1..Len(s.wire) : s.wire[k] \in Frames /\ s.wire[k].cursor \in Nat
<1>1. s.cursor \in 0..MaxEntries /\ s.wire \in Seq(Frames)
  BY DEF Sockets
<1>2. MaxEntries \in Nat
  BY Bounds
<1>3. \A k \in 1..Len(s.wire) : s.wire[k] \in Frames
  BY <1>1
<1>4. \A k \in 1..Len(s.wire) : s.wire[k].cursor \in Nat
  BY <1>3, <1>2 DEF Frames
<1>5. QED
  BY <1>1, <1>2, <1>3, <1>4

LEMMA WireStill ==
    ASSUME NEW g \in Histories, NEW h \in Histories, Extends(g, h), NEW a, NEW b,
           NEW s \in Sockets, WireOk(g, a, b, s)
    PROVE  WireOk(h, a, b, s)
<1>1. /\ s.cursor \in Nat /\ Len(g) \in Nat /\ Len(h) \in Nat /\ Len(g) <= Len(h)
      /\ s.cursor <= Len(g)
  BY SocketTypes DEF Histories, Extends, WireOk
<1>2. News(h, a, b, s.cursor) = News(g, a, b, s.cursor)
  BY <1>1, SameNews
<1>3. ASSUME NEW k \in 1..Len(s.wire)
      PROVE  /\ Tells(h, a, s.wire[k], s.wire[k].cursor)
             /\ News(h, a, b, s.wire[k].cursor) \subseteq Carried(s.wire, k)
  <2>1. /\ Tells(g, a, s.wire[k], s.wire[k].cursor)
        /\ News(g, a, b, s.wire[k].cursor) \subseteq Carried(s.wire, k)
    BY DEF WireOk
  <2>2. s.wire[k] \in Frames /\ s.wire[k].cursor \in Nat
    BY SocketTypes
  <2>3. s.wire[k].cursor <= Len(g)
    BY <2>1 DEF Tells
  <2>4. News(h, a, b, s.wire[k].cursor) = News(g, a, b, s.wire[k].cursor)
    BY <2>2, <2>3, SameNews
  <2>5. QED
    BY <2>1, <2>2, <2>4, TellsStill
<1>4. s.cursor <= Len(h)
  BY <1>1
<1>5. QED
  BY <1>2, <1>3, <1>4 DEF WireOk

-----------------------------------------------------------------------------
(* A frame joins a stream *)

LEMMA CarriedMore ==
    ASSUME NEW w \in Seq(Frames), NEW f \in Frames
    PROVE  LET v == Append(w, f)
           IN  /\ v \in Seq(Frames) /\ Len(v) = Len(w) + 1 /\ v[Len(w) + 1] = f
               /\ \A k \in 1..Len(w) : v[k] = w[k] /\ Carried(v, k) = Carried(w, k)
               /\ Carried(v, Len(w) + 1) = Carried(w, Len(w)) \cup f.events \cup f.gone
<1> DEFINE v == Append(w, f)
           n == Len(w)
<1>1. /\ n \in Nat /\ v \in Seq(Frames) /\ Len(v) = n + 1 /\ v[n + 1] = f
      /\ \A k \in 1..n : v[k] = w[k]
  OBVIOUS
<1> HIDE DEF v, n
<1>2. \A k \in 1..n : Carried(v, k) = Carried(w, k)
  <2> SUFFICES ASSUME NEW k \in 1..n PROVE Carried(v, k) = Carried(w, k)
    OBVIOUS
  <2>1. \A j \in 1..k : v[j] = w[j]
    BY <1>1
  <2>2. QED
    BY <2>1 DEF Carried
<1>3. Carried(v, n + 1) = Carried(w, n) \cup f.events \cup f.gone
  <2>1. \A j : j \in 1..(n + 1) <=> j \in 1..n \/ j = n + 1
    BY <1>1
  <2>2. \A x : x \in Carried(v, n + 1) <=> \E j \in 1..(n + 1) : x \in v[j].events \cup v[j].gone
    BY DEF Carried
  <2>3. \A x : x \in Carried(w, n) <=> \E j \in 1..n : x \in w[j].events \cup w[j].gone
    BY DEF Carried
  <2>4. \A x : x \in Carried(v, n + 1) <=>
            x \in Carried(w, n) \/ x \in f.events \cup f.gone
    BY <1>1, <2>1, <2>2, <2>3
  <2>5. QED
    BY <2>4
<1>4. QED
  BY <1>1, <1>2, <1>3 DEF v, n

\* Whatever is pushed to a socket from its cursor leaves it without a gap.
LEMMA PushOk ==
    ASSUME NEW r \in Records, NEW h \in Histories, RecordOk(r, h), NEW a \in Agents,
           NEW b \in Nat, NEW s \in Sockets, WireOk(h, a, b, s), NEW force \in BOOLEAN
    PROVE  StreamOk(h, a, b, Pushed(s, FrameFor(r, a, s.cursor), force))
<1> DEFINE f == FrameFor(r, a, s.cursor)
           v == Append(s.wire, f)
           n == Len(s.wire)
<1>1. /\ s.cursor \in Nat /\ Len(h) \in Nat /\ s.cursor <= Len(h) /\ n \in Nat
      /\ s.wire \in Seq(Frames) /\ s.cursor \in 0..MaxEntries
  BY SocketTypes DEF WireOk, Histories
<1>2. f \in Frames
  BY <1>1, FrameTypes
<1>3. /\ f.cursor = Len(h) /\ Tells(h, a, f, s.cursor)
      /\ ~HasNews(f) => News(h, a, s.cursor, Len(h)) = {}
  <2>1. s.cursor \in 0..Len(h)
    BY <1>1
  <2>2. QED
    BY <2>1, FrameTells DEF Histories
<1>4. CASE ~(force \/ HasNews(f))
  <2>1. Pushed(s, f, force) = s
    BY <1>4 DEF Pushed
  <2>2. QED
    BY <1>3, <1>4, <2>1 DEF StreamOk
<1>5. CASE force \/ HasNews(f)
  <2> DEFINE t == [cursor |-> f.cursor, wire |-> v]
  <2>1. Pushed(s, f, force) = t
    BY <1>5 DEF Pushed
  <2>2. /\ v \in Seq(Frames) /\ Len(v) = n + 1 /\ v[n + 1] = f
        /\ \A k \in 1..n : v[k] = s.wire[k] /\ Carried(v, k) = Carried(s.wire, k)
        /\ Carried(v, n + 1) = Carried(s.wire, n) \cup f.events \cup f.gone
    BY <1>1, <1>2, CarriedMore
  <2>3. t.cursor = Len(h) /\ t.wire = v
    BY <1>3
  <2> HIDE DEF f, v, n, t
  <2>4. News(h, a, b, Len(h)) \subseteq Carried(v, n + 1)
    <3>1. News(h, a, b, Len(h)) \subseteq News(h, a, b, s.cursor) \cup News(h, a, s.cursor, Len(h))
      BY <1>1 DEF News
    <3>2. News(h, a, b, s.cursor) \subseteq Carried(s.wire, n)
      BY DEF WireOk, n
    <3>3. News(h, a, s.cursor, Len(h)) \subseteq f.events \cup f.gone
      BY <1>3 DEF Tells
    <3>4. QED
      BY <2>2, <3>1, <3>2, <3>3
  <2>5. ASSUME NEW k \in 1..Len(v)
        PROVE  /\ Tells(h, a, v[k], v[k].cursor)
               /\ News(h, a, b, v[k].cursor) \subseteq Carried(v, k)
    <3>1. CASE k \in 1..n
      <4>1. v[k] = s.wire[k] /\ Carried(v, k) = Carried(s.wire, k)
        BY <2>2, <3>1
      <4>2. QED
        BY <3>1, <4>1 DEF WireOk, n
    <3>2. CASE k = n + 1
      <4>1. v[k] = f /\ v[k].cursor = Len(h)
        BY <1>3, <2>2, <3>2
      <4>2. Tells(h, a, f, Len(h))
        BY <1>1, <1>3, TellsLater
      <4>3. News(h, a, b, v[k].cursor) \subseteq Carried(v, k)
        BY <2>4, <3>2, <4>1
      <4>4. QED
        BY <1>3, <4>1, <4>2, <4>3
    <3>3. QED
      BY <1>1, <2>2, <3>1, <3>2
  <2>6. News(h, a, Len(h), Len(h)) = {}
    BY <1>1 DEF News
  <2>7. WireOk(h, a, b, t)
    BY <1>1, <2>2, <2>3, <2>4, <2>5 DEF WireOk
  <2>8. StreamOk(h, a, b, t)
    BY <2>3, <2>6, <2>7 DEF StreamOk
  <2>9. QED
    BY <2>1, <2>8 DEF f
<1>6. QED
  BY <1>4, <1>5

-----------------------------------------------------------------------------
(* The record moves on *)

LEMMA AgentTypes ==
    ASSUME TypeOK, NEW a \in Agents
    PROVE  /\ MaxEntries \in Nat /\ history \in Histories /\ Len(history) \in Nat
           /\ room \in Records
           /\ cursor[a] \in 0..MaxEntries /\ delivered[a] \in 0..MaxEntries
           /\ sock[a] # None => sock[a] \in Sockets
           /\ held[a] # None => held[a] \in 0..MaxEntries
           /\ reply[a] # None => reply[a] \in Frames
           /\ reader[a] # None => reader[a] \in Applying
           /\ late[a] # None => late[a] \in Applying
           /\ pending[a] \in Seq(Sequences1) /\ Range(pending[a]) \subseteq Sequences1
           /\ ahead[a] \in SUBSET Sequences1 /\ gaps[a] \in SUBSET Sequences1
           /\ answered[a] \in [Sequences1 -> Nat]
<1>1. pending[a] \in Seq(Sequences1)
  BY DEF TypeOK
<1>2. Range(pending[a]) \subseteq Sequences1
  BY <1>1, RangeOfSeq
<1>3. MaxEntries \in Nat
  BY Bounds
<1>4. history \in Histories /\ Len(history) \in Nat
  BY DEF TypeOK, Histories
<1>5. QED
  BY <1>1, <1>2, <1>3, <1>4 DEF TypeOK

LEMMA ApplyingTypes ==
    ASSUME NEW x \in Applying
    PROVE  /\ x.frame \in Frames /\ x.through \in 0..MaxEntries /\ x.through \in Nat
           /\ x.frame.events \subseteq Sequences1 /\ x.frame.gone \subseteq Sequences1
           /\ x.frame.cursor \in 0..MaxEntries /\ x.frame.cursor \in Nat
  BY Bounds DEF Applying, Frames

LEMMA BaseFacts ==
    ASSUME TypeOK, NEW a \in Agents
    PROVE  Base(a) \in Nat /\ cursor[a] <= Base(a)
<1>1. cursor[a] \in Nat
  BY AgentTypes
<1>2. CASE reader[a] = None
  BY <1>1, <1>2 DEF Base
<1>3. CASE reader[a] # None
  BY <1>1, <1>3, AgentTypes, ApplyingTypes DEF Base
<1>4. QED
  BY <1>2, <1>3

\* A new entry whose readers are R joins one of the rings.
LEMMA NewEntry ==
    ASSUME NEW r \in Records, NEW q \in Records, NEW h \in Histories, RecordOk(r, h),
           NEW R \in SUBSET Agents, NEW e \in Entries, e.seq = r.next + 1, e.readers = R,
           q.next = r.next + 1, Retained(q) \subseteq Retained(r) \cup {e},
           \/ e \in Retained(q) /\ ~e.brief
           \/ R = {} /\ Retained(r) \subseteq Retained(q)
    PROVE  RecordOk(q, Append(h, R))
<1> DEFINE g == Append(h, R)
           n == Len(h)
<1>1. /\ n \in Nat /\ Len(g) = n + 1 /\ g[n + 1] = R /\ \A s \in 1..n : g[s] = h[s]
      /\ r.next = n
  BY DEF Histories, RecordOk
<1> HIDE DEF g
<1>2. q.next = Len(g)
  BY <1>1
<1>3. \A x \in Retained(q) : x.seq \in 1..Len(g) /\ x.readers = g[x.seq]
  BY <1>1 DEF RecordOk
<1>4. \A s \in 1..Len(g) : g[s] # {} => \E x \in Retained(q) : ~x.brief /\ x.seq >= s
  <2> SUFFICES ASSUME NEW s \in 1..Len(g), g[s] # {}
               PROVE  \E x \in Retained(q) : ~x.brief /\ x.seq >= s
    OBVIOUS
  <2>1. CASE e \in Retained(q) /\ ~e.brief
    BY <1>1, <2>1
  <2>2. CASE R = {} /\ Retained(r) \subseteq Retained(q)
    <3>1. s \in 1..n /\ h[s] # {}
      BY <1>1, <2>2
    <3>2. QED
      BY <2>2, <3>1 DEF RecordOk
  <2>3. QED
    BY <2>1, <2>2
<1>5. QED
  BY <1>2, <1>3, <1>4 DEF RecordOk, g

LEMMA Longer ==
    ASSUME NEW h \in Histories, NEW R \in SUBSET Agents
    PROVE  Append(h, R) \in Histories /\ Extends(h, Append(h, R)) /\ Extends(h, h)
  BY DEF Histories, Extends

LEMMA UploadStill ==
    ASSUME NEW u \in Uploads, NEW g \in Histories, NEW h \in Histories, Extends(g, h),
           UploadOk(u, g)
    PROVE  UploadOk(u, h)
<1>1. Len(u.known) \in Nat /\ Len(g) \in Nat /\ Len(h) \in Nat
  BY DEF Uploads, Histories
<1>2. QED
  BY <1>1 DEF UploadOk, Extends

\* The record that an upload saves is the present one, or the promise ends.
LEMMA UploadIsFresh ==
    ASSUME NEW u \in Uploads, NEW h \in Histories, UploadOk(u, h), u.loaded.next = Len(h)
    PROVE  u.known = h
<1>1. u.known \in Seq(SUBSET Agents) /\ h \in Seq(SUBSET Agents)
  BY DEF Uploads, Histories
<1>2. Len(u.known) = Len(h) /\ \A s \in 1..Len(u.known) : u.known[s] = h[s]
  BY DEF UploadOk
<1>3. QED
  BY <1>1, <1>2, SeqEqual

\* What a handler of the room has to show, as it leaves the runtimes alone.
WiresOk(h) ==
    \A a \in Agents :
        /\ sock'[a] # None => StreamOk(h, a, Base(a), sock'[a])
        /\ held'[a] # None => HeldOk(h, a, cursor[a], held'[a])
        /\ reply'[a] # None => Tells(h, a, reply'[a], cursor[a])

LEMMA RuntimeStill ==
    ASSUME TypeOK, TypeOK', NEW a \in Agents, RuntimeOk(a), Extends(history, history'),
           UNCHANGED rtvars
    PROVE  RuntimeOk(a)' /\ Base(a)' = Base(a)
<1>1. /\ UNCHANGED <<cursor, reader, late, pending, ahead, delivered, answered, gaps>>
  BY DEF rtvars, turnvars
<1>2. history \in Histories /\ history' \in Histories
  BY DEF TypeOK, Histories
<1>3. Settled' = Settled
  BY <1>1 DEF Settled
<1>4. Base(a)' = Base(a)
  BY <1>1 DEF Base
<1>5. /\ cursor[a] \in Nat /\ Len(history) \in Nat /\ Len(history') \in Nat
      /\ cursor[a] <= Len(history) /\ Len(history) <= Len(history')
  BY <1>2, AgentTypes DEF Extends, RuntimeOk, Histories
<1>6. News(history', a, 0, cursor[a]) = News(history, a, 0, cursor[a])
  BY <1>2, <1>5, SameNews
<1>7. ASSUME NEW x \in Applying, ApplyingOk(history, a, cursor[a], x)
      PROVE  ApplyingOk(history', a, cursor[a], x)
  BY <1>2, <1>7, ApplyingTypes, TellsStill DEF ApplyingOk
<1>8. reader[a] # None => ApplyingOk(history', a, cursor[a], reader[a])
  BY <1>7, AgentTypes DEF RuntimeOk
<1>9. late[a] # None => ApplyingOk(history', a, cursor[a], late[a])
  BY <1>7, AgentTypes DEF RuntimeOk
<1>10. cursor[a] <= Len(history')
  BY <1>5
<1>11. RuntimeOk(a)'
  BY <1>1, <1>3, <1>6, <1>8, <1>9, <1>10 DEF RuntimeOk
<1>12. QED
  BY <1>4, <1>11

LEMMA RoomMovesOn ==
    ASSUME TypeOK, TypeOK', Promise, Extends(history, history'), UNCHANGED rtvars,
           RecordOk(room', history'), \A u \in uploads' : UploadOk(u, history'),
           WiresOk(history')
    PROVE  Promise'
<1>1. UNCHANGED cursor
  BY DEF rtvars
<1>2. ASSUME NEW a \in Agents PROVE Follows(a)'
  <2>1. RuntimeOk(a)' /\ Base(a)' = Base(a)
    BY RuntimeStill DEF Promise, Follows
  <2>2. QED
    BY <1>1, <2>1 DEF WiresOk, Follows
<1>3. QED
  BY <1>2 DEF Promise

-----------------------------------------------------------------------------
(* Delivery *)

LEMMA LowerFacts ==
    ASSUME NEW m \in Nat, NEW n \in Nat
    PROVE  Lower(m, n) \in Nat /\ Lower(m, n) <= m /\ Lower(m, n) <= n
           /\ (m <= n => Lower(m, n) = m)
  BY DEF Lower

LEMMA PushedTypes ==
    ASSUME NEW s \in Sockets, NEW f \in Frames, NEW force
    PROVE  Pushed(s, f, force) \in Sockets
<1>1. s.wire \in Seq(Frames) /\ f.cursor \in 0..MaxEntries
  BY SocketTypes DEF Frames
<1>2. Append(s.wire, f) \in Seq(Frames)
  BY <1>1
<1>3. QED
  BY <1>1, <1>2 DEF Pushed, Sockets

WireTypes ==
    /\ sock \in [Agents -> Sockets \cup {None}]
    /\ held \in [Agents -> 0..MaxEntries \cup {None}]
    /\ reply \in [Agents -> Frames \cup {None}]

LEMMA PushSocketsTypes ==
    ASSUME TypeOK, NEW r \in Records, NEW force, PushSockets(r, force)
    PROVE  sock' \in [Agents -> Sockets \cup {None}]
<1>1. ASSUME NEW a \in Agents, sock[a] # None
      PROVE  Pushed(sock[a], FrameFor(r, a, sock[a].cursor), force) \in Sockets
  <2>1. sock[a] \in Sockets /\ sock[a].cursor \in 0..MaxEntries
    BY <1>1, AgentTypes, SocketTypes
  <2>2. QED
    BY <2>1, FrameTypes, PushedTypes
<1>2. QED
  BY <1>1 DEF PushSockets

LEMMA ResolveTypes ==
    ASSUME TypeOK, NEW r \in Records, Resolve(r)
    PROVE  WireTypes'
<1>1. PushSockets(r, FALSE)
  BY DEF Resolve
<1>2. sock' \in [Agents -> Sockets \cup {None}]
  BY <1>1, PushSocketsTypes
<1>3. held' \in [Agents -> 0..MaxEntries \cup {None}]
  BY DEF Resolve, TypeOK
<1>4. \A a \in Agents : held[a] # None => FrameFor(r, a, held[a]) \in Frames
  BY AgentTypes, FrameTypes
<1>5. reply' \in [Agents -> Frames \cup {None}]
  BY <1>4 DEF Resolve, TypeOK
<1>6. QED
  BY <1>2, <1>3, <1>5 DEF WireTypes

LEMMA BroadcastTypes ==
    ASSUME TypeOK, NEW r \in Records, BroadcastState(r)
    PROVE  WireTypes'
<1>1. PushSockets(r, TRUE) /\ UNCHANGED <<held, reply>>
  BY DEF BroadcastState
<1>2. sock' \in [Agents -> Sockets \cup {None}]
  BY <1>1, PushSocketsTypes
<1>3. QED
  BY <1>1, <1>2 DEF WireTypes, TypeOK

\* Every open socket has its frame as soon as the room has the event.
LEMMA SocketsFollow ==
    ASSUME TypeOK, Promise, NEW r \in Records, NEW h \in Histories, Extends(history, h),
           RecordOk(r, h), NEW force \in BOOLEAN, PushSockets(r, force), NEW a \in Agents,
           sock'[a] # None
    PROVE  StreamOk(h, a, Base(a), sock'[a])
<1>1. sock[a] # None
      /\ sock'[a] = Pushed(sock[a], FrameFor(r, a, sock[a].cursor), force)
  BY DEF PushSockets
<1>2. sock[a] \in Sockets /\ history \in Histories /\ Base(a) \in Nat
  BY <1>1, AgentTypes, BaseFacts
<1>3. WireOk(history, a, Base(a), sock[a])
  BY <1>1 DEF Promise, Follows, StreamOk
<1>4. WireOk(h, a, Base(a), sock[a])
  BY <1>2, <1>3, WireStill
<1>5. QED
  BY <1>1, <1>2, <1>4, PushOk

\* A wait that is held goes on only if the room has nothing for it.
LEMMA ResolveFollows ==
    ASSUME TypeOK, Promise, NEW r \in Records, NEW h \in Histories, Extends(history, h),
           RecordOk(r, h), Resolve(r)
    PROVE  WiresOk(h)
<1> SUFFICES ASSUME NEW a \in Agents
             PROVE  /\ sock'[a] # None => StreamOk(h, a, Base(a), sock'[a])
                    /\ held'[a] # None => HeldOk(h, a, cursor[a], held'[a])
                    /\ reply'[a] # None => Tells(h, a, reply'[a], cursor[a])
  BY DEF WiresOk
<1> DEFINE f == FrameFor(r, a, held[a])
           served == held[a] # None /\ HasNews(f)
<1>1. /\ held'[a] = (IF served THEN None ELSE held[a])
      /\ reply'[a] = (IF served THEN f ELSE reply[a])
      /\ PushSockets(r, FALSE)
  BY DEF Resolve
<1>2. sock'[a] # None => StreamOk(h, a, Base(a), sock'[a])
  BY <1>1, SocketsFollow
<1>3. Follows(a)
  BY DEF Promise
<1>4. /\ cursor[a] \in Nat /\ cursor[a] <= Len(history) /\ history \in Histories
      /\ Len(history) \in Nat /\ Len(h) \in Nat /\ Len(history) <= Len(h)
  BY <1>3, AgentTypes DEF Follows, RuntimeOk, Extends, Histories
<1>5. held[a] # None =>
        /\ held[a] \in Nat /\ held[a] <= cursor[a]
        /\ Tells(h, a, f, held[a])
        /\ ~HasNews(f) => News(h, a, held[a], Len(h)) = {}
  <2> SUFFICES ASSUME held[a] # None
               PROVE  /\ held[a] \in Nat /\ held[a] <= cursor[a]
                      /\ Tells(h, a, f, held[a])
                      /\ ~HasNews(f) => News(h, a, held[a], Len(h)) = {}
    OBVIOUS
  <2>1. held[a] \in Nat /\ held[a] <= cursor[a]
    BY <1>3, AgentTypes DEF Follows, HeldOk
  <2>2. held[a] \in 0..Len(h)
    BY <1>4, <2>1
  <2>3. QED
    BY <2>1, <2>2, FrameTells DEF Histories
<1> HIDE DEF f
<1>6. CASE served
  <2>1. Tells(h, a, f, cursor[a])
    BY <1>4, <1>5, <1>6, TellsLater
  <2>2. QED
    BY <1>1, <1>2, <1>6, <2>1
<1>7. CASE ~served
  <2>1. held[a] # None => HeldOk(h, a, cursor[a], held[a])
    BY <1>5, <1>7 DEF HeldOk
  <2>2. reply[a] # None => Tells(h, a, reply[a], cursor[a])
    BY <1>3, <1>4, AgentTypes, TellsStill DEF Follows
  <2>3. QED
    BY <1>1, <1>2, <1>7, <2>1, <2>2
<1>8. QED
  BY <1>6, <1>7

LEMMA BroadcastFollows ==
    ASSUME TypeOK, Promise, NEW r \in Records, RecordOk(r, history), BroadcastState(r)
    PROVE  WiresOk(history)
<1>1. PushSockets(r, TRUE) /\ UNCHANGED <<held, reply>>
  BY DEF BroadcastState
<1>2. history \in Histories /\ Extends(history, history)
  BY DEF TypeOK, Histories, Extends
<1>3. ASSUME NEW a \in Agents, sock'[a] # None
      PROVE  StreamOk(history, a, Base(a), sock'[a])
  BY <1>1, <1>2, <1>3, SocketsFollow
<1>4. QED
  BY <1>1, <1>3 DEF WiresOk, Promise, Follows

-----------------------------------------------------------------------------
(* The room's handlers *)

LEMMA RoomTypes ==
    ASSUME TypeOK, room' \in Records, uploads' \subseteq Uploads, history' \in Histories,
           overwritten' \in BOOLEAN, WireTypes', UNCHANGED rtvars
    PROVE  TypeOK'
  BY DEF TypeOK, WireTypes, rtvars, turnvars, Histories

LEMMA WiresStay ==
    ASSUME TypeOK, UNCHANGED wirevars
    PROVE  WireTypes' /\ (Promise => WiresOk(history))
<1>1. UNCHANGED <<sock, held, reply>>
  BY DEF wirevars
<1>2. QED
  BY <1>1 DEF WireTypes, TypeOK, WiresOk, Promise, Follows

LEMMA RangeAppended ==
    ASSUME NEW S, NEW s \in Seq(S), NEW e \in S
    PROVE  /\ Append(s, e) \in Seq(S) /\ Len(Append(s, e)) = Len(s) + 1
           /\ Append(s, e)[Len(s) + 1] = e
           /\ Range(Append(s, e)) = Range(s) \cup {e}
<1>1. <<e>> \in Seq(S) /\ Append(s, e) = s \o <<e>>
  BY AppendIsConcat
<1>2. Range(s \o <<e>>) = Range(s) \cup Range(<<e>>)
  BY <1>1, RangeConcatenation
<1>3. Range(<<e>>) = {<<e>>[i] : i \in 1..Len(<<e>>)}
  BY <1>1, RangeEquality
<1>4. \A i : i \in 1..1 <=> i = 1
  OBVIOUS
<1>5. Range(<<e>>) = {e}
  BY <1>3, <1>4
<1>6. QED
  BY <1>1, <1>2, <1>5, AppendProperties

LEMMA SayStep ==
    ASSUME TypeOK, NEW R \in SUBSET Agents, Say(R)
    PROVE  TypeOK' /\ (Promise => Promise')
<1> DEFINE e == [seq |-> room.next + 1, readers |-> R, brief |-> FALSE]
           s == Append(room.messages, e)
<1>1. PICK kept \in Kept(s) : room' = [room EXCEPT !.next = e.seq, !.messages = kept]
  BY DEF Say
<1>2. /\ room.next < MaxEntries /\ history' = Append(history, R) /\ Resolve(room')
      /\ uploads' = uploads /\ overwritten' = overwritten /\ UNCHANGED rtvars
  BY DEF Say
<1>3. /\ room \in Records /\ history \in Histories /\ MaxEntries \in Nat
      /\ uploads \subseteq Uploads /\ overwritten \in BOOLEAN /\ MaxMessages \in Nat \ {0}
  BY Bounds DEF TypeOK, Histories
<1>4. /\ room.next \in Nat /\ room.next \in 0..MaxEntries
      /\ room.messages \in Seq(Entries) /\ room.attachments \in Seq(Entries)
  BY <1>3, RecordTypes
<1>5. e \in Entries /\ e.seq = room.next + 1 /\ e.readers = R /\ ~e.brief
  <2>1. room.next + 1 \in Sequences1
    BY <1>2, <1>3, <1>4 DEF Sequences1
  <2>2. QED
    BY <2>1 DEF Entries
<1> HIDE DEF e
<1>6. /\ s \in Seq(Entries) /\ Len(s) = Len(room.messages) + 1 /\ s[Len(s)] = e
      /\ Range(s) = Range(room.messages) \cup {e} /\ Len(s) \in Nat
  BY <1>4, <1>5, RangeAppended
<1> HIDE DEF s
<1>7. kept \in Seq(Entries) /\ Range(kept) \subseteq Range(s) /\ e \in Range(kept)
  <2>1. PICK n \in 1..Lower(Len(s), MaxMessages) : kept = SubSeq(s, Len(s) - n + 1, Len(s))
    BY <1>1 DEF Kept
  <2>2. n \in 0..Len(s) /\ n > 0
    <3>1. Lower(Len(s), MaxMessages) \in Nat /\ Lower(Len(s), MaxMessages) <= Len(s)
      BY <1>3, <1>6, LowerFacts
    <3>2. QED
      BY <1>6, <2>1, <3>1
  <2>3. QED
    BY <1>6, <2>1, <2>2, Newest
<1>8. /\ room' \in Records /\ room'.next = room.next + 1
      /\ room'.messages = kept /\ room'.attachments = room.attachments
  <2>1. room.next + 1 \in 0..MaxEntries
    BY <1>2, <1>3, <1>4
  <2>2. QED
    BY <1>1, <1>3, <1>5, <1>7, <2>1 DEF Records
<1>9. history' \in Histories /\ Extends(history, history')
  BY <1>2, <1>3, Longer
<1>10. WireTypes'
  BY <1>2, <1>8, ResolveTypes
<1>11. TypeOK'
  BY <1>2, <1>3, <1>8, <1>9, <1>10, RoomTypes
<1>12. ASSUME Promise PROVE Promise'
  <2>1. Retained(room') \subseteq Retained(room) \cup {e} /\ e \in Retained(room')
    BY <1>6, <1>7, <1>8 DEF Retained
  <2>2. RecordOk(room, history) /\ \A u \in uploads : UploadOk(u, history)
    BY <1>12 DEF Promise
  <2>3. RecordOk(room', history')
    BY <1>2, <1>3, <1>5, <1>8, <2>1, <2>2, NewEntry
  <2>4. \A u \in uploads' : UploadOk(u, history')
    BY <1>2, <1>3, <1>9, <2>2, UploadStill
  <2>5. WiresOk(history')
    BY <1>2, <1>8, <1>9, <1>12, <2>3, ResolveFollows
  <2>6. QED
    BY <1>2, <1>9, <1>11, <1>12, <2>3, <2>4, <2>5, RoomMovesOn
<1>13. QED
  BY <1>11, <1>12

\* A handler that changes no event.
LEMMA QuietStep ==
    ASSUME TypeOK, TypeOK', Promise, UNCHANGED <<history, rtvars>>, RecordOk(room', history),
           \A u \in uploads' : UploadOk(u, history), WiresOk(history)
    PROVE  Promise'
<1>1. history' = history /\ Extends(history, history') /\ UNCHANGED rtvars
  BY DEF TypeOK, Extends
<1>2. QED
  BY <1>1, RoomMovesOn

LEMMA AnnounceStep ==
    ASSUME TypeOK, Announce
    PROVE  TypeOK' /\ (Promise => Promise')
<1>1. /\ BroadcastState(room) /\ UNCHANGED rtvars
      /\ room' = room /\ uploads' = uploads /\ history' = history /\ overwritten' = overwritten
  BY DEF Announce, roomvars
<1>2. room \in Records /\ history \in Histories
  BY DEF TypeOK, Histories
<1>3. TypeOK'
  BY <1>1, <1>2, BroadcastTypes, RoomTypes DEF TypeOK
<1>4. ASSUME Promise PROVE Promise'
  <2>1. RecordOk(room, history) /\ \A u \in uploads : UploadOk(u, history)
    BY <1>4 DEF Promise
  <2>2. WiresOk(history)
    BY <1>1, <1>2, <1>4, <2>1, BroadcastFollows
  <2>3. QED
    BY <1>1, <1>3, <1>4, <2>1, <2>2, QuietStep
<1>5. QED
  BY <1>3, <1>4

LEMMA BeginUploadStep ==
    ASSUME TypeOK, NEW kind \in UploadKinds, NEW R \in SUBSET Agents, BeginUpload(kind, R)
    PROVE  TypeOK' /\ (Promise => Promise')
<1> DEFINE u == [kind |-> kind, readers |-> R, loaded |-> room, known |-> history]
<1>1. /\ room' = room /\ uploads' = uploads \cup {u} /\ history' = history
      /\ overwritten' = overwritten /\ UNCHANGED wirevars /\ UNCHANGED rtvars
      /\ kind = "brief" => R = {} /\ Len(room.attachments) < MaxAttachments
  BY DEF BeginUpload
<1>2. room \in Records /\ history \in Histories /\ uploads \subseteq Uploads
  BY DEF TypeOK, Histories
<1>3. u \in Uploads
  BY <1>2 DEF Uploads, Histories
<1>4. WireTypes' /\ (Promise => WiresOk(history))
  BY <1>1, WiresStay
<1>5. TypeOK'
  <2> HIDE DEF u
  <2>1. QED
    BY <1>1, <1>2, <1>3, <1>4, RoomTypes DEF TypeOK
<1>6. ASSUME Promise PROVE Promise'
  <2>1. RecordOk(room, history) /\ \A v \in uploads : UploadOk(v, history)
    BY <1>6 DEF Promise
  <2>2. UploadOk(u, history)
    BY <1>1, <1>2, <2>1 DEF UploadOk, RecordOk, Histories
  <2> HIDE DEF u
  <2>3. \A v \in uploads' : UploadOk(v, history)
    BY <1>1, <2>1, <2>2
  <2>4. QED
    BY <1>1, <1>4, <1>5, <1>6, <2>1, <2>3, QuietStep
<1>7. QED
  BY <1>5, <1>6

LEMMA DiscardStep ==
    ASSUME TypeOK, NEW i \in 1..Len(room.attachments), Discard(i)
    PROVE  TypeOK' /\ (Promise => Promise')
<1> DEFINE ring == room.attachments
           rest == SubSeq(ring, 1, i - 1) \o SubSeq(ring, i + 1, Len(ring))
<1>1. /\ ring[i].brief /\ room' = [room EXCEPT !.attachments = rest]
      /\ BroadcastState(room')
      /\ uploads' = uploads /\ history' = history /\ overwritten' = overwritten
      /\ UNCHANGED rtvars
  BY DEF Discard
<1>2. room \in Records /\ history \in Histories /\ ring \in Seq(Entries)
  BY RecordTypes DEF TypeOK, Histories
<1>3. /\ rest \in Seq(Entries) /\ Range(rest) \subseteq Range(ring)
      /\ \A j \in 1..Len(ring) : j # i => ring[j] \in Range(rest)
  BY <1>2, WithoutOne
<1> HIDE DEF rest
<1>4. /\ room' \in Records /\ room'.next = room.next /\ room'.messages = room.messages
      /\ room'.attachments = rest
  BY <1>1, <1>2, <1>3 DEF Records
<1>5. TypeOK'
  BY <1>1, <1>2, <1>4, BroadcastTypes, RoomTypes DEF TypeOK
<1>6. ASSUME Promise PROVE Promise'
  <2>1. RecordOk(room, history) /\ \A u \in uploads : UploadOk(u, history)
    BY <1>6 DEF Promise
  <2>2. Retained(room') \subseteq Retained(room)
    BY <1>3, <1>4 DEF Retained
  <2>3. ASSUME NEW e \in Retained(room), ~e.brief PROVE e \in Retained(room')
    <3>1. CASE e \in Range(room.messages)
      BY <1>4, <3>1 DEF Retained
    <3>2. CASE e \in Range(ring)
      <4>1. PICK j \in 1..Len(ring) : e = ring[j]
        BY <1>2, <3>2, RangeEquality
      <4>2. j # i
        BY <1>1, <2>3, <4>1
      <4>3. QED
        BY <1>3, <1>4, <4>1, <4>2 DEF Retained
    <3>3. QED
      BY <3>1, <3>2 DEF Retained
  <2>4. RecordOk(room', history)
    BY <1>4, <2>1, <2>2, <2>3 DEF RecordOk
  <2>5. WiresOk(history)
    BY <1>1, <1>4, <1>6, <2>4, BroadcastFollows
  <2>6. QED
    BY <1>1, <1>5, <1>6, <2>1, <2>4, <2>5, QuietStep
<1>7. QED
  BY <1>5, <1>6

LEMMA RestartStep ==
    ASSUME TypeOK, Restart
    PROVE  TypeOK' /\ (Promise => Promise')
<1>1. /\ uploads' = {} /\ held' = [a \in Agents |-> None]
      /\ room' = room /\ history' = history /\ overwritten' = overwritten
      /\ sock' = sock /\ reply' = reply /\ UNCHANGED rtvars
  BY DEF Restart
<1>2. WireTypes'
  BY <1>1 DEF TypeOK, WireTypes
<1>3. TypeOK'
  BY <1>1, <1>2, RoomTypes DEF TypeOK, Histories
<1>4. ASSUME Promise PROVE Promise'
  <2>1. RecordOk(room, history)
    BY <1>4 DEF Promise
  <2>2. WiresOk(history)
    BY <1>1, <1>4 DEF WiresOk, Promise, Follows
  <2>3. QED
    BY <1>1, <1>3, <1>4, <2>1, <2>2, QuietStep
<1>5. QED
  BY <1>3, <1>4

LEMMA EndSurfaceStep ==
    ASSUME TypeOK, NEW u \in uploads, EndSurface(u)
    PROVE  /\ TypeOK' /\ overwritten' \in BOOLEAN /\ (overwritten => overwritten')
           /\ Promise => overwritten' \/ (Promise' /\ history' = history)
<1>1. /\ room' = u.loaded /\ history' = u.known /\ uploads' = uploads \ {u}
      /\ overwritten' = (overwritten \/ u.loaded # room)
      /\ BroadcastState(room') /\ UNCHANGED rtvars
  BY DEF EndSurface
<1>2. u \in Uploads /\ u.loaded \in Records /\ u.known \in Histories /\ history \in Histories
  BY DEF TypeOK, Uploads, Histories
<1>3. overwritten' \in BOOLEAN /\ uploads' \subseteq Uploads
  BY <1>1 DEF TypeOK
<1>4. WireTypes'
  BY <1>1, <1>2, BroadcastTypes
<1>5. TypeOK'
  BY <1>1, <1>2, <1>3, <1>4, RoomTypes
<1>6. ASSUME Promise, ~overwritten' PROVE Promise' /\ history' = history
  <2>1. RecordOk(room, history) /\ \A v \in uploads : UploadOk(v, history)
    BY <1>6 DEF Promise
  <2>2. u.loaded = room
    BY <1>1, <1>6
  <2>3. u.known = history
    BY <1>2, <2>1, <2>2, UploadIsFresh DEF RecordOk
  <2>4. room' = room /\ history' = history
    BY <1>1, <2>2, <2>3
  <2>5. WiresOk(history)
    BY <1>1, <1>2, <1>6, <2>1, <2>2, BroadcastFollows
  <2>6. \A v \in uploads' : UploadOk(v, history)
    BY <1>1, <2>1
  <2>7. Promise'
    BY <1>1, <1>5, <1>6, <2>1, <2>4, <2>5, <2>6, QuietStep
  <2>8. QED
    BY <2>4, <2>7
<1>7. overwritten => overwritten'
  BY <1>1
<1>8. QED
  BY <1>3, <1>5, <1>6, <1>7

\* The upload that ends saves the present record, or a stale one and the promise ends.
LEMMA EndAttachmentStep ==
    ASSUME TypeOK, NEW u \in uploads, EndAttachment(u)
    PROVE  /\ TypeOK' /\ overwritten' \in BOOLEAN /\ (overwritten => overwritten')
           /\ Promise => overwritten' \/ (Promise' /\ history' = Append(history, u.readers))
<1> DEFINE e == [seq |-> u.loaded.next + 1, readers |-> u.readers, brief |-> u.kind = "brief"]
           ring == Append(u.loaded.attachments, e)
           n == Lower(Len(ring), MaxAttachments)
           kept == SubSeq(ring, Len(ring) - n + 1, Len(ring))
<1>1. /\ room' = [u.loaded EXCEPT !.next = e.seq, !.attachments = kept]
      /\ u.kind # "surface" /\ u.loaded.next < MaxEntries
      /\ history' = Append(u.known, u.readers) /\ uploads' = uploads \ {u}
      /\ overwritten' = (overwritten \/ u.loaded # room)
      /\ Resolve(room') /\ UNCHANGED rtvars
  BY DEF EndAttachment
<1>2. /\ u \in Uploads /\ u.loaded \in Records /\ u.known \in Histories
      /\ history \in Histories /\ u.readers \in SUBSET Agents /\ u.kind \in UploadKinds
      /\ MaxEntries \in Nat /\ MaxAttachments \in Nat \ {0}
  BY Bounds DEF TypeOK, Uploads, Histories
<1>3. overwritten' \in BOOLEAN /\ uploads' \subseteq Uploads /\ (overwritten => overwritten')
  BY <1>1 DEF TypeOK
<1>4. /\ u.loaded.next \in Nat /\ u.loaded.next \in 0..MaxEntries
      /\ u.loaded.attachments \in Seq(Entries) /\ Len(u.loaded.attachments) \in Nat
  BY <1>2, RecordTypes
<1>5. e \in Entries /\ e.seq = u.loaded.next + 1 /\ e.readers = u.readers
      /\ e.brief = (u.kind = "brief")
  <2>1. u.loaded.next + 1 \in Sequences1
    BY <1>1, <1>2, <1>4 DEF Sequences1
  <2>2. QED
    BY <1>2, <2>1 DEF Entries
<1> HIDE DEF e
<1>6. /\ ring \in Seq(Entries) /\ Len(ring) = Len(u.loaded.attachments) + 1
      /\ ring[Len(ring)] = e
      /\ Range(ring) = Range(u.loaded.attachments) \cup {e} /\ Len(ring) \in Nat
  BY <1>4, <1>5, RangeAppended
<1> HIDE DEF ring
<1>7. n \in 0..Len(ring) /\ n > 0
      /\ (Len(u.loaded.attachments) < MaxAttachments => n = Len(ring))
  BY <1>2, <1>4, <1>6 DEF Lower
<1>8. /\ kept \in Seq(Entries) /\ Range(kept) \subseteq Range(ring) /\ e \in Range(kept)
      /\ Len(u.loaded.attachments) < MaxAttachments => kept = ring
  <2> HIDE DEF n
  <2>1. QED
    BY <1>6, <1>7, Newest
<1> HIDE DEF n, kept
<1>9. /\ room' \in Records /\ room'.next = u.loaded.next + 1
      /\ room'.messages = u.loaded.messages /\ room'.attachments = kept
  <2>1. u.loaded.next + 1 \in 0..MaxEntries
    BY <1>1, <1>2, <1>4
  <2>2. QED
    BY <1>1, <1>2, <1>5, <1>8, <2>1 DEF Records
<1>10. history' \in Histories
  BY <1>1, <1>2, Longer
<1>11. WireTypes'
  BY <1>1, <1>9, ResolveTypes
<1>12. TypeOK'
  BY <1>1, <1>3, <1>9, <1>10, <1>11, RoomTypes
<1>13. ASSUME Promise, ~overwritten' PROVE Promise' /\ history' = Append(history, u.readers)
  <2>1. RecordOk(room, history) /\ \A v \in uploads : UploadOk(v, history)
    BY <1>13 DEF Promise
  <2>2. u.loaded = room
    BY <1>1, <1>13
  <2>3. u.known = history
    BY <1>2, <2>1, <2>2, UploadIsFresh DEF RecordOk
  <2>4. history' = Append(history, u.readers) /\ Extends(history, history')
    BY <1>1, <1>2, <2>3, Longer
  <2>5. Retained(room') \subseteq Retained(room) \cup {e}
    BY <1>6, <1>8, <1>9, <2>2 DEF Retained
  <2>6. \/ e \in Retained(room') /\ ~e.brief
        \/ u.readers = {} /\ Retained(room) \subseteq Retained(room')
    <3>1. CASE u.kind = "brief"
      <4>1. u.readers = {} /\ Len(u.loaded.attachments) < MaxAttachments
        BY <2>1, <3>1 DEF UploadOk
      <4>2. Retained(room) \subseteq Retained(room')
        BY <1>6, <1>8, <1>9, <2>2, <4>1 DEF Retained
      <4>3. QED
        BY <4>1, <4>2
    <3>2. CASE u.kind # "brief"
      BY <1>5, <1>8, <1>9, <3>2 DEF Retained
    <3>3. QED
      BY <3>1, <3>2
  <2>7. RecordOk(room', history')
    BY <1>2, <1>5, <1>9, <2>1, <2>2, <2>4, <2>5, <2>6, NewEntry
  <2>8. \A v \in uploads' : UploadOk(v, history')
    BY <1>1, <1>2, <1>3, <1>10, <2>1, <2>4, UploadStill
  <2>9. WiresOk(history')
    BY <1>1, <1>9, <1>10, <1>13, <2>4, <2>7, ResolveFollows
  <2>10. Promise'
    BY <1>1, <1>12, <1>13, <2>4, <2>7, <2>8, <2>9, RoomMovesOn
  <2>11. QED
    BY <2>4, <2>10
<1>14. QED
  BY <1>3, <1>12, <1>13

-----------------------------------------------------------------------------
(* The stream of a runtime *)

\* The step is of another Agent's runtime or wire.
Undisturbed(b) ==
    /\ cursor'[b] = cursor[b] /\ delivered'[b] = delivered[b] /\ gaps'[b] = gaps[b]
    /\ pending'[b] = pending[b] /\ answered'[b] = answered[b]
    /\ reader'[b] = reader[b] /\ late'[b] = late[b]
    /\ sock'[b] = sock[b] /\ held'[b] = held[b] /\ reply'[b] = reply[b]

LEMMA OneAgentMoves ==
    ASSUME Promise, NEW a \in Agents, UNCHANGED roomvars, Follows(a)',
           \A b \in Agents \ {a} : Undisturbed(b)
    PROVE  Promise'
<1>1. room' = room /\ uploads' = uploads /\ history' = history
  BY DEF roomvars
<1>2. ASSUME NEW b \in Agents PROVE Follows(b)'
  <2>1. CASE b = a
    BY <2>1
  <2>2. CASE b # a
    <3>1. Undisturbed(b) /\ Follows(b)
      BY <2>2 DEF Promise
    <3>2. Settled'[b] = Settled[b] /\ Base(b)' = Base(b)
      BY <3>1 DEF Undisturbed, Settled, Base
    <3>3. RuntimeOk(b)'
      BY <1>1, <3>1, <3>2 DEF Undisturbed, Follows, RuntimeOk
    <3>4. QED
      BY <1>1, <3>1, <3>2, <3>3 DEF Undisturbed, Follows
  <2>3. QED
    BY <2>1, <2>2
<1>3. QED
  BY <1>1, <1>2 DEF Promise

LEMMA SocketFollows ==
    ASSUME TypeOK, Promise, NEW a \in Agents, sock[a] # None, NEW force \in BOOLEAN
    PROVE  StreamOk(history, a, Base(a), Pushed(sock[a], FrameFor(room, a, sock[a].cursor), force))
<1>1. /\ sock[a] \in Sockets /\ history \in Histories /\ Base(a) \in Nat /\ room \in Records
  BY AgentTypes, BaseFacts
<1>2. WireOk(history, a, Base(a), sock[a]) /\ RecordOk(room, history)
  BY DEF Promise, Follows, StreamOk
<1>3. QED
  BY <1>1, <1>2, PushOk

\* A socket that starts again from what the runtime has received.
LEMMA StartsAgain ==
    ASSUME TypeOK, Promise, NEW a \in Agents, NEW s \in Sockets, NEW force \in BOOLEAN,
           NEW w \in Seq(Frames), s = [cursor |-> cursor[a], wire |-> w],
           w = <<>> \/ (sock[a] # None /\ w = sock[a].wire)
    PROVE  StreamOk(history, a, Base(a), Pushed(s, FrameFor(room, a, s.cursor), force))
<1>1. /\ history \in Histories /\ Base(a) \in Nat /\ room \in Records /\ cursor[a] \in Nat
      /\ cursor[a] <= Base(a)
  BY AgentTypes, BaseFacts
<1>2. RecordOk(room, history) /\ cursor[a] <= Len(history)
  BY DEF Promise, Follows, RuntimeOk
<1>3. News(history, a, Base(a), s.cursor) = {}
  BY <1>1 DEF News
<1>4. ASSUME NEW k \in 1..Len(w)
      PROVE  /\ Tells(history, a, w[k], w[k].cursor)
             /\ News(history, a, Base(a), w[k].cursor) \subseteq Carried(w, k)
  <2>1. CASE w = <<>>
    BY <2>1
  <2>2. CASE sock[a] # None /\ w = sock[a].wire
    BY <2>2 DEF Promise, Follows, StreamOk, WireOk
  <2>3. QED
    BY <2>1, <2>2
<1>5. WireOk(history, a, Base(a), s)
  BY <1>2, <1>3, <1>4 DEF WireOk
<1>6. QED
  BY <1>1, <1>2, <1>5, PushOk

LEMMA NotAhead ==
    ASSUME TypeOK, Promise, NEW a \in Agents
    PROVE  /\ room.next = Len(history) /\ cursor[a] <= Len(history)
           /\ Lower(cursor[a], room.next) = cursor[a]
<1>1. room.next \in Nat /\ cursor[a] \in Nat
  BY AgentTypes, RecordTypes
<1>2. RecordOk(room, history) /\ RuntimeOk(a)
  BY DEF Promise, Follows
<1>3. room.next = Len(history) /\ cursor[a] <= Len(history)
  BY <1>2 DEF RecordOk, RuntimeOk
<1>4. Lower(cursor[a], room.next) = cursor[a]
  BY <1>1, <1>3 DEF Lower
<1>5. QED
  BY <1>3, <1>4

LEMMA ConnectStep ==
    ASSUME TypeOK, NEW a \in Residents, Connect(a)
    PROVE  TypeOK' /\ (Promise => Promise')
<1> DEFINE c == Lower(cursor[a], room.next)
           first == Pushed([cursor |-> 0, wire |-> <<>>], FrameFor(room, a, c), TRUE)
           next(b) == Pushed(sock[b], FrameFor(room, b, sock[b].cursor), TRUE)
<1>1. /\ sock[a] = None /\ a \in Agents /\ UNCHANGED roomvars /\ UNCHANGED rtvars
      /\ held' = held /\ reply' = reply
  BY DEF Connect, Agents
<1>2. PICK known \in BOOLEAN :
        sock' = [b \in Agents |-> IF b = a THEN first
                                  ELSE IF sock[b] = None \/ known THEN sock[b] ELSE next(b)]
  BY DEF Connect
<1>3. /\ room' = room /\ uploads' = uploads /\ history' = history /\ overwritten' = overwritten
  BY <1>1 DEF roomvars
<1>4. /\ room \in Records /\ history \in Histories /\ cursor[a] \in 0..MaxEntries
      /\ cursor[a] \in Nat /\ MaxEntries \in Nat /\ room.next \in 0..MaxEntries /\ <<>> \in Seq(Frames)
  BY <1>1, AgentTypes, RecordTypes
<1>5. c \in 0..MaxEntries
  BY <1>4 DEF Lower
<1>6. FrameFor(room, a, c) \in Frames
  BY <1>1, <1>4, <1>5, FrameTypes
<1>7. first \in Sockets
  <2>1. [cursor |-> 0, wire |-> <<>>] \in Sockets
    BY <1>4 DEF Sockets
  <2>2. QED
    BY <1>6, <2>1, PushedTypes
<1>8. ASSUME NEW b \in Agents, sock[b] # None PROVE next(b) \in Sockets
  <2>1. sock[b] \in Sockets /\ sock[b].cursor \in 0..MaxEntries
    BY <1>8, AgentTypes, SocketTypes
  <2>2. QED
    BY <1>4, <2>1, FrameTypes, PushedTypes
<1>9. sock' \in [Agents -> Sockets \cup {None}]
  <2> HIDE DEF first, next
  <2>1. QED
    BY <1>2, <1>7, <1>8 DEF TypeOK
<1>10. TypeOK'
  BY <1>1, <1>3, <1>9 DEF TypeOK, rtvars, turnvars
<1>11. ASSUME Promise PROVE Promise'
  <2>1. c = cursor[a]
    BY <1>1, <1>11, NotAhead
  <2> DEFINE s == [cursor |-> cursor[a], wire |-> <<>>]
  <2>2. first = Pushed(s, FrameFor(room, a, s.cursor), TRUE)
    BY <2>1 DEF Pushed
  <2>3. s \in Sockets
    BY <1>4 DEF Sockets
  <2>4. StreamOk(history, a, Base(a), first)
    <3>1. s = [cursor |-> cursor[a], wire |-> <<>>]
      OBVIOUS
    <3> HIDE DEF s, first
    <3>2. QED
      BY <1>1, <1>4, <1>11, <2>2, <2>3, <3>1, StartsAgain
  <2>5. ASSUME NEW b \in Agents, sock[b] # None
        PROVE  StreamOk(history, b, Base(b), next(b)) /\ StreamOk(history, b, Base(b), sock[b])
    <3>1. StreamOk(history, b, Base(b), next(b))
      BY <1>11, <2>5, SocketFollows
    <3>2. QED
      BY <1>11, <2>5, <3>1 DEF Promise, Follows
  <2> HIDE DEF first, next
  <2>6. ASSUME NEW b \in Agents, sock'[b] # None PROVE StreamOk(history, b, Base(b), sock'[b])
    BY <1>2, <2>4, <2>5, <2>6
  <2>7. WiresOk(history)
    BY <1>1, <1>11, <2>6 DEF WiresOk, Promise, Follows
  <2>8. RecordOk(room', history) /\ \A u \in uploads' : UploadOk(u, history)
    BY <1>3, <1>11 DEF Promise
  <2>9. QED
    BY <1>1, <1>3, <1>10, <1>11, <2>7, <2>8, QuietStep
<1>12. QED
  BY <1>10, <1>11

LEMMA HeartbeatStep ==
    ASSUME TypeOK, NEW a \in Residents, Heartbeat(a)
    PROVE  TypeOK' /\ (Promise => Promise')
<1> DEFINE c(b) == IF b = a THEN Lower(cursor[a], room.next) ELSE sock[b].cursor
           s(b) == [sock[b] EXCEPT !.cursor = c(b)]
           next(b) == Pushed(s(b), FrameFor(room, b, c(b)), FALSE)
<1>1. /\ sock[a] # None /\ a \in Agents /\ UNCHANGED roomvars /\ UNCHANGED rtvars
      /\ held' = held /\ reply' = reply
      /\ sock' = [b \in Agents |-> IF sock[b] = None THEN None ELSE next(b)]
  BY DEF Heartbeat, Agents
<1>2. /\ room' = room /\ uploads' = uploads /\ history' = history /\ overwritten' = overwritten
  BY <1>1 DEF roomvars
<1>3. /\ room \in Records /\ history \in Histories /\ cursor[a] \in 0..MaxEntries
      /\ cursor[a] \in Nat /\ MaxEntries \in Nat /\ room.next \in 0..MaxEntries
      /\ room.next \in Nat
  BY <1>1, AgentTypes, RecordTypes
<1>4. Lower(cursor[a], room.next) \in 0..MaxEntries
  BY <1>3 DEF Lower
<1>5. ASSUME NEW b \in Agents, sock[b] # None
      PROVE  /\ sock[b] \in Sockets /\ c(b) \in 0..MaxEntries
             /\ s(b) = [cursor |-> c(b), wire |-> sock[b].wire] /\ s(b) \in Sockets
  <2>1. sock[b] \in Sockets /\ sock[b].cursor \in 0..MaxEntries
    BY <1>5, AgentTypes, SocketTypes
  <2>2. c(b) \in 0..MaxEntries
    BY <1>4, <2>1
  <2> HIDE DEF c
  <2>3. QED
    BY <2>1, <2>2 DEF Sockets
<1> HIDE DEF c, s
<1>6. ASSUME NEW b \in Agents, sock[b] # None PROVE next(b) \in Sockets
  BY <1>3, <1>5, <1>6, FrameTypes, PushedTypes
<1>7. sock' \in [Agents -> Sockets \cup {None}]
  <2> HIDE DEF next
  <2>1. QED
    BY <1>1, <1>6
<1>8. TypeOK'
  BY <1>1, <1>2, <1>7 DEF TypeOK, rtvars, turnvars
<1>9. ASSUME Promise PROVE Promise'
  <2>1. Lower(cursor[a], room.next) = cursor[a]
    BY <1>1, <1>9, NotAhead
  <2>2. ASSUME NEW b \in Agents, sock[b] # None PROVE StreamOk(history, b, Base(b), next(b))
    <3>1. /\ s(b) \in Sockets /\ sock[b] \in Sockets /\ sock[b].wire \in Seq(Frames)
          /\ s(b) = [cursor |-> c(b), wire |-> sock[b].wire] /\ s(b).cursor = c(b)
      BY <1>5, <2>2, SocketTypes
    <3>2. CASE b = a
      <4>1. c(b) = cursor[b]
        BY <2>1, <3>2 DEF c
      <4>2. StreamOk(history, b, Base(b), Pushed(s(b), FrameFor(room, b, s(b).cursor), FALSE))
        <5>1. s(b) = [cursor |-> cursor[b], wire |-> sock[b].wire]
          BY <3>1, <4>1
        <5>2. QED
          BY <1>9, <2>2, <3>1, <5>1, StartsAgain
      <4>3. QED
        BY <3>1, <4>2
    <3>3. CASE b # a
      <4>1. c(b) = sock[b].cursor
        BY <3>3 DEF c
      <4>2. s(b) = sock[b]
        BY <3>1, <4>1 DEF Sockets
      <4>3. StreamOk(history, b, Base(b), Pushed(sock[b], FrameFor(room, b, sock[b].cursor), FALSE))
        BY <1>9, <2>2, SocketFollows
      <4>4. QED
        BY <4>1, <4>2, <4>3
    <3>4. QED
      BY <3>2, <3>3
  <2> HIDE DEF next
  <2>3. WiresOk(history)
    BY <1>1, <1>9, <2>2 DEF WiresOk, Promise, Follows
  <2>4. RecordOk(room', history) /\ \A u \in uploads' : UploadOk(u, history)
    BY <1>2, <1>9 DEF Promise
  <2>5. QED
    BY <1>1, <1>2, <1>8, <1>9, <2>3, <2>4, QuietStep
<1>10. QED
  BY <1>8, <1>9

LEMMA LoseStep ==
    ASSUME TypeOK, NEW a \in Residents, Lose(a)
    PROVE  TypeOK' /\ (Promise => Promise')
<1>1. /\ a \in Agents /\ UNCHANGED roomvars /\ UNCHANGED turnvars
      /\ held' = held /\ reply' = reply /\ cursor' = cursor /\ gaps' = gaps
      /\ sock' = [sock EXCEPT ![a] = None]
      /\ late' = [late EXCEPT ![a] = IF reader[a] = None THEN @ ELSE reader[a]]
      /\ reader' = [reader EXCEPT ![a] = None]
  BY DEF Lose, Agents
<1>2. TypeOK'
  BY <1>1 DEF TypeOK, roomvars, turnvars
<1>3. ASSUME Promise PROVE Promise'
  <2>1. /\ late'[a] = (IF reader[a] = None THEN late[a] ELSE reader[a])
        /\ reader'[a] = None /\ sock'[a] = None /\ history' = history
        /\ pending' = pending /\ answered' = answered /\ delivered' = delivered
    BY <1>1 DEF TypeOK, roomvars, turnvars
  <2>2. Follows(a) /\ Settled'[a] = Settled[a]
    BY <1>1, <1>3, <2>1 DEF Promise, Settled
  <2>3. RuntimeOk(a)'
    BY <1>1, <2>1, <2>2 DEF Follows, RuntimeOk
  <2>4. Follows(a)'
    BY <1>1, <2>1, <2>2, <2>3 DEF Follows
  <2>5. \A b \in Agents \ {a} : Undisturbed(b)
    BY <1>1, <2>1 DEF Undisturbed, TypeOK
  <2>6. QED
    BY <1>1, <1>3, <2>4, <2>5, OneAgentMoves
<1>4. QED
  BY <1>2, <1>3

LEMMA CarriedTail ==
    ASSUME NEW w \in Seq(Frames), w # <<>>
    PROVE  /\ Head(w) = w[1] /\ Head(w) \in Frames
           /\ Tail(w) \in Seq(Frames) /\ Len(Tail(w)) + 1 = Len(w) /\ Len(w) \in Nat
           /\ \A k \in 1..Len(Tail(w)) : Tail(w)[k] = w[k + 1] /\ k + 1 \in 1..Len(w)
           /\ Carried(w, 1) = Head(w).events \cup Head(w).gone
           /\ \A k \in 0..Len(Tail(w)) :
                 Carried(w, k + 1) \subseteq Head(w).events \cup Head(w).gone \cup Carried(Tail(w), k)
<1> DEFINE t == Tail(w)
           m == Len(t)
<1>1. /\ w[1] \in Frames /\ Head(w) = w[1] /\ t \in Seq(Frames) /\ m + 1 = Len(w) /\ m \in Nat
      /\ \A k \in 1..m : t[k] = w[k + 1] /\ k + 1 \in 1..Len(w)
  OBVIOUS
<1> HIDE DEF t, m
<1>2. Carried(w, 1) = w[1].events \cup w[1].gone
  <2>1. \A j : j \in 1..1 <=> j = 1
    OBVIOUS
  <2>2. \A x : x \in Carried(w, 1) <=> \E j \in 1..1 : x \in w[j].events \cup w[j].gone
    BY DEF Carried
  <2>3. QED
    BY <2>1, <2>2
<1>3. ASSUME NEW k \in 0..m, NEW x \in Carried(w, k + 1)
      PROVE  x \in w[1].events \cup w[1].gone \cup Carried(t, k)
  <2>1. PICK j \in 1..(k + 1) : x \in w[j].events \cup w[j].gone
    BY <1>3 DEF Carried
  <2>2. CASE j = 1
    BY <2>1, <2>2
  <2>3. CASE j # 1
    <3>1. j - 1 \in 1..k /\ j - 1 \in 1..m /\ (j - 1) + 1 = j
      BY <1>1, <2>3
    <3>2. t[j - 1] = w[j]
      BY <1>1, <3>1
    <3>3. x \in Carried(t, k)
      BY <2>1, <3>1, <3>2 DEF Carried
    <3>4. QED
      BY <3>3
  <2>4. QED
    BY <2>2, <2>3
<1>4. QED
  BY <1>1, <1>2, <1>3 DEF t, m

\* The frames that are left go on where the first one ends.
LEMMA RestOfWire ==
    ASSUME NEW h \in Histories, NEW a, NEW c \in Nat, NEW s \in Sockets, s.wire # <<>>,
           StreamOk(h, a, c, s), NEW t \in Sockets,
           t = [cursor |-> s.cursor, wire |-> Tail(s.wire)]
    PROVE  LET f == Head(s.wire)
               b == IF f.cursor > c THEN f.cursor ELSE c
           IN  Tells(h, a, f, c) /\ StreamOk(h, a, b, t)
<1> DEFINE w == s.wire
           v == Tail(w)
           f == Head(w)
           b == IF f.cursor > c THEN f.cursor ELSE c
           m == Len(v)
<1>1. w \in Seq(Frames) /\ w # <<>> /\ s.cursor \in Nat
  BY SocketTypes
<1>2. /\ f = w[1] /\ f \in Frames /\ v \in Seq(Frames) /\ m + 1 = Len(w) /\ Len(w) \in Nat
      /\ \A k \in 1..m : v[k] = w[k + 1] /\ k + 1 \in 1..Len(w)
      /\ Carried(w, 1) = f.events \cup f.gone
      /\ \A k \in 0..m : Carried(w, k + 1) \subseteq f.events \cup f.gone \cup Carried(v, k)
  BY <1>1, CarriedTail
<1>3. t.cursor = s.cursor /\ t.wire = v
  OBVIOUS
<1>4. /\ s.cursor <= Len(h) /\ News(h, a, s.cursor, Len(h)) = {}
      /\ News(h, a, c, s.cursor) \subseteq Carried(w, Len(w))
      /\ \A k \in 1..Len(w) : /\ Tells(h, a, w[k], w[k].cursor)
                              /\ News(h, a, c, w[k].cursor) \subseteq Carried(w, k)
  BY DEF StreamOk, WireOk
<1> HIDE DEF w, v, m, f
<1>5. m \in Nat /\ f.cursor \in Nat
  <2>1. v \in Seq(Frames) => Len(v) \in Nat
    OBVIOUS
  <2>2. MaxEntries \in Nat
    BY Bounds
  <2>3. QED
    BY <1>2, <2>1, <2>2 DEF Frames, m
<1>6. Tells(h, a, f, f.cursor) /\ News(h, a, c, f.cursor) \subseteq f.events \cup f.gone
  <2>1. 1 \in 1..Len(w)
    BY <1>2, <1>5
  <2>2. QED
    BY <1>2, <1>4, <2>1
<1>7. Tells(h, a, f, c)
  BY <1>6 DEF Tells
<1>8. \A x \in f.events \cup f.gone : x \in Nat /\ x <= f.cursor
  BY <1>5, <1>6 DEF Tells, News
<1>9. b \in Nat /\ f.cursor <= b /\ c <= b
  BY <1>5
<1> HIDE DEF b
<1>10. ASSUME NEW n \in Nat, NEW k \in 0..m, News(h, a, c, n) \subseteq Carried(w, k + 1)
       PROVE  News(h, a, b, n) \subseteq Carried(v, k)
  <2> SUFFICES ASSUME NEW x \in News(h, a, b, n) PROVE x \in Carried(v, k)
    OBVIOUS
  <2>1. x \in News(h, a, c, n) /\ x > b /\ x \in Nat
    BY <1>9 DEF News
  <2>2. x \notin f.events \cup f.gone
    BY <1>5, <1>8, <1>9, <2>1
  <2>3. x \in f.events \cup f.gone \cup Carried(v, k)
    BY <1>2, <1>10, <2>1
  <2>4. QED
    BY <2>2, <2>3
<1>11. News(h, a, b, s.cursor) \subseteq Carried(v, m)
  <2>1. m \in 0..m /\ m + 1 = Len(w)
    BY <1>2, <1>5
  <2>2. QED
    BY <1>1, <1>4, <1>10, <2>1
<1>12. ASSUME NEW k \in 1..m
       PROVE  /\ Tells(h, a, v[k], v[k].cursor)
              /\ News(h, a, b, v[k].cursor) \subseteq Carried(v, k)
  <2>1. v[k] = w[k + 1] /\ k + 1 \in 1..Len(w) /\ k \in 0..m
    BY <1>2, <1>5
  <2>2. v[k] \in Frames
    BY <1>2 DEF m
  <2>3. v[k].cursor \in Nat
    BY <2>2, Bounds DEF Frames
  <2>4. Tells(h, a, v[k], v[k].cursor) /\ News(h, a, c, v[k].cursor) \subseteq Carried(w, k + 1)
    BY <1>4, <2>1
  <2>5. QED
    BY <1>10, <2>1, <2>3, <2>4
<1>13. WireOk(h, a, b, t)
  BY <1>3, <1>4, <1>11, <1>12 DEF WireOk, m
<1>14. StreamOk(h, a, b, t)
  BY <1>3, <1>4, <1>13 DEF StreamOk
<1>15. QED
  BY <1>7, <1>14 DEF w, f, b

\* What is behind the runtime need not be on the wire.
LEMMA StreamLater ==
    ASSUME NEW h, NEW a, NEW b \in Nat, NEW d \in Nat, b <= d, NEW s \in Sockets,
           StreamOk(h, a, b, s)
    PROVE  StreamOk(h, a, d, s)
<1>1. \A n : News(h, a, d, n) \subseteq News(h, a, b, n)
  BY DEF News
<1>2. QED
  BY <1>1 DEF StreamOk, WireOk

LEMMA TakeStep ==
    ASSUME TypeOK, NEW a \in Residents, Take(a)
    PROVE  TypeOK' /\ (Promise => Promise')
<1> DEFINE f == Head(sock[a].wire)
           x == [frame |-> f, through |-> cursor[a]]
           t == [cursor |-> sock[a].cursor, wire |-> Tail(sock[a].wire)]
<1>1. /\ a \in Agents /\ sock[a] # None /\ sock[a].wire # <<>> /\ reader[a] = None
      /\ UNCHANGED roomvars /\ UNCHANGED turnvars /\ held' = held /\ reply' = reply
      /\ cursor' = cursor /\ late' = late /\ gaps' = gaps
      /\ reader' = [reader EXCEPT ![a] = x]
      /\ sock' = [sock EXCEPT ![a].wire = Tail(@)]
  BY DEF Take, Agents
<1>2. /\ sock[a] \in Sockets /\ sock[a].wire \in Seq(Frames) /\ cursor[a] \in 0..MaxEntries
      /\ sock[a].cursor \in 0..MaxEntries /\ cursor[a] \in Nat /\ history \in Histories
  BY <1>1, AgentTypes, SocketTypes
<1>3. f \in Frames /\ Tail(sock[a].wire) \in Seq(Frames)
  BY <1>1, <1>2, CarriedTail
<1>4. x \in Applying /\ t \in Sockets
  BY <1>2, <1>3 DEF Applying, Sockets
<1>5. sock' = [sock EXCEPT ![a] = t]
  <2>1. \A w : [sock[a] EXCEPT !.wire = w] = [cursor |-> sock[a].cursor, wire |-> w]
    BY <1>2 DEF Sockets
  <2>2. QED
    BY <1>1, <2>1 DEF TypeOK
<1>6. TypeOK'
  <2> HIDE DEF x, t
  <2>1. QED
    BY <1>1, <1>4, <1>5 DEF TypeOK, roomvars, turnvars
<1>7. ASSUME Promise PROVE Promise'
  <2>1. Follows(a) /\ Base(a) = cursor[a]
    BY <1>1, <1>7 DEF Promise, Base
  <2>2. StreamOk(history, a, cursor[a], sock[a])
    BY <1>1, <2>1 DEF Follows
  <2> DEFINE b == IF f.cursor > cursor[a] THEN f.cursor ELSE cursor[a]
  <2>3. Tells(history, a, f, cursor[a]) /\ StreamOk(history, a, b, t)
    BY <1>1, <1>2, <1>4, <2>2, RestOfWire
  <2>4. /\ reader'[a] = x /\ sock'[a] = t /\ history' = history
        /\ pending' = pending /\ answered' = answered /\ delivered' = delivered
        /\ x # None
    BY <1>1, <1>4, <1>5, NoneIsNoValue DEF TypeOK, roomvars, turnvars
  <2>5. ApplyingOk(history, a, cursor[a], x)
    BY <1>2, <2>3 DEF ApplyingOk
  <2>6. Settled'[a] = Settled[a]
    BY <1>1, <2>4 DEF Settled
  <2>7. RuntimeOk(a)'
    <3> HIDE DEF x
    <3>1. QED
      BY <1>1, <2>1, <2>4, <2>5, <2>6 DEF Follows, RuntimeOk
  <2>8. Base(a)' = b
    BY <1>1, <2>4 DEF Base
  <2>9. Follows(a)'
    <3> HIDE DEF x, t, b
    <3>1. QED
      BY <1>1, <2>1, <2>3, <2>4, <2>7, <2>8 DEF Follows
  <2>10. \A c \in Agents \ {a} : Undisturbed(c)
    <3> HIDE DEF x, t
    <3>1. QED
      BY <1>1, <1>5, <2>4 DEF Undisturbed, TypeOK
  <2>11. QED
    BY <1>1, <1>7, <2>9, <2>10, OneAgentMoves
<1>8. QED
  BY <1>6, <1>7

-----------------------------------------------------------------------------
(* A runtime that polls *)

\* A wait ends, or a held one begins.
LEMMA WaitMoves ==
    ASSUME TypeOK, NEW a \in Agents, UNCHANGED <<roomvars, sock, rtvars>>,
           NEW x \in 0..MaxEntries \cup {None}, NEW y \in Frames \cup {None},
           held' = [held EXCEPT ![a] = x], reply' = [reply EXCEPT ![a] = y]
    PROVE  /\ TypeOK'
           /\ /\ Promise
              /\ x # None => HeldOk(history, a, cursor[a], x)
              /\ y # None => Tells(history, a, y, cursor[a])
              => Promise'
<1>1. /\ sock' = sock /\ cursor' = cursor /\ reader' = reader /\ late' = late
      /\ pending' = pending /\ ahead' = ahead /\ delivered' = delivered
      /\ answered' = answered /\ gaps' = gaps /\ UNCHANGED roomvars /\ history' = history
  BY DEF rtvars, turnvars, roomvars
<1>2. TypeOK'
  BY <1>1 DEF TypeOK, roomvars
<1>3. ASSUME Promise, x # None => HeldOk(history, a, cursor[a], x),
             y # None => Tells(history, a, y, cursor[a])
      PROVE  Promise'
  <2>1. Follows(a) /\ held'[a] = x /\ reply'[a] = y
    BY <1>3 DEF Promise, TypeOK
  <2>2. Settled' = Settled /\ Base(a)' = Base(a)
    BY <1>1 DEF Settled, Base
  <2>3. RuntimeOk(a)'
    BY <1>1, <2>1, <2>2 DEF Follows, RuntimeOk
  <2>4. Follows(a)'
    BY <1>1, <1>3, <2>1, <2>2, <2>3 DEF Follows
  <2>5. \A b \in Agents \ {a} : Undisturbed(b)
    BY <1>1 DEF Undisturbed, TypeOK
  <2>6. QED
    BY <1>1, <1>3, <2>4, <2>5, OneAgentMoves
<1>4. QED
  BY <1>2, <1>3

\* What the room answers to a wait from c on.
LEMMA AnswerTells ==
    ASSUME TypeOK, Promise, NEW a \in Agents, NEW c \in 0..MaxEntries, c <= cursor[a]
    PROVE  /\ Tells(history, a, FrameFor(room, a, c), cursor[a])
           /\ ~HasNews(FrameFor(room, a, c)) => News(history, a, c, Len(history)) = {}
<1>1. /\ room \in Records /\ history \in Histories /\ cursor[a] \in Nat /\ Len(history) \in Nat
      /\ MaxEntries \in Nat
  BY AgentTypes
<1>2. RecordOk(room, history) /\ cursor[a] <= Len(history)
  BY NotAhead DEF Promise
<1>3. c \in 0..Len(history) /\ c \in Nat
  BY <1>1, <1>2
<1>4. /\ Tells(history, a, FrameFor(room, a, c), c)
      /\ ~HasNews(FrameFor(room, a, c)) => News(history, a, c, Len(history)) = {}
  BY <1>1, <1>2, <1>3, FrameTells DEF Histories
<1>5. QED
  BY <1>1, <1>3, <1>4, TellsLater

LEMMA WaitStep ==
    ASSUME TypeOK, NEW a \in Pollers, Wait(a)
    PROVE  TypeOK' /\ (Promise => Promise')
<1> DEFINE f == FrameFor(room, a, cursor[a])
<1>1. a \in Agents
  BY DEF Agents
<1>2. /\ held[a] = None /\ reply[a] = None /\ UNCHANGED <<roomvars, sock, rtvars>>
      /\ \/ /\ ~HasNews(f)
            /\ held' = [held EXCEPT ![a] = cursor[a]] /\ reply' = reply
         \/ reply' = [reply EXCEPT ![a] = f] /\ held' = held
  BY DEF Wait
<1>3. room \in Records /\ cursor[a] \in 0..MaxEntries /\ cursor[a] \in Nat
      /\ reply' = [reply EXCEPT ![a] = reply'[a]] /\ held' = [held EXCEPT ![a] = held'[a]]
  <2>1. held \in [Agents -> 0..MaxEntries \cup {None}]
        /\ reply \in [Agents -> Frames \cup {None}]
    BY DEF TypeOK
  <2>2. QED
    BY <1>1, <1>2, <2>1, AgentTypes
<1>4. f \in Frames
  BY <1>1, <1>3, FrameTypes
<1>5. ASSUME Promise
      PROVE  /\ Tells(history, a, f, cursor[a])
             /\ ~HasNews(f) => HeldOk(history, a, cursor[a], cursor[a])
  BY <1>1, <1>3, <1>5, AnswerTells DEF HeldOk
<1> HIDE DEF f
<1>6. /\ held'[a] \in {None, cursor[a]} /\ (held'[a] = cursor[a] => ~HasNews(f))
      /\ reply'[a] \in {None, f}
  <2>1. None \notin 0..MaxEntries
    BY NoneIsNoValue
  <2>2. held \in [Agents -> 0..MaxEntries \cup {None}]
        /\ reply \in [Agents -> Frames \cup {None}]
    BY DEF TypeOK
  <2>3. CASE /\ ~HasNews(f)
             /\ held' = [held EXCEPT ![a] = cursor[a]] /\ reply' = reply
    <3>1. held'[a] = cursor[a] /\ reply'[a] = None
      BY <1>1, <1>2, <2>2, <2>3
    <3>2. QED
      BY <2>3, <3>1
  <2>4. CASE reply' = [reply EXCEPT ![a] = f] /\ held' = held
    <3>1. held'[a] = None /\ reply'[a] = f
      BY <1>1, <1>2, <2>2, <2>4
    <3>2. held'[a] # cursor[a]
      BY <1>3, <2>1, <3>1
    <3>3. QED
      BY <3>1, <3>2
  <2>5. QED
    BY <1>2, <2>3, <2>4
<1>7. held'[a] \in 0..MaxEntries \cup {None} /\ reply'[a] \in Frames \cup {None}
  BY <1>3, <1>4, <1>6
<1>8. TypeOK'
  BY <1>1, <1>2, <1>3, <1>7, WaitMoves
<1>9. ASSUME Promise PROVE Promise'
  <2>1. held'[a] # None => HeldOk(history, a, cursor[a], held'[a])
    BY <1>5, <1>6, <1>9
  <2>2. reply'[a] # None => Tells(history, a, reply'[a], cursor[a])
    BY <1>5, <1>6, <1>9
  <2>3. QED
    BY <1>1, <1>2, <1>3, <1>7, <1>9, <2>1, <2>2, WaitMoves
<1>10. QED
  BY <1>8, <1>9

LEMMA WaitEndsStep ==
    ASSUME TypeOK, NEW a \in Pollers, WaitEnds(a)
    PROVE  TypeOK' /\ (Promise => Promise')
<1> DEFINE f == FrameFor(room, a, held[a])
<1>1. /\ a \in Agents /\ held[a] # None /\ UNCHANGED <<roomvars, sock, rtvars>>
      /\ held' = [held EXCEPT ![a] = None] /\ reply' = [reply EXCEPT ![a] = f]
  BY DEF WaitEnds, Agents
<1>2. held[a] \in 0..MaxEntries /\ room \in Records
  BY <1>1, AgentTypes
<1>3. f \in Frames
  BY <1>1, <1>2, FrameTypes
<1>4. ASSUME Promise PROVE Tells(history, a, f, cursor[a])
  <2>1. held[a] <= cursor[a]
    BY <1>1, <1>4 DEF Promise, Follows, HeldOk
  <2>2. QED
    BY <1>1, <1>2, <1>4, <2>1, AnswerTells
<1> HIDE DEF f
<1>5. QED
  BY <1>1, <1>3, <1>4, WaitMoves

LEMMA LoseReplyStep ==
    ASSUME TypeOK, NEW a \in Pollers, LoseReply(a)
    PROVE  TypeOK' /\ (Promise => Promise')
<1>1. /\ a \in Agents /\ UNCHANGED <<roomvars, sock, rtvars>> /\ held' = held
      /\ reply' = [reply EXCEPT ![a] = None]
  BY DEF LoseReply, Agents
<1>2. held' = [held EXCEPT ![a] = held[a]] /\ held[a] \in 0..MaxEntries \cup {None}
  BY <1>1 DEF TypeOK
<1>3. Promise => (held[a] # None => HeldOk(history, a, cursor[a], held[a]))
  BY <1>1 DEF Promise, Follows
<1>4. QED
  BY <1>1, <1>2, <1>3, WaitMoves

LEMMA TakeReplyStep ==
    ASSUME TypeOK, NEW a \in Pollers, TakeReply(a)
    PROVE  TypeOK' /\ (Promise => Promise')
<1> DEFINE f == reply[a]
           x == [frame |-> f, through |-> cursor[a]]
<1>1. /\ a \in Agents /\ f # None /\ reader[a] = None
      /\ UNCHANGED roomvars /\ UNCHANGED turnvars /\ sock' = sock /\ held' = held
      /\ cursor' = cursor /\ late' = late /\ gaps' = gaps
      /\ reader' = [reader EXCEPT ![a] = x]
      /\ reply' = [reply EXCEPT ![a] = None]
  BY DEF TakeReply, Agents
<1>2. f \in Frames /\ cursor[a] \in 0..MaxEntries /\ cursor[a] \in Nat
  BY <1>1, AgentTypes
<1> HIDE DEF f
<1>3. x \in Applying
  BY <1>2 DEF Applying
<1>4. x.through = cursor[a] /\ x.frame = f
  OBVIOUS
<1> HIDE DEF x
<1>5. TypeOK'
  BY <1>1, <1>3 DEF TypeOK, roomvars, turnvars
<1>6. ASSUME Promise PROVE Promise'
  <2>1. Follows(a) /\ Base(a) = cursor[a] /\ Tells(history, a, f, cursor[a])
    BY <1>1, <1>6 DEF Promise, Follows, Base, f
  <2>2. /\ reader'[a] = x /\ reply'[a] = None /\ history' = history
        /\ pending' = pending /\ answered' = answered /\ delivered' = delivered
        /\ x # None
    BY <1>1, <1>3, NoneIsNoValue DEF TypeOK, roomvars, turnvars
  <2>3. ApplyingOk(history, a, cursor[a], x)
    BY <1>2, <1>4, <2>1 DEF ApplyingOk
  <2>4. Settled'[a] = Settled[a]
    BY <1>1, <2>2 DEF Settled
  <2>5. RuntimeOk(a)'
    BY <1>1, <2>1, <2>2, <2>3, <2>4 DEF Follows, RuntimeOk
  <2>6. Base(a)' \in Nat /\ cursor[a] <= Base(a)'
    <3>1. TypeOK' => Base(a)' \in Nat /\ cursor'[a] <= Base(a)'
      BY <1>1, <1>2, <2>2, <1>3, ApplyingTypes DEF Base
    <3>2. QED
      BY <1>1, <1>5, <3>1
  <2>7. sock[a] # None => StreamOk(history, a, Base(a)', sock[a])
    <3>1. sock[a] # None => sock[a] \in Sockets /\ StreamOk(history, a, cursor[a], sock[a])
      BY <1>1, <2>1, AgentTypes DEF Follows
    <3>2. QED
      BY <1>2, <2>6, <3>1, StreamLater
  <2>8. Follows(a)'
    BY <1>1, <2>1, <2>2, <2>5, <2>7 DEF Follows
  <2>9. \A b \in Agents \ {a} : Undisturbed(b)
    BY <1>1, <2>2 DEF Undisturbed, TypeOK
  <2>10. QED
    BY <1>1, <1>6, <2>8, <2>9, OneAgentMoves
<1>7. QED
  BY <1>5, <1>6

-----------------------------------------------------------------------------
(* A frame is applied *)

\* The triggers of a frame wait behind those that wait already.
LEMMA AdvanceTypes ==
    ASSUME TypeOK, NEW a \in Agents, NEW x \in Applying, Advance(a, x)
    PROVE  /\ pending' \in [Agents -> Seq(Sequences1)] /\ cursor' \in [Agents -> 0..MaxEntries]
           /\ gaps' \in [Agents -> SUBSET Sequences1]
           /\ UNCHANGED <<ahead, delivered, answered>>
           /\ Range(pending'[a]) = Range(pending[a]) \cup Triggers(a, Accepted(x))
           /\ gaps'[a] = gaps[a] \cup Seen(a, x.frame.gone)
           /\ cursor'[a] = (IF x.frame.cursor > cursor[a] THEN x.frame.cursor ELSE cursor[a])
           /\ \A b \in Agents \ {a} : /\ pending'[b] = pending[b] /\ gaps'[b] = gaps[b]
                                      /\ cursor'[b] = cursor[b]
<1> DEFINE T == Triggers(a, Accepted(x))
           q == pending[a] \o InOrder(T)
<1>1. /\ pending' = [pending EXCEPT ![a] = q]
      /\ gaps' = [gaps EXCEPT ![a] = @ \cup Seen(a, x.frame.gone)]
      /\ cursor' = [cursor EXCEPT ![a] = IF x.frame.cursor > @ THEN x.frame.cursor ELSE @]
      /\ UNCHANGED <<ahead, delivered, answered>>
  BY DEF Advance
<1>2. /\ x.frame.events \subseteq Sequences1 /\ x.frame.gone \subseteq Sequences1
      /\ x.frame.cursor \in 0..MaxEntries /\ cursor[a] \in 0..MaxEntries
      /\ MaxEntries \in Nat /\ pending[a] \in Seq(Sequences1)
  BY ApplyingTypes, AgentTypes
<1>3. T \in SUBSET (1..MaxEntries)
  BY <1>2 DEF Triggers, Accepted, Sequences1
<1> HIDE DEF T
<1>4. InOrder(T) \in Seq(T) /\ Range(InOrder(T)) = T
  BY <1>2, <1>3, Ordered
<1>5. InOrder(T) \in Seq(Sequences1)
  <2>1. T \subseteq Sequences1
    BY <1>3 DEF Sequences1
  <2>2. QED
    BY <1>4, <2>1, WiderSequences
<1>6. q \in Seq(Sequences1) /\ Range(q) = Range(pending[a]) \cup T
  BY <1>2, <1>4, <1>5, RangeConcatenation
<1> HIDE DEF q
<1>7. Seen(a, x.frame.gone) \subseteq Sequences1
  BY <1>2 DEF Seen
<1>8. /\ pending' \in [Agents -> Seq(Sequences1)] /\ gaps' \in [Agents -> SUBSET Sequences1]
      /\ cursor' \in [Agents -> 0..MaxEntries]
  BY <1>1, <1>2, <1>6, <1>7 DEF TypeOK
<1>9. QED
  BY <1>1, <1>6, <1>8 DEF TypeOK, T

\* What is accepted or announced as gone is all there is up to the frame's cursor.
LEMMA AdvanceSettles ==
    ASSUME TypeOK, Promise, NEW a \in Agents, NEW x \in Applying,
           ApplyingOk(history, a, cursor[a], x), Advance(a, x)
    PROVE  /\ cursor'[a] \in Nat /\ cursor[a] <= cursor'[a] /\ cursor'[a] <= Len(history)
           /\ Settled'[a] = News(history, a, 0, cursor'[a])
<1> DEFINE f == x.frame
           answers == {s \in Sequences1 : answered[a][s] > 0}
<1>1. /\ answered' = answered
      /\ Range(pending'[a]) = Range(pending[a]) \cup Triggers(a, Accepted(x))
      /\ gaps'[a] = gaps[a] \cup Seen(a, f.gone)
      /\ cursor'[a] = (IF f.cursor > cursor[a] THEN f.cursor ELSE cursor[a])
  BY AdvanceTypes
<1>2. /\ f.cursor \in Nat /\ x.through \in Nat /\ cursor[a] \in Nat /\ delivered[a] \in Nat
      /\ Len(history) \in Nat
  BY ApplyingTypes, AgentTypes
<1>3. /\ x.through <= cursor[a] /\ f.cursor <= Len(history)
      /\ f.events \subseteq News(history, a, 0, f.cursor)
      /\ f.gone \subseteq 1..f.cursor
      /\ News(history, a, x.through, f.cursor) \subseteq f.events \cup f.gone
  BY DEF ApplyingOk, Tells
<1>4. /\ cursor[a] <= Len(history) /\ delivered[a] <= cursor[a]
      /\ Range(pending[a]) \cup gaps[a] \cup answers = News(history, a, 0, cursor[a])
  BY DEF Promise, Follows, RuntimeOk, Settled
<1>5. Settled'[a] = Range(pending[a]) \cup Triggers(a, Accepted(x)) \cup gaps[a]
                      \cup Seen(a, f.gone) \cup answers
  BY <1>1 DEF Settled
<1> HIDE DEF answers, f
<1>6. cursor'[a] \in Nat /\ cursor[a] <= cursor'[a] /\ f.cursor <= cursor'[a]
      /\ (cursor'[a] = cursor[a] \/ cursor'[a] = f.cursor) /\ cursor'[a] <= Len(history)
  BY <1>1, <1>2, <1>3, <1>4
<1>7. Triggers(a, Accepted(x)) \subseteq f.events
  BY DEF Triggers, Accepted, f
<1>8. ASSUME NEW s \in Settled'[a] PROVE s \in News(history, a, 0, cursor'[a])
  <2>1. CASE s \in Range(pending[a]) \cup gaps[a] \cup answers
    <3>1. s \in News(history, a, 0, cursor[a])
      BY <1>4, <2>1
    <3>2. QED
      BY <1>2, <1>6, <3>1 DEF News
  <2>2. CASE s \in Triggers(a, Accepted(x))
    <3>1. s \in News(history, a, 0, f.cursor)
      BY <1>3, <1>7, <2>2
    <3>2. QED
      BY <1>2, <1>6, <3>1 DEF News
  <2>3. CASE s \in Seen(a, f.gone)
    <3>1. s \in 1..f.cursor /\ a \in history[s]
      BY <1>3, <2>3 DEF Seen
    <3>2. QED
      BY <1>2, <1>6, <3>1 DEF News
  <2>4. QED
    BY <1>5, <1>8, <2>1, <2>2, <2>3
<1>9. ASSUME NEW s \in News(history, a, 0, cursor'[a]) PROVE s \in Settled'[a]
  <2>1. s \in Nat /\ s >= 1 /\ s <= cursor'[a] /\ a \in history[s]
    BY <1>6 DEF News
  <2>2. CASE s <= cursor[a]
    <3>1. s \in News(history, a, 0, cursor[a])
      BY <1>2, <2>1, <2>2 DEF News
    <3>2. QED
      BY <1>4, <1>5, <3>1
  <2>3. CASE s > cursor[a]
    <3>1. s \in 1..f.cursor /\ s > x.through /\ s > delivered[a] /\ s \in 1..Len(history)
      BY <1>2, <1>3, <1>4, <1>6, <2>1, <2>3
    <3>2. s \in f.events \cup f.gone
      BY <1>3, <2>1, <3>1 DEF News
    <3>3. CASE s \in f.gone
      BY <1>5, <2>1, <3>1, <3>3 DEF Seen
    <3>4. CASE s \in f.events
      <4>1. s \in Range(pending[a]) \cup Triggers(a, Accepted(x))
        BY <3>1, <3>4 DEF Triggers, Accepted, f
      <4>2. QED
        BY <1>5, <4>1
    <3>5. QED
      BY <3>2, <3>3, <3>4
  <2>4. QED
    BY <1>2, <2>1, <2>2, <2>3
<1>10. QED
  BY <1>6, <1>8, <1>9

\* A trigger that waits or has had its turn is not queued again.
LEMMA AdvanceOnce ==
    ASSUME TypeOK, \A b \in Agents : Once(b), NEW a \in Agents, NEW x \in Applying, Advance(a, x)
    PROVE  \A b \in Agents : Once(b)'
<1> DEFINE T == Triggers(a, Accepted(x))
           p == pending[a]
           o == InOrder(T)
<1>1. /\ ahead' = ahead /\ delivered' = delivered /\ answered' = answered
      /\ Range(pending'[a]) = Range(p) \cup T
      /\ \A b \in Agents \ {a} : pending'[b] = pending[b]
  BY AdvanceTypes
<1>2. /\ p \in Seq(Sequences1) /\ MaxEntries \in Nat /\ pending'[a] = p \o o
      /\ delivered[a] \in Nat
  BY AgentTypes DEF Advance, TypeOK
<1>3. x.frame.events \subseteq Sequences1
  BY ApplyingTypes
<1>4. T \in SUBSET (1..MaxEntries) /\ \A s \in T : s > delivered[a] /\ s \notin Range(p)
  BY <1>3 DEF Triggers, Accepted, Sequences1
<1> HIDE DEF T
<1>5. /\ o \in Seq(Sequences1) /\ Range(o) = T
      /\ \A i, j \in 1..Len(o) : o[i] = o[j] => i = j
  <2>1. o \in Seq(T) /\ Range(o) = T /\ \A i, j \in 1..Len(o) : o[i] = o[j] => i = j
    BY <1>2, <1>4, Ordered
  <2>2. T \subseteq Sequences1
    BY <1>4 DEF Sequences1
  <2>3. QED
    BY <2>1, <2>2, WiderSequences
<1>6. Once(a)
  OBVIOUS
<1> HIDE DEF o, p
<1>7. /\ Len(p \o o) = Len(p) + Len(o)
      /\ \A i \in 1..Len(p) : (p \o o)[i] = p[i]
      /\ \A k \in 1..Len(o) : (p \o o)[Len(p) + k] = o[k]
  BY <1>2, <1>5, JoinedSequences
<1>8. Len(p) \in Nat /\ Len(o) \in Nat
  BY <1>2, <1>5
<1>9. Range(p) = {p[i] : i \in 1..Len(p)} /\ Range(o) = {o[i] : i \in 1..Len(o)}
  <2>1. Range(p) = {p[i] : i \in 1..Len(p)}
    BY <1>2, RangeEquality
  <2>2. Range(o) = {o[i] : i \in 1..Len(o)}
    BY <1>5, RangeEquality
  <2>3. QED
    BY <2>1, <2>2
<1>10. \A i \in 1..Len(p \o o) : \/ i \in 1..Len(p) /\ (p \o o)[i] = p[i] /\ p[i] \in Range(p)
                                 \/ /\ i - Len(p) \in 1..Len(o) /\ i > Len(p)
                                    /\ (p \o o)[i] = o[i - Len(p)] /\ o[i - Len(p)] \in T
  <2> SUFFICES ASSUME NEW i \in 1..Len(p \o o)
               PROVE  \/ i \in 1..Len(p) /\ (p \o o)[i] = p[i] /\ p[i] \in Range(p)
                      \/ /\ i - Len(p) \in 1..Len(o) /\ i > Len(p)
                         /\ (p \o o)[i] = o[i - Len(p)] /\ o[i - Len(p)] \in T
    OBVIOUS
  <2>1. CASE i <= Len(p)
    BY <1>7, <1>8, <1>9, <2>1
  <2>2. CASE i > Len(p)
    <3>1. i - Len(p) \in 1..Len(o) /\ Len(p) + (i - Len(p)) = i
      BY <1>7, <1>8, <2>2
    <3>2. (p \o o)[i] = o[i - Len(p)]
      BY <1>7, <3>1
    <3>3. o[i - Len(p)] \in T
      BY <1>5, <1>9, <3>1
    <3>4. QED
      BY <2>2, <3>1, <3>2, <3>3
  <2>3. QED
    BY <1>7, <1>8, <2>1, <2>2
<1>11. \A i, j \in 1..Len(pending'[a]) : pending'[a][i] = pending'[a][j] => i = j
  <2> SUFFICES ASSUME NEW i \in 1..Len(p \o o), NEW j \in 1..Len(p \o o),
                      (p \o o)[i] = (p \o o)[j]
               PROVE  i = j
    BY <1>2
  <2>1. CASE i \in 1..Len(p) /\ j \in 1..Len(p)
    BY <1>6, <1>7, <2>1 DEF Once, p
  <2>2. CASE i \notin 1..Len(p) /\ j \notin 1..Len(p)
    <3>1. o[i - Len(p)] = o[j - Len(p)] /\ i - Len(p) \in 1..Len(o) /\ j - Len(p) \in 1..Len(o)
      BY <1>10, <2>2
    <3>2. i - Len(p) = j - Len(p)
      BY <1>5, <3>1
    <3>3. i \in Int /\ j \in Int
      BY <1>7, <1>8
    <3>4. QED
      BY <1>8, <3>2, <3>3
  <2>3. CASE i \in 1..Len(p) /\ j \notin 1..Len(p)
    <3>1. p[i] \in Range(p) /\ (p \o o)[i] = p[i]
      BY <1>7, <1>9, <2>3
    <3>2. (p \o o)[j] \in T
      BY <1>10, <2>3
    <3>3. QED
      BY <1>4, <3>1, <3>2
  <2>4. CASE i \notin 1..Len(p) /\ j \in 1..Len(p)
    <3>1. p[j] \in Range(p) /\ (p \o o)[j] = p[j]
      BY <1>7, <1>9, <2>4
    <3>2. (p \o o)[i] \in T
      BY <1>10, <2>4
    <3>3. QED
      BY <1>4, <3>1, <3>2
  <2>5. QED
    BY <2>1, <2>2, <2>3, <2>4
<1>12. Once(a)'
  <2>1. \A s \in Sequences1 :
           /\ answered[a][s] <= 1
           /\ answered[a][s] > 0 =>
                 s \in ahead[a] \/ (s <= delivered[a] /\ s \notin Range(p))
    BY <1>6 DEF Once, p
  <2>2. \A s \in Sequences1 :
           answered[a][s] > 0 =>
              s \in ahead[a] \/ (s <= delivered[a] /\ s \notin Range(p) \cup T)
    <3> SUFFICES ASSUME NEW s \in Sequences1, answered[a][s] > 0, s \notin ahead[a]
                 PROVE  s <= delivered[a] /\ s \notin Range(p) \cup T
      OBVIOUS
    <3>1. s <= delivered[a] /\ s \notin Range(p)
      BY <2>1
    <3>2. s \in Nat
      BY <1>2 DEF Sequences1
    <3>3. s \notin T
      BY <1>2, <1>4, <3>1, <3>2
    <3>4. QED
      BY <3>1, <3>3
  <2>3. ahead[a] \subseteq Range(p) \cup T /\ \A s \in ahead[a] : answered[a][s] > 0
    BY <1>6 DEF Once, p
  <2>4. /\ ahead'[a] = ahead[a] /\ delivered'[a] = delivered[a] /\ answered'[a] = answered[a]
        /\ Range(pending'[a]) = Range(p) \cup T
    BY <1>1 DEF p
  <2>5. QED
    BY <1>11, <2>1, <2>2, <2>3, <2>4 DEF Once
<1>13. ASSUME NEW b \in Agents, b # a PROVE Once(b)'
  BY <1>1, <1>13 DEF Once
<1>14. QED
  BY <1>12, <1>13

\* The step of a runtime that moves its cursor forward, its wires untouched.
LEMMA CursorMoves ==
    ASSUME TypeOK, TypeOK', Promise, NEW a \in Agents,
           UNCHANGED <<roomvars, wirevars, delivered>>,
           cursor'[a] \in Nat, cursor[a] <= cursor'[a], cursor'[a] <= Len(history),
           Settled'[a] = News(history, a, 0, cursor'[a]),
           Base(a)' \in Nat, Base(a) <= Base(a)',
           reader'[a] \in {reader[a], None}, late'[a] \in {late[a], None},
           \A b \in Agents \ {a} : Undisturbed(b)
    PROVE  Promise'
<1>1. history' = history /\ sock' = sock /\ held' = held /\ reply' = reply
      /\ delivered' = delivered /\ UNCHANGED roomvars
  BY DEF roomvars, wirevars
<1>2. Follows(a)
  BY DEF Promise
<1>3. cursor[a] \in Nat /\ delivered[a] \in Nat /\ Base(a) \in Nat
  BY AgentTypes, BaseFacts
<1>4. ASSUME NEW x \in Applying, ApplyingOk(history, a, cursor[a], x)
      PROVE  ApplyingOk(history, a, cursor'[a], x)
  <2>1. x.through \in Nat
    BY ApplyingTypes
  <2>2. QED
    BY <1>3, <1>4, <2>1 DEF ApplyingOk
<1>5. reader'[a] # None => ApplyingOk(history, a, cursor'[a], reader'[a])
  BY <1>2, <1>4, AgentTypes DEF Follows, RuntimeOk
<1>6. late'[a] # None => ApplyingOk(history, a, cursor'[a], late'[a])
  BY <1>2, <1>4, AgentTypes DEF Follows, RuntimeOk
<1>7. delivered'[a] <= cursor'[a]
  <2>1. delivered[a] <= cursor[a]
    BY <1>2 DEF Follows, RuntimeOk
  <2>2. QED
    BY <1>1, <1>3, <2>1
<1>8. RuntimeOk(a)'
  BY <1>1, <1>5, <1>6, <1>7 DEF RuntimeOk
<1>9. reply[a] # None => Tells(history, a, reply[a], cursor'[a])
  BY <1>2, <1>3, TellsLater DEF Follows
<1>10. held[a] # None => HeldOk(history, a, cursor'[a], held[a])
  <2>1. held[a] # None => held[a] \in Nat
    BY AgentTypes
  <2>2. QED
    BY <1>2, <1>3, <2>1 DEF Follows, HeldOk
<1>11. sock[a] # None => StreamOk(history, a, Base(a)', sock[a])
  <2>1. sock[a] # None => sock[a] \in Sockets /\ StreamOk(history, a, Base(a), sock[a])
    BY <1>2, AgentTypes DEF Follows
  <2>2. QED
    BY <1>3, <2>1, StreamLater
<1>12. Follows(a)'
  BY <1>1, <1>8, <1>9, <1>10, <1>11 DEF Follows
<1>13. QED
  BY <1>1, <1>12, OneAgentMoves

LEMMA ApplyStep ==
    ASSUME TypeOK, NEW a \in Agents, Apply(a)
    PROVE  TypeOK' /\ (Promise => Promise')
<1> DEFINE x == reader[a]
<1>1. /\ x # None /\ Advance(a, x) /\ UNCHANGED <<roomvars, wirevars>> /\ late' = late
      /\ reader' = [reader EXCEPT ![a] = None]
  BY DEF Apply
<1>2. x \in Applying
  BY <1>1, AgentTypes
<1> HIDE DEF x
<1>3. /\ pending' \in [Agents -> Seq(Sequences1)] /\ cursor' \in [Agents -> 0..MaxEntries]
      /\ gaps' \in [Agents -> SUBSET Sequences1]
      /\ ahead' = ahead /\ delivered' = delivered /\ answered' = answered
      /\ cursor'[a] = (IF x.frame.cursor > cursor[a] THEN x.frame.cursor ELSE cursor[a])
      /\ \A b \in Agents \ {a} : /\ pending'[b] = pending[b] /\ gaps'[b] = gaps[b]
                                 /\ cursor'[b] = cursor[b]
  BY <1>1, <1>2, AdvanceTypes
<1>4. TypeOK'
  BY <1>1, <1>3 DEF TypeOK, roomvars, wirevars
<1>5. ASSUME Promise PROVE Promise'
  <2>1. ApplyingOk(history, a, cursor[a], x)
    BY <1>1, <1>5 DEF Promise, Follows, RuntimeOk, x
  <2>2. /\ cursor'[a] \in Nat /\ cursor[a] <= cursor'[a] /\ cursor'[a] <= Len(history)
        /\ Settled'[a] = News(history, a, 0, cursor'[a])
    BY <1>1, <1>2, <1>5, <2>1, AdvanceSettles
  <2>3. reader'[a] = None
    BY <1>1 DEF TypeOK
  <2>4. Base(a)' = cursor'[a] /\ Base(a) = cursor'[a]
    BY <1>1, <1>3, <2>3 DEF Base, x
  <2>5. Base(a)' \in Nat /\ Base(a) <= Base(a)'
    BY <2>2, <2>4
  <2>6. \A b \in Agents \ {a} : Undisturbed(b)
    BY <1>1, <1>3 DEF Undisturbed, TypeOK, wirevars
  <2>7. QED
    BY <1>1, <1>3, <1>4, <1>5, <2>2, <2>3, <2>5, <2>6, CursorMoves
<1>6. QED
  BY <1>4, <1>5

LEMMA ApplyLateStep ==
    ASSUME TypeOK, NEW a \in Agents, ApplyLate(a)
    PROVE  TypeOK' /\ (Promise => Promise')
<1> DEFINE x == late[a]
<1>1. /\ x # None /\ Advance(a, x) /\ UNCHANGED <<roomvars, wirevars>> /\ reader' = reader
      /\ late' = [late EXCEPT ![a] = None]
  BY DEF ApplyLate
<1>2. x \in Applying
  BY <1>1, AgentTypes
<1> HIDE DEF x
<1>3. /\ pending' \in [Agents -> Seq(Sequences1)] /\ cursor' \in [Agents -> 0..MaxEntries]
      /\ gaps' \in [Agents -> SUBSET Sequences1]
      /\ ahead' = ahead /\ delivered' = delivered /\ answered' = answered
      /\ \A b \in Agents \ {a} : /\ pending'[b] = pending[b] /\ gaps'[b] = gaps[b]
                                 /\ cursor'[b] = cursor[b]
  BY <1>1, <1>2, AdvanceTypes
<1>4. TypeOK'
  BY <1>1, <1>3 DEF TypeOK, roomvars, wirevars
<1>5. ASSUME Promise PROVE Promise'
  <2>1. ApplyingOk(history, a, cursor[a], x)
    BY <1>1, <1>5 DEF Promise, Follows, RuntimeOk, x
  <2>2. /\ cursor'[a] \in Nat /\ cursor[a] <= cursor'[a] /\ cursor'[a] <= Len(history)
        /\ Settled'[a] = News(history, a, 0, cursor'[a])
    BY <1>1, <1>2, <1>5, <2>1, AdvanceSettles
  <2>3. late'[a] = None /\ reader'[a] = reader[a]
    BY <1>1 DEF TypeOK
  <2>4. Base(a)' \in Nat /\ Base(a) <= Base(a)'
    <3>1. cursor[a] \in Nat /\ (reader[a] # None => reader[a].frame.cursor \in Nat)
      BY AgentTypes, ApplyingTypes
    <3>2. QED
      BY <2>2, <2>3, <3>1 DEF Base
  <2>5. \A b \in Agents \ {a} : Undisturbed(b)
    BY <1>1, <1>3 DEF Undisturbed, TypeOK, wirevars
  <2>6. QED
    BY <1>1, <1>3, <1>4, <1>5, <2>2, <2>3, <2>4, <2>5, CursorMoves
<1>6. QED
  BY <1>4, <1>5

LEMMA RejoinStep ==
    ASSUME TypeOK, NEW a \in Agents, Rejoin(a)
    PROVE  TypeOK' /\ (Promise => Promise')
<1>1. /\ reader[a] = None /\ UNCHANGED <<roomvars, wirevars>> /\ UNCHANGED turnvars
      /\ reader' = reader /\ late' = late
      /\ cursor' = [cursor EXCEPT ![a] = room.next]
      /\ gaps' = [gaps EXCEPT ![a] = @ \cup Seen(a, cursor[a] + 1 .. room.next)]
  BY DEF Rejoin
<1>2. /\ room.next \in 0..MaxEntries /\ room.next \in Nat /\ cursor[a] \in Nat
      /\ Len(history) \in Nat /\ MaxEntries \in Nat
  BY AgentTypes, RecordTypes
<1>3. Seen(a, cursor[a] + 1 .. room.next) \subseteq Sequences1
  BY <1>2 DEF Seen, Sequences1
<1>4. TypeOK'
  BY <1>1, <1>2, <1>3 DEF TypeOK, roomvars, wirevars, turnvars
<1>5. ASSUME Promise PROVE Promise'
  <2>1. room.next = Len(history) /\ cursor[a] <= Len(history)
    BY <1>5, NotAhead
  <2>2. /\ cursor'[a] = Len(history) /\ pending' = pending /\ answered' = answered
        /\ gaps'[a] = gaps[a] \cup Seen(a, cursor[a] + 1 .. Len(history))
        /\ delivered' = delivered
    BY <1>1, <2>1 DEF TypeOK, turnvars
  <2>3. Settled[a] = News(history, a, 0, cursor[a])
    BY <1>5 DEF Promise, Follows, RuntimeOk
  <2>4. Settled'[a] = Settled[a] \cup Seen(a, cursor[a] + 1 .. Len(history))
    BY <2>2 DEF Settled
  <2>5. Settled'[a] = News(history, a, 0, Len(history))
    BY <1>2, <2>1, <2>3, <2>4 DEF News, Seen
  <2>6. Base(a) = cursor[a] /\ Base(a)' = Len(history)
    BY <1>1, <2>2 DEF Base
  <2>7. \A b \in Agents \ {a} : Undisturbed(b)
    BY <1>1, <2>2 DEF Undisturbed, TypeOK, wirevars
  <2>8. QED
    BY <1>1, <1>2, <1>4, <1>5, <2>1, <2>2, <2>5, <2>6, <2>7, CursorMoves
<1>6. QED
  BY <1>4, <1>5

-----------------------------------------------------------------------------
(* Turns *)

LEMMA SplitSequence ==
    ASSUME NEW S, NEW s \in Seq(S), NEW n \in 0..Len(s)
    PROVE  LET front == SubSeq(s, 1, n)
               rest == SubSeq(s, n + 1, Len(s))
           IN  /\ rest \in Seq(S) /\ Len(rest) = Len(s) - n /\ Len(s) \in Nat
               /\ \A j \in 1..Len(rest) : rest[j] = s[n + j] /\ n + j \in 1..Len(s)
               /\ Range(front) = {s[i] : i \in 1..n}
               /\ Range(s) = Range(front) \cup Range(rest)
<1> DEFINE front == SubSeq(s, 1, n)
           rest == SubSeq(s, n + 1, Len(s))
<1>1. Len(s) \in Nat /\ n \in Nat /\ n <= Len(s) /\ \A i \in 1..Len(s) : s[i] \in S
  OBVIOUS
<1>2. front \in Seq(S) /\ Len(front) = n /\ \A i \in 1..n : front[i] = s[i]
  BY <1>1
<1>3. rest \in Seq(S) /\ Len(rest) = Len(s) - n /\ \A j \in 1..(Len(s) - n) : rest[j] = s[n + j]
  BY <1>1
<1> HIDE DEF front, rest
<1>4. Range(front) = {front[i] : i \in 1..n}
  BY <1>2, RangeEquality
<1>5. Range(rest) = {rest[j] : j \in 1..(Len(s) - n)}
  BY <1>3, RangeEquality
<1>6. Range(s) = {s[i] : i \in 1..Len(s)}
  BY RangeEquality
<1>7. \A j \in 1..(Len(s) - n) : n + j \in 1..Len(s)
  BY <1>1
<1>8. Range(front) = {s[i] : i \in 1..n} /\ \A i \in 1..n : i \in 1..Len(s)
  BY <1>1, <1>2, <1>4
<1>9. ASSUME NEW i \in 1..Len(s) PROVE s[i] \in Range(front) \cup Range(rest)
  <2>1. CASE i <= n
    BY <1>1, <1>8, <2>1
  <2>2. CASE i > n
    <3>1. i - n \in 1..(Len(s) - n) /\ n + (i - n) = i
      BY <1>1, <2>2
    <3>2. rest[i - n] = s[i]
      BY <1>3, <3>1
    <3>3. QED
      BY <1>5, <3>1, <3>2
  <2>3. QED
    BY <1>1, <2>1, <2>2
<1>10. Range(front) \cup Range(rest) \subseteq Range(s)
  BY <1>3, <1>5, <1>6, <1>7, <1>8
<1>11. Range(s) = Range(front) \cup Range(rest)
  BY <1>6, <1>9, <1>10
<1>12. QED
  BY <1>1, <1>3, <1>7, <1>8, <1>11 DEF front, rest

LEMMA GreatestOfBoth ==
    ASSUME NEW n \in Nat, NEW P \in SUBSET (1..n), NEW d \in Nat
    PROVE  \E m \in {d} \cup P : \A x \in {d} \cup P : x <= m
<1>1. CASE P = {}
  BY <1>1
<1>2. CASE P # {}
  <2>1. PICK p \in P : \A x \in P : x <= p
    BY <1>2, Greatest
  <2>2. p \in Nat /\ \A x \in P : x \in Nat
    BY <2>1
  <2>3. CASE d <= p
    BY <2>1, <2>2, <2>3
  <2>4. CASE d > p
    <3>1. \A x \in P : x <= d
      BY <2>1, <2>2, <2>4
    <3>2. QED
      BY <3>1
  <2>5. QED
    BY <2>2, <2>3, <2>4
<1>3. QED
  BY <1>1, <1>2

\* The cursor of the delivered triggers never goes back, and passes what it drops.
LEMMA DeliveredFacts ==
    ASSUME TypeOK, NEW a \in Agents, NEW n \in 0..Len(pending[a])
    PROVE  LET passed == {delivered[a]} \cup {pending[a][i] : i \in 1..n}
           IN  /\ DeliveredThrough(a, n) \in passed
               /\ \A x \in passed : x <= DeliveredThrough(a, n)
<1> DEFINE P == {pending[a][i] : i \in 1..n}
           passed == {delivered[a]} \cup P
           Top(m) == m \in passed /\ \A x \in passed : x <= m
<1>1. /\ pending[a] \in Seq(Sequences1) /\ MaxEntries \in Nat /\ delivered[a] \in Nat
  BY AgentTypes
<1>2. P \in SUBSET (1..MaxEntries)
  BY <1>1 DEF Sequences1
<1>3. DeliveredThrough(a, n) = CHOOSE m \in passed : \A x \in passed : x <= m
  BY DEF DeliveredThrough
<1> HIDE DEF P
<1>4. \E m \in passed : \A x \in passed : x <= m
  BY <1>1, <1>2, GreatestOfBoth
<1> HIDE DEF passed
<1>5. DeliveredThrough(a, n) \in passed /\ \A x \in passed : x <= DeliveredThrough(a, n)
  BY <1>3, <1>4
<1>6. QED
  BY <1>5 DEF passed, P

LEMMA TurnStep ==
    ASSUME TypeOK, \A b \in Agents : Once(b), NEW a \in Agents, Turn(a)
    PROVE  TypeOK' /\ (\A b \in Agents : Once(b)') /\ (Promise => Promise')
<1> DEFINE p == pending[a]
           d == delivered'[a]
<1>1. PICK s \in Range(p) \ ahead[a], n \in 0..Len(p) :
        /\ Range(SubSeq(p, 1, n)) \subseteq ahead[a] \cup {s}
        /\ pending' = [pending EXCEPT ![a] = SubSeq(@, n + 1, Len(@))]
        /\ ahead' = [ahead EXCEPT ![a] = (ahead[a] \cup {s}) \ Range(SubSeq(p, 1, n))]
        /\ delivered' = [delivered EXCEPT ![a] = DeliveredThrough(a, n)]
        /\ answered' = [answered EXCEPT ![a][s] = @ + 1]
        /\ UNCHANGED <<roomvars, wirevars, cursor, reader, late, gaps>>
  BY DEF Turn
<1> DEFINE rest == SubSeq(p, n + 1, Len(p))
           dropped == Range(SubSeq(p, 1, n))
           done == ahead[a] \cup {s}
<1>2. /\ p \in Seq(Sequences1) /\ Range(p) \subseteq Sequences1 /\ ahead[a] \in SUBSET Sequences1
      /\ answered[a] \in [Sequences1 -> Nat] /\ delivered[a] \in 0..MaxEntries /\ MaxEntries \in Nat
      /\ delivered[a] \in Nat /\ cursor[a] \in Nat
  BY AgentTypes
<1>3. /\ rest \in Seq(Sequences1) /\ Len(rest) = Len(p) - n /\ Len(p) \in Nat
      /\ \A j \in 1..Len(rest) : rest[j] = p[n + j] /\ n + j \in 1..Len(p)
      /\ dropped = {p[i] : i \in 1..n}
      /\ Range(p) = dropped \cup Range(rest)
  BY <1>1, <1>2, SplitSequence
<1>4. /\ DeliveredThrough(a, n) \in {delivered[a]} \cup dropped
      /\ \A x \in {delivered[a]} \cup dropped : x <= DeliveredThrough(a, n)
  BY <1>1, <1>3, DeliveredFacts
<1>5. s \in Range(p) /\ s \notin ahead[a] /\ s \in Sequences1 /\ dropped \subseteq done /\ n \in 0..Len(p)
  BY <1>1, <1>2
<1>6. Range(rest) = {rest[j] : j \in 1..Len(rest)}
  BY <1>3, RangeEquality
<1> HIDE DEF rest, dropped
<1>7. /\ pending'[a] = rest /\ ahead'[a] = done \ dropped /\ d = DeliveredThrough(a, n)
      /\ answered'[a] = [answered[a] EXCEPT ![s] = @ + 1]
  BY <1>1 DEF TypeOK, rest, dropped
<1>8. /\ roomvars' = roomvars /\ wirevars' = wirevars
      /\ cursor' = cursor /\ reader' = reader /\ late' = late /\ gaps' = gaps
  BY <1>1
<1>9. \A b \in Agents \ {a} : /\ pending'[b] = pending[b] /\ ahead'[b] = ahead[b]
                              /\ delivered'[b] = delivered[b] /\ answered'[b] = answered[b]
  BY <1>1 DEF TypeOK
<1>10. d \in 0..MaxEntries /\ d \in Nat /\ delivered[a] <= d
  <2>1. {delivered[a]} \cup dropped \subseteq 0..MaxEntries
    <3>1. dropped \subseteq Sequences1
      <4> HIDE DEF p
      <4>1. QED
        BY <1>2, <1>3
    <3>2. Sequences1 \subseteq 0..MaxEntries
      BY <1>2 DEF Sequences1
    <3>3. QED
      BY <1>2, <3>1, <3>2
  <2>2. d \in 0..MaxEntries /\ delivered[a] <= d
    BY <1>4, <1>7, <2>1
  <2>3. QED
    BY <1>2, <2>2
<1>11. answered'[a] \in [Sequences1 -> Nat]
  BY <1>2, <1>7
<1>12. TypeOK'
  <2>1. pending' \in [Agents -> Seq(Sequences1)]
    BY <1>1, <1>3 DEF TypeOK, rest
  <2>2. ahead' \in [Agents -> SUBSET Sequences1]
    BY <1>1, <1>2, <1>5 DEF TypeOK
  <2>3. delivered' \in [Agents -> 0..MaxEntries]
    BY <1>1, <1>7, <1>10 DEF TypeOK
  <2>4. answered' \in [Agents -> [Sequences1 -> Nat]]
    BY <1>1, <1>7, <1>11 DEF TypeOK
  <2>5. QED
    BY <1>8, <2>1, <2>2, <2>3, <2>4 DEF TypeOK, roomvars, wirevars
<1>13. Once(a)
  OBVIOUS
<1>14. \A i, j \in 1..Len(p) : p[i] = p[j] => i = j
  BY <1>13 DEF Once
<1>15. \A i, j \in 1..Len(rest) : rest[i] = rest[j] => i = j
  <2> SUFFICES ASSUME NEW i \in 1..Len(rest), NEW j \in 1..Len(rest), rest[i] = rest[j]
               PROVE  i = j
    OBVIOUS
  <2>1. n + i = n + j
    BY <1>3, <1>14
  <2>2. QED
    BY <1>5, <2>1
<1>16. dropped \cap Range(rest) = {}
  <2> SUFFICES ASSUME NEW x \in dropped, x \in Range(rest) PROVE FALSE
    OBVIOUS
  <2>1. PICK i \in 1..n : x = p[i]
    BY <1>3
  <2>2. PICK j \in 1..Len(rest) : x = rest[j]
    BY <1>6
  <2>3. p[i] = p[n + j] /\ n + j \in 1..Len(p)
    BY <1>3, <2>1, <2>2
  <2>4. i \in 1..Len(p)
    BY <1>3, <1>5, <2>1
  <2>5. i = n + j
    BY <1>14, <2>3, <2>4
  <2>6. QED
    BY <1>5, <2>1, <2>2, <2>5
<1>17. answered[a][s] = 0
  <2>1. answered[a][s] > 0 => s \in ahead[a] \/ s \notin Range(p)
    BY <1>5, <1>13 DEF Once
  <2>2. QED
    BY <1>2, <1>5, <2>1
<1>18. \A x \in done : x \in Range(p) /\ answered'[a][x] > 0
  <2>1. \A x \in ahead[a] : x \in Range(p) /\ answered[a][x] > 0 /\ x # s /\ x \in Sequences1
    BY <1>2, <1>5, <1>13 DEF Once, p
  <2>2. QED
    BY <1>2, <1>5, <1>7, <1>17, <2>1
<1>19. Once(a)'
  <2>1. done \ dropped \subseteq Range(rest)
    BY <1>3, <1>18
  <2>2. ASSUME NEW x \in Sequences1
        PROVE  /\ answered'[a][x] <= 1
               /\ answered'[a][x] > 0 =>
                     x \in done \ dropped \/ (x <= d /\ x \notin Range(rest))
    <3>1. CASE x = s
      <4>1. answered'[a][x] = 1
        BY <1>2, <1>5, <1>7, <1>17, <3>1
      <4>2. x \in dropped => x <= d /\ x \notin Range(rest)
        BY <1>4, <1>7, <1>16
      <4>3. QED
        BY <3>1, <4>1, <4>2
    <3>2. CASE x # s
      <4>1. answered'[a][x] = answered[a][x]
        BY <1>2, <1>5, <1>7, <3>2
      <4>2. /\ answered[a][x] <= 1
            /\ answered[a][x] > 0 => x \in ahead[a] \/ (x <= delivered[a] /\ x \notin Range(p))
        BY <1>13 DEF Once, p
      <4>3. x \in dropped => x <= d /\ x \notin Range(rest)
        BY <1>4, <1>7, <1>16
      <4>4. x <= delivered[a] => x <= d
        BY <1>2, <1>10 DEF Sequences1
      <4>5. QED
        BY <1>3, <4>1, <4>2, <4>3, <4>4
    <3>3. QED
      BY <3>1, <3>2
  <2>3. \A x \in done \ dropped : answered'[a][x] > 0
    BY <1>18
  <2> HIDE DEF done
  <2>4. QED
    BY <1>7, <1>15, <2>1, <2>2, <2>3 DEF Once
<1>20. ASSUME NEW b \in Agents PROVE Once(b)'
  <2>1. CASE b # a
    <3>1. Once(b)
      OBVIOUS
    <3>2. QED
      BY <1>9, <2>1, <3>1 DEF Once
  <2>2. QED
    BY <1>19, <2>1
<1>21. ASSUME Promise PROVE Promise'
  <2>1. Follows(a) /\ Settled[a] = News(history, a, 0, cursor[a]) /\ delivered[a] <= cursor[a]
    BY <1>21 DEF Promise, Follows, RuntimeOk
  <2>2. Settled'[a] = Settled[a]
    <3>1. \A x \in Sequences1 :
             answered'[a][x] > 0 <=> answered[a][x] > 0 \/ x = s
      BY <1>2, <1>5, <1>7
    <3>2. dropped \subseteq {x \in Sequences1 : answered'[a][x] > 0}
      BY <1>2, <1>3, <1>5, <1>18
    <3>3. /\ Settled'[a] = Range(rest) \cup gaps[a] \cup {x \in Sequences1 : answered'[a][x] > 0}
          /\ Settled[a] = Range(p) \cup gaps[a] \cup {x \in Sequences1 : answered[a][x] > 0}
      BY <1>7, <1>8 DEF Settled
    <3> HIDE DEF p
    <3>4. QED
      BY <1>3, <1>5, <3>1, <3>2, <3>3
  <2>3. d <= cursor[a]
    <3>1. dropped \subseteq News(history, a, 0, cursor[a])
      BY <1>3, <2>1 DEF Settled
    <3>2. \A x \in dropped : x <= cursor[a]
      BY <1>2, <3>1 DEF News
    <3>3. QED
      BY <1>4, <1>7, <2>1, <3>2
  <2>4. history' = history /\ sock' = sock /\ held' = held /\ reply' = reply
    BY <1>8 DEF roomvars, wirevars
  <2>5. RuntimeOk(a)'
    BY <1>8, <2>1, <2>2, <2>3, <2>4 DEF Follows, RuntimeOk
  <2>6. Base(a)' = Base(a)
    BY <1>8 DEF Base
  <2>7. Follows(a)'
    BY <1>8, <2>1, <2>4, <2>5, <2>6 DEF Follows
  <2>8. \A b \in Agents \ {a} : Undisturbed(b)
    BY <1>8, <1>9, <2>4 DEF Undisturbed
  <2>9. QED
    BY <1>8, <1>21, <2>7, <2>8, OneAgentMoves
<1>22. QED
  BY <1>12, <1>20, <1>21

-----------------------------------------------------------------------------
(* Every step is one of the log's *)

LEMMA SettledIsNews ==
    ASSUME Promise
    PROVE  Settled = [a \in Agents |-> News(history, a, 0, cursor[a])]
<1>1. \A a \in Agents : Settled[a] = News(history, a, 0, cursor[a])
  BY DEF Promise, Follows, RuntimeOk
<1>2. QED
  BY <1>1 DEF Settled

LogStep == Log!Next \/ UNCHANGED Log!logvars

\* Once the promise is over, everything is allowed.
LEMMA OverIsOver ==
    ASSUME overwritten'
    PROVE  LogStep
  BY DEF LogStep, Log!Next

LEMMA LogRests ==
    ASSUME Promise, Promise', UNCHANGED <<history, cursor, overwritten>>
    PROVE  LogStep
<1>1. Settled' = [a \in Agents |-> News(history, a, 0, cursor[a])]
  <2>1. \A a \in Agents : Settled'[a] = News(history, a, 0, cursor[a])
    BY DEF Promise, Follows, RuntimeOk
  <2>2. QED
    BY <2>1 DEF Settled
<1>2. Settled' = Settled
  BY <1>1, SettledIsNews
<1>3. QED
  BY <1>2 DEF LogStep, Log!logvars

LEMMA LogGrows ==
    ASSUME TypeOK, Promise, Promise', NEW R \in SUBSET Agents, history' = Append(history, R),
           UNCHANGED <<cursor, overwritten>>
    PROVE  LogStep
<1>1. history \in Histories /\ history' \in Histories /\ Extends(history, history')
  BY Longer DEF TypeOK, Histories
<1>2. ASSUME NEW a \in Agents
      PROVE  News(history', a, 0, cursor[a]) = News(history, a, 0, cursor[a])
  <2>1. cursor[a] \in Nat /\ cursor[a] <= Len(history)
    BY AgentTypes DEF Promise, Follows, RuntimeOk
  <2>2. QED
    BY <1>1, <2>1, SameNews
<1>3. \A a \in Agents : Settled'[a] = News(history, a, 0, cursor[a])
  BY <1>2 DEF Promise, Follows, RuntimeOk
<1>4. Settled' = Settled
  BY <1>3, SettledIsNews DEF Settled
<1>5. Log!Record(R)
  BY <1>4 DEF Log!Record
<1>6. QED
  BY <1>5 DEF LogStep, Log!Next

LEMMA LogAdvances ==
    ASSUME TypeOK, Promise, Promise', NEW a \in Agents, UNCHANGED <<history, overwritten>>,
           NEW n \in Nat, cursor' = [cursor EXCEPT ![a] = n], cursor[a] <= n
    PROVE  LogStep
<1>1. cursor \in [Agents -> 0..MaxEntries] /\ cursor[a] \in Nat /\ Len(history) \in Nat
  BY AgentTypes DEF TypeOK
<1>2. cursor'[a] = n /\ \A b \in Agents \ {a} : cursor'[b] = cursor[b]
  BY <1>1
<1>3. n <= Len(history)
  BY <1>2 DEF Promise, Follows, RuntimeOk
<1>4. \A b \in Agents : Settled'[b] = News(history, b, 0, cursor'[b])
  BY DEF Promise, Follows, RuntimeOk
<1>5. News(history, a, 0, n) = Settled[a] \cup Log!VisibleTo(a, n)
  <2>1. News(history, a, 0, n) = Log!VisibleTo(a, n)
    BY DEF News, Log!VisibleTo
  <2>2. Settled[a] = News(history, a, 0, cursor[a])
    BY DEF Promise, Follows, RuntimeOk
  <2>3. News(history, a, 0, cursor[a]) \subseteq News(history, a, 0, n)
    BY <1>1 DEF News
  <2>4. QED
    BY <2>1, <2>2, <2>3
<1>6. Settled' = [Settled EXCEPT ![a] = @ \cup Log!VisibleTo(a, n)]
  <2>1. ASSUME NEW b \in Agents
        PROVE  Settled'[b] = IF b = a THEN Settled[a] \cup Log!VisibleTo(a, n) ELSE Settled[b]
    <3>1. Settled[b] = News(history, b, 0, cursor[b])
      BY DEF Promise, Follows, RuntimeOk
    <3>2. QED
      BY <1>2, <1>4, <1>5, <3>1
  <2>2. DOMAIN Settled = Agents /\ DOMAIN Settled' = Agents
        /\ Settled = [b \in Agents |-> Settled[b]] /\ Settled' = [b \in Agents |-> Settled'[b]]
    BY DEF Settled
  <2>3. QED
    BY <2>1, <2>2
<1>7. Log!Advance(a, n)
  <2>1. n \in cursor[a]..Len(history)
    BY <1>1, <1>3
  <2>2. QED
    BY <1>6, <2>1 DEF Log!Advance
<1>8. n \in 0..Len(history)
  BY <1>1, <1>3
<1>9. QED
  BY <1>7, <1>8 DEF LogStep, Log!Next

\* A step of the whole is one of the log, and keeps the invariant.
Refines == IInv' /\ LogStep

LEMMA RestRefines ==
    ASSUME IInv, TypeOK', \A b \in Agents : Once(b)', Promise => Promise',
           UNCHANGED <<history, cursor, overwritten>>
    PROVE  Refines
<1>1. overwritten \/ Promise
  BY DEF IInv
<1>2. CASE overwritten
  BY <1>2, OverIsOver DEF Refines, IInv
<1>3. CASE ~overwritten
  BY <1>1, <1>3, LogRests DEF Refines, IInv
<1>4. QED
  BY <1>2, <1>3

LEMMA OnceStays ==
    ASSUME \A b \in Agents : Once(b), UNCHANGED turnvars
    PROVE  \A b \in Agents : Once(b)'
  BY DEF Once, turnvars

LEMMA SayRefines ==
    ASSUME IInv, NEW R \in SUBSET Agents, Say(R)
    PROVE  Refines
<1>1. /\ UNCHANGED rtvars /\ overwritten' = overwritten /\ history' = Append(history, R)
  BY DEF Say
<1>2. cursor' = cursor /\ UNCHANGED turnvars
  BY <1>1 DEF rtvars
<1>3. TypeOK /\ (\A b \in Agents : Once(b)) /\ (overwritten \/ Promise)
  BY DEF IInv
<1>4. TypeOK' /\ (Promise => Promise')
  BY <1>3, SayStep
<1>5. \A b \in Agents : Once(b)'
  BY <1>2, <1>3, OnceStays
<1>6. CASE overwritten
  BY <1>1, <1>4, <1>5, <1>6, OverIsOver DEF Refines, IInv
<1>7. CASE ~overwritten
  BY <1>1, <1>2, <1>3, <1>4, <1>5, <1>7, LogGrows DEF Refines, IInv
<1>8. QED
  BY <1>6, <1>7

LEMMA EndUploadRefines ==
    ASSUME IInv, NEW u \in uploads, EndAttachment(u) \/ EndSurface(u)
    PROVE  Refines
<1>1. UNCHANGED rtvars
  BY DEF EndAttachment, EndSurface
<1>2. cursor' = cursor /\ UNCHANGED turnvars
  BY <1>1 DEF rtvars
<1>3. TypeOK /\ (\A b \in Agents : Once(b)) /\ (overwritten \/ Promise)
  BY DEF IInv
<1>4. /\ TypeOK' /\ overwritten' \in BOOLEAN /\ (overwritten => overwritten')
      /\ Promise => \/ overwritten'
                    \/ /\ Promise'
                       /\ history' = history \/ history' = Append(history, u.readers)
  BY <1>3, EndAttachmentStep, EndSurfaceStep
<1>5. \A b \in Agents : Once(b)'
  BY <1>2, <1>3, OnceStays
<1>6. CASE overwritten'
  BY <1>4, <1>5, <1>6, OverIsOver DEF Refines, IInv
<1>7. CASE ~overwritten'
  <2>1. /\ Promise /\ Promise' /\ overwritten' = overwritten
        /\ history' = history \/ history' = Append(history, u.readers)
    <3>1. overwritten \in BOOLEAN
      BY <1>3 DEF TypeOK
    <3>2. QED
      BY <1>3, <1>4, <1>7, <3>1
  <2>2. u.readers \in SUBSET Agents
    BY <1>3 DEF TypeOK, Uploads
  <2>3. LogStep
    BY <1>2, <1>3, <2>1, <2>2, LogRests, LogGrows
  <2>4. QED
    BY <1>4, <1>5, <2>1, <2>3 DEF Refines, IInv
<1>8. QED
  BY <1>6, <1>7

LEMMA RoomRefines ==
    ASSUME IInv, RoomStep
    PROVE  Refines
<1>1. TypeOK /\ \A b \in Agents : Once(b)
  BY DEF IInv
<1>2. ASSUME NEW R \in SUBSET Agents, Say(R) PROVE Refines
  BY <1>2, SayRefines
<1>3. CASE Announce
  <2>1. UNCHANGED roomvars /\ UNCHANGED rtvars
    BY <1>3 DEF Announce
  <2>2. UNCHANGED <<history, cursor, overwritten>> /\ UNCHANGED turnvars
    BY <2>1 DEF roomvars, rtvars
  <2>3. QED
    BY <1>1, <1>3, <2>2, AnnounceStep, OnceStays, RestRefines
<1>4. ASSUME NEW kind \in UploadKinds, NEW R \in SUBSET Agents, BeginUpload(kind, R)
      PROVE  Refines
  <2>1. UNCHANGED <<history, cursor, overwritten>> /\ UNCHANGED turnvars
    BY <1>4 DEF BeginUpload, rtvars
  <2>2. QED
    BY <1>1, <1>4, <2>1, BeginUploadStep, OnceStays, RestRefines
<1>5. ASSUME NEW u \in uploads, EndAttachment(u) \/ EndSurface(u) PROVE Refines
  BY <1>5, EndUploadRefines
<1>6. ASSUME NEW i \in 1..Len(room.attachments), Discard(i) PROVE Refines
  <2>1. UNCHANGED <<history, cursor, overwritten>> /\ UNCHANGED turnvars
    BY <1>6 DEF Discard, rtvars
  <2>2. QED
    BY <1>1, <1>6, <2>1, DiscardStep, OnceStays, RestRefines
<1>7. CASE Restart
  <2>1. UNCHANGED <<history, cursor, overwritten>> /\ UNCHANGED turnvars
    BY <1>7 DEF Restart, rtvars
  <2>2. QED
    BY <1>1, <1>7, <2>1, RestartStep, OnceStays, RestRefines
<1>8. QED
  BY <1>2, <1>3, <1>4, <1>5, <1>6, <1>7 DEF RoomStep

LEMMA WireRefines ==
    ASSUME IInv,
           \/ \E a \in Residents : ResidentStep(a)
           \/ \E a \in Pollers : PollerStep(a)
    PROVE  Refines
<1>1. TypeOK /\ \A b \in Agents : Once(b)
  BY DEF IInv
<1>2. TypeOK' /\ (Promise => Promise')
  BY <1>1, ConnectStep, LoseStep, HeartbeatStep, TakeStep, WaitStep, WaitEndsStep,
     LoseReplyStep, TakeReplyStep DEF ResidentStep, PollerStep
<1>3. UNCHANGED <<history, cursor, overwritten>> /\ UNCHANGED turnvars
  BY DEF ResidentStep, PollerStep, Connect, Lose, Heartbeat, Take, Wait, WaitEnds, LoseReply,
     TakeReply, roomvars, rtvars
<1>4. QED
  BY <1>1, <1>2, <1>3, OnceStays, RestRefines

\* The step of a cursor is an Advance of the log.
LEMMA ForwardRefines ==
    ASSUME IInv, NEW a \in Agents, TypeOK', \A b \in Agents : Once(b)', Promise => Promise',
           UNCHANGED roomvars, NEW n \in Nat, cursor' = [cursor EXCEPT ![a] = n],
           Promise => cursor[a] <= n
    PROVE  Refines
<1>1. TypeOK /\ (overwritten \/ Promise)
  BY DEF IInv
<1>2. history' = history /\ overwritten' = overwritten
  BY DEF roomvars
<1>3. CASE overwritten
  BY <1>2, <1>3, OverIsOver DEF Refines, IInv
<1>4. CASE ~overwritten
  BY <1>1, <1>2, <1>4, LogAdvances DEF Refines, IInv
<1>5. QED
  BY <1>3, <1>4

LEMMA AdvanceRefines ==
    ASSUME IInv, NEW a \in Agents, NEW x \in Applying, Advance(a, x), UNCHANGED roomvars,
           TypeOK', Promise => Promise'
    PROVE  Refines
<1>1. TypeOK /\ \A b \in Agents : Once(b)
  BY DEF IInv
<1>2. \A b \in Agents : Once(b)'
  BY <1>1, AdvanceOnce
<1> DEFINE n == IF x.frame.cursor > cursor[a] THEN x.frame.cursor ELSE cursor[a]
<1>3. x.frame.cursor \in Nat /\ cursor[a] \in Nat
  BY <1>1, AgentTypes, ApplyingTypes
<1>4. n \in Nat /\ cursor[a] <= n
  BY <1>3
<1>5. cursor' = [cursor EXCEPT ![a] = n]
  BY <1>1 DEF Advance, TypeOK
<1> HIDE DEF n
<1>6. QED
  BY <1>2, <1>4, <1>5, ForwardRefines

LEMMA RuntimeRefines ==
    ASSUME IInv, NEW a \in Agents, Apply(a) \/ ApplyLate(a) \/ Rejoin(a) \/ Turn(a)
    PROVE  Refines
<1>1. TypeOK /\ \A b \in Agents : Once(b)
  BY DEF IInv
<1>2. CASE Apply(a)
  <2>1. reader[a] \in Applying /\ Advance(a, reader[a]) /\ UNCHANGED roomvars
    BY <1>1, <1>2, AgentTypes DEF Apply
  <2>2. QED
    BY <1>1, <1>2, <2>1, ApplyStep, AdvanceRefines
<1>3. CASE ApplyLate(a)
  <2>1. late[a] \in Applying /\ Advance(a, late[a]) /\ UNCHANGED roomvars
    BY <1>1, <1>3, AgentTypes DEF ApplyLate
  <2>2. QED
    BY <1>1, <1>3, <2>1, ApplyLateStep, AdvanceRefines
<1>4. CASE Rejoin(a)
  <2>1. UNCHANGED roomvars /\ UNCHANGED turnvars /\ cursor' = [cursor EXCEPT ![a] = room.next]
    BY <1>4 DEF Rejoin
  <2>2. room.next \in Nat
    BY <1>1, AgentTypes, RecordTypes
  <2>3. Promise => cursor[a] <= room.next
    BY <1>1, NotAhead
  <2>4. QED
    BY <1>1, <1>4, <2>1, <2>2, <2>3, RejoinStep, OnceStays, ForwardRefines
<1>5. CASE Turn(a)
  <2>1. UNCHANGED <<history, cursor, overwritten>>
    BY <1>5 DEF Turn, roomvars
  <2>2. QED
    BY <1>1, <1>5, <2>1, TurnStep, RestRefines
<1>6. QED
  BY <1>2, <1>3, <1>4, <1>5

LEMMA StutterRefines ==
    ASSUME IInv, UNCHANGED vars
    PROVE  Refines
<1>1. /\ room' = room /\ uploads' = uploads /\ history' = history /\ overwritten' = overwritten
      /\ sock' = sock /\ held' = held /\ reply' = reply /\ cursor' = cursor
      /\ reader' = reader /\ late' = late /\ pending' = pending /\ ahead' = ahead
      /\ delivered' = delivered /\ answered' = answered /\ gaps' = gaps
  BY DEF vars, roomvars, wirevars, rtvars, turnvars
<1>2. TypeOK' /\ \A b \in Agents : Once(b)'
  BY <1>1 DEF IInv, TypeOK, Once
<1>3. Promise => Promise'
  <2>1. Settled' = Settled
    BY <1>1 DEF Settled
  <2>2. \A b \in Agents : Base(b)' = Base(b)
    BY <1>1 DEF Base
  <2>3. \A b \in Agents : RuntimeOk(b) => RuntimeOk(b)'
    BY <1>1, <2>1 DEF RuntimeOk
  <2>4. \A b \in Agents : Follows(b) => Follows(b)'
    BY <1>1, <2>2, <2>3 DEF Follows
  <2>5. QED
    BY <1>1, <2>4 DEF Promise
<1>4. QED
  BY <1>1, <1>2, <1>3, RestRefines

LEMMA NextRefines ==
    ASSUME IInv, [Next]_vars
    PROVE  Refines
<1>1. CASE UNCHANGED vars
  BY <1>1, StutterRefines
<1>2. CASE Next
  BY <1>2, RoomRefines, WireRefines, RuntimeRefines DEF Next
<1>3. QED
  BY <1>1, <1>2

LEMMA InitRefines ==
    ASSUME Init
    PROVE  IInv /\ Log!Init
<1> DEFINE empty == [next |-> 0, messages |-> <<>>, attachments |-> <<>>]
<1>1. /\ room = empty /\ uploads = {} /\ history = <<>> /\ overwritten = FALSE
      /\ sock = [a \in Agents |-> None] /\ held = sock /\ reply = sock
      /\ reader = sock /\ late = sock
      /\ cursor = [a \in Agents |-> 0] /\ delivered = cursor
      /\ pending = [a \in Agents |-> <<>>]
      /\ answered = [a \in Agents |-> [s \in Sequences1 |-> 0]]
      /\ ahead = [a \in Agents |-> {}] /\ gaps = ahead
  BY DEF Init
<1>2. MaxEntries \in Nat /\ 0 \in 0..MaxEntries /\ <<>> \in Seq(Entries) /\ <<>> \in Seq(Sequences1)
      /\ Len(<<>>) = 0 /\ \A i : i \notin 1..0
  BY Bounds
<1>3. empty \in Records
  BY <1>2 DEF Records
<1>4. TypeOK
  <2> DEFINE none == [a \in Agents |-> None]
  <2>1. /\ none \in [Agents -> Sockets \cup {None}]
        /\ none \in [Agents -> 0..MaxEntries \cup {None}]
        /\ none \in [Agents -> Frames \cup {None}]
        /\ none \in [Agents -> Applying \cup {None}]
        /\ sock = none /\ held = none /\ reply = none /\ reader = none /\ late = none
    BY <1>1
  <2>2. /\ cursor \in [Agents -> 0..MaxEntries] /\ delivered \in [Agents -> 0..MaxEntries]
        /\ pending \in [Agents -> Seq(Sequences1)]
        /\ ahead \in [Agents -> SUBSET Sequences1] /\ gaps \in [Agents -> SUBSET Sequences1]
        /\ answered \in [Agents -> [Sequences1 -> Nat]]
    BY <1>1, <1>2
  <2>3. room \in Records /\ uploads \subseteq Uploads /\ overwritten \in BOOLEAN
    BY <1>1, <1>3
  <2>4. history \in Seq(SUBSET Agents)
    BY <1>1
  <2> HIDE DEF none
  <2>5. QED
    BY <2>1, <2>2, <2>3, <2>4 DEF TypeOK
<1>5. Range(<<>>) = {}
  <2>1. <<>> \in Seq(Entries) => Range(<<>>) = {<<>>[i] : i \in 1..Len(<<>>)}
    BY RangeEquality
  <2>2. QED
    BY <1>2, <2>1
<1>6. ASSUME NEW a \in Agents PROVE Once(a)
  BY <1>1, <1>2, <1>5, <1>6 DEF Once
<1>7. Settled = [a \in Agents |-> {}]
  <2>1. ASSUME NEW a \in Agents PROVE Settled[a] = {}
    BY <1>1, <1>5 DEF Settled
  <2>2. QED
    BY <2>1 DEF Settled
<1>8. RecordOk(room, history)
  <2>1. Retained(room) = {}
    BY <1>1, <1>5 DEF Retained
  <2>2. room.next = Len(history) /\ Len(history) = 0
    BY <1>1
  <2>3. QED
    BY <1>2, <2>1, <2>2 DEF RecordOk
<1>9. ASSUME NEW a \in Agents PROVE Follows(a)
  <2>1. /\ cursor[a] = 0 /\ delivered[a] = 0 /\ sock[a] = None /\ held[a] = None
        /\ reply[a] = None /\ reader[a] = None /\ late[a] = None /\ Len(history) = 0
    BY <1>1
  <2>2. News(history, a, 0, 0) = {}
    BY <1>2 DEF News
  <2>3. QED
    BY <1>7, <2>1, <2>2 DEF Follows, RuntimeOk
<1>10. Promise
  BY <1>1, <1>8, <1>9 DEF Promise
<1>11. Log!Init
  BY <1>1, <1>7 DEF Log!Init
<1>12. QED
  BY <1>4, <1>6, <1>10, <1>11 DEF IInv

-----------------------------------------------------------------------------
(* The theorems *)

\* A frame has events that are after its cursor only.
LEMMA FrameIsNews ==
    ASSUME NEW r \in Records, NEW h \in Histories, RecordOk(r, h), NEW a \in Agents,
           NEW c \in 0..Len(h)
    PROVE  FrameFor(r, a, c).events \subseteq News(h, a, c, Len(h))
<1> DEFINE floor == Floor(SeqsOf(Retained(r)))
           after == IF floor > 0 /\ c < floor - 1 THEN floor - 1 ELSE c
           f == FrameFor(r, a, c)
<1>1. r.next = Len(h) /\ Len(h) \in Nat /\ c \in Nat /\ c <= Len(h)
  BY DEF RecordOk, Histories
<1>2. Lower(c, r.next) = c
  BY <1>1 DEF Lower
<1>3. f.events = SeqsOf({e \in Retained(r) : e.seq > after /\ a \in e.readers})
  BY <1>2 DEF FrameFor
<1>4. floor \in Nat
  <2>1. SeqsOf(Retained(r)) \in SUBSET (1..Len(h))
    BY <1>1 DEF RecordOk, SeqsOf
  <2>2. CASE SeqsOf(Retained(r)) = {}
    BY <2>2 DEF Floor
  <2>3. CASE SeqsOf(Retained(r)) # {}
    <3>1. floor \in SeqsOf(Retained(r))
      BY <1>1, <2>1, <2>3, FloorFacts
    <3>2. QED
      BY <2>1, <3>1
  <2>4. QED
    BY <2>2, <2>3
<1> HIDE DEF floor, f
<1>5. after \in Nat /\ c <= after
  BY <1>1, <1>4
<1> HIDE DEF after
<1>6. ASSUME NEW s \in f.events PROVE s \in News(h, a, c, Len(h))
  <2>1. PICK e \in Retained(r) : e.seq = s /\ e.seq > after /\ a \in e.readers
    BY <1>3, <1>6 DEF SeqsOf
  <2>2. s \in 1..Len(h) /\ a \in h[s]
    BY <2>1 DEF RecordOk
  <2>3. s > c
    BY <1>1, <1>5, <2>1, <2>2
  <2>4. QED
    BY <2>2, <2>3 DEF News
<1>7. QED
  BY <1>6 DEF f

LEMMA InvariantServes ==
    ASSUME IInv
    PROVE  EventsAreServed
<1>1. TypeOK /\ (\A a \in Agents : Once(a)) /\ (overwritten \/ Promise)
  BY DEF IInv
<1>2. AnsweredOnce
  BY <1>1 DEF AnsweredOnce, Once
<1>3. ASSUME ~overwritten, NEW a \in Agents
      PROVE  /\ held[a] # None => FrameFor(room, a, held[a]).events = {}
             /\ sock[a] # None => FrameFor(room, a, sock[a].cursor).events = {}
  <2>1. Follows(a) /\ RecordOk(room, history) /\ cursor[a] <= Len(history)
    BY <1>1, <1>3 DEF Promise, Follows, RuntimeOk
  <2>2. room \in Records /\ history \in Histories /\ cursor[a] \in Nat /\ Len(history) \in Nat
    BY <1>1, AgentTypes
  <2>3. held[a] # None => FrameFor(room, a, held[a]).events = {}
    <3>1. SUFFICES ASSUME held[a] # None PROVE FrameFor(room, a, held[a]).events = {}
      OBVIOUS
    <3>2. /\ held[a] \in Nat /\ held[a] <= cursor[a]
          /\ News(history, a, held[a], Len(history)) = {}
      BY <1>1, <2>1, <3>1, AgentTypes DEF Follows, HeldOk
    <3>3. held[a] \in 0..Len(history)
      BY <2>1, <2>2, <3>2
    <3>4. QED
      BY <2>1, <2>2, <3>2, <3>3, FrameIsNews
  <2>4. sock[a] # None => FrameFor(room, a, sock[a].cursor).events = {}
    <3>1. SUFFICES ASSUME sock[a] # None PROVE FrameFor(room, a, sock[a].cursor).events = {}
      OBVIOUS
    <3>2. sock[a].cursor \in Nat
      BY <1>1, <3>1, AgentTypes, SocketTypes
    <3>3. sock[a].cursor <= Len(history) /\ News(history, a, sock[a].cursor, Len(history)) = {}
      BY <2>1, <3>1 DEF Follows, StreamOk, WireOk
    <3>4. sock[a].cursor \in 0..Len(history)
      BY <2>2, <3>2, <3>3
    <3>5. QED
      BY <2>1, <2>2, <3>3, <3>4, FrameIsNews
  <2>5. QED
    BY <2>3, <2>4
<1>4. NobodyWaitsOnEvents
  BY <1>3 DEF NobodyWaitsOnEvents
<1>5. QED
  BY <1>2, <1>4 DEF EventsAreServed

\* The invariant holds: whatever is on its way tells what it skips, and every trigger
\* waits once (resolveAgentWaiters, RoomSession.ts:3006; acceptEvent, runtime.go:1896).
THEOREM InvariantHolds == Spec => []IInv
<1>1. Init => IInv
  BY InitRefines
<1>2. IInv /\ [Next]_vars => IInv'
  BY NextRefines DEF Refines
<1>3. QED
  BY <1>1, <1>2, PTL DEF Spec

\* Room, wires and runtimes stay in their types, for any rings and any bounds.
THEOREM TypeCorrect == Spec => []TypeOK
<1>1. IInv => TypeOK
  BY DEF IInv
<1>2. QED
  BY <1>1, InvariantHolds, PTL

\* Until a stale record is saved, nobody waits for an event the room has
\* (resolveAgentWaiters, RoomSession.ts:3006); and no event ever has a second turn
\* (acceptEvent, runtime.go:1896).
THEOREM EventsServed == Spec => []EventsAreServed
<1>1. IInv => EventsAreServed
  BY InvariantServes
<1>2. QED
  BY <1>1, InvariantHolds, PTL

\* The room and its runtimes implement EventLog: one append-only log, and a position of
\* every Agent that passes nothing unannounced (agentEvents, advanceFromWait).
THEOREM LogIsKept == Spec => LogKept
<1>1. Init => Log!Init
  BY InitRefines
<1>2. IInv /\ [Next]_vars => [Log!Next]_(Log!logvars)
  BY NextRefines DEF Refines, LogStep
<1>3. QED
  BY <1>1, <1>2, InvariantHolds, PTL DEF Spec, LogKept, Log!Spec

-----------------------------------------------------------------------------
(***************************************************************************)
(* The Live Transcript, for any number of residents and Runtime Hosts, a   *)
(* log and pages of any size, and any number of epochs, utterances and     *)
(* losses.                                                                 *)
(*                                                                         *)
(* The types hold together with what is known of the epochs: a state that  *)
(* is on its way, what a runtime believes and a call are of an epoch that  *)
(* was given.  Every step drops the oldest of the log or appends the       *)
(* segment of a call, so the log stays one run of sequences.  What an      *)
(* utterance leaves, its calls and its segments, is of one epoch, and of   *)
(* the epoch in which it was spoken, unless it was sent unfenced; this     *)
(* needs a claim about every utterance that is still to be sent: what it   *)
(* has left is of the epoch that its runtime is in.                        *)
(***************************************************************************)

(* Types *)

SegmentsBelow(n) == [epoch : Epochs, id : Utterances, seq : 1..n - 1, heard : 0..MaxEpochs]
Utterance == [by : Transcribers \cup {Nobody}, current : BOOLEAN, heard : 0..MaxEpochs,
              left : 0..MaxAttempts, step : {"none", "said", "waits", "asked", "done"}]
Calls == [id : Utterances, by : Transcribers, epoch : Epochs]
Producers == [epoch : 0..MaxEpochs, next : 0..MaxEpochs, fenced : BOOLEAN]
Tales == [committed : SUBSET Utterances, again : SUBSET Utterances, forgotten : SUBSET Utterances,
          unfenced : SUBSET Utterances, newest : [Hosts -> 0..MaxEpochs], overtook : BOOLEAN]
HarnessBelow(n) == [through : 0..n - 1, turn : SUBSET (1..n - 1), got : SUBSET (1..n - 1), twice : BOOLEAN]
PagerBelow(n) == [cursor : 0..n - 1, got : SUBSET (1..n - 1), gap : BOOLEAN]

\* The states that were pushed before epoch n
Told(n) == {s \in States : s.epoch < n /\ (s.host # Nobody => s.epoch # 0)}

\* t is what is left of s without its first d.
IsSuffix(t, s, d) == Len(t) = Len(s) - d /\ \A i \in 1..Len(t) : t[i] = s[i + d]

LEMMA BoundedIsSuffix ==
    ASSUME NEW S, NEW all \in Seq(S), NEW kept \in Bounded(all)
    PROVE  /\ kept \in Seq(S)
           /\ \E d \in 0..Len(all) : IsSuffix(kept, all, d) /\ (all # <<>> => d < Len(all))
<1>1. CASE all = <<>>
  BY <1>1 DEF Bounded, IsSuffix
<1>2. CASE all # <<>>
  <2>1. PICK i \in DOMAIN all : kept = SubSeq(all, i, Len(all))
    BY <1>2 DEF Bounded
  <2>2. i \in 1..Len(all) /\ Len(all) \in Nat
    OBVIOUS
  <2>3. \A k \in i..Len(all) : all[k] \in S
    BY <2>2
  <2>4. /\ kept \in Seq(S)
        /\ Len(kept) = IF i <= Len(all) THEN Len(all) - i + 1 ELSE 0
        /\ \A k \in 1..Len(all) - i + 1 : kept[k] = all[i + k - 1]
    BY <2>1, <2>2, <2>3, SubSeqProperties
  <2>5. Len(kept) = Len(all) - (i - 1)
    BY <2>2, <2>4
  <2>6. \A k \in 1..Len(kept) : kept[k] = all[k + (i - 1)]
    BY <2>2, <2>4, <2>5
  <2>7. i - 1 \in 0..Len(all) /\ i - 1 < Len(all)
    BY <2>2
  <2>8. QED
    BY <2>4, <2>5, <2>6, <2>7 DEF IsSuffix
<1>3. QED
  BY <1>1, <1>2

\* What a step does to the log
Dropped ==
    /\ nextSeq' = nextSeq /\ segments' \in Seq(SegmentsBelow(nextSeq))
    /\ \E d \in 0..Len(segments) : IsSuffix(segments', segments, d)

Added(c) ==
    /\ MayAppend(c) /\ ~Known(c) /\ Segment(c) \in SegmentsBelow(nextSeq + 1)
    /\ nextSeq' = nextSeq + 1 /\ segments' \in Seq(SegmentsBelow(nextSeq + 1))
    /\ \E d \in 0..Len(segments) :
          /\ IsSuffix(segments', Append(segments, Segment(c)), d)
          /\ Append(segments, Segment(c)) \in Seq(SegmentsBelow(nextSeq + 1))

LEMMA LogTypes ==
    ASSUME SpeechTypeOK
    PROVE  /\ nextSeq \in Nat /\ nextSeq >= 1
           /\ segments \in Seq(SegmentsBelow(nextSeq))
           /\ SegmentsBelow(nextSeq) \subseteq SegmentsBelow(nextSeq + 1)
           /\ segments \in Seq(SegmentsBelow(nextSeq + 1))
<1>1. nextSeq \in Nat /\ nextSeq >= 1 /\ segments \in Seq(SegmentsBelow(nextSeq))
  BY DEF SpeechTypeOK, SegmentsBelow
<1>2. 1..nextSeq - 1 \subseteq 1..(nextSeq + 1) - 1
  BY <1>1
<1>3. SegmentsBelow(nextSeq) \subseteq SegmentsBelow(nextSeq + 1)
  BY <1>2 DEF SegmentsBelow
<1>4. QED
  BY <1>1, <1>3, SeqMonotonic

LEMMA SameLogIsDropped ==
    ASSUME SpeechTypeOK, UNCHANGED <<segments, nextSeq>>
    PROVE  Dropped
<1>1. segments \in Seq(SegmentsBelow(nextSeq))
  BY LogTypes
<1>2. IsSuffix(segments, segments, 0) /\ 0 \in 0..Len(segments)
  BY <1>1 DEF IsSuffix
<1>3. QED
  BY <1>1, <1>2 DEF Dropped

LEMMA BoundedIsDropped ==
    ASSUME SpeechTypeOK, segments' \in Bounded(segments), nextSeq' = nextSeq
    PROVE  Dropped
<1>1. segments \in Seq(SegmentsBelow(nextSeq))
  BY LogTypes
<1>2. QED
  BY <1>1, BoundedIsSuffix DEF Dropped

LEMMA SegmentType ==
    ASSUME SpeechTypeOK, NEW c \in calls
    PROVE  c \in Calls /\ Segment(c) \in SegmentsBelow(nextSeq + 1)
<1>1. c \in Calls
  BY DEF SpeechTypeOK, Calls
<1>2. spoken[c.id].heard \in 0..MaxEpochs
  BY <1>1 DEF SpeechTypeOK, Calls
<1>3. nextSeq \in 1..(nextSeq + 1) - 1
  BY LogTypes
<1>4. QED
  BY <1>1, <1>2, <1>3 DEF Segment, SegmentsBelow, Calls

LEMMA CommitAdds ==
    ASSUME SpeechTypeOK, NEW c \in calls, Commit(c)
    PROVE  \/ Added(c) /\ tale' = [tale EXCEPT
                 !.committed = @ \cup {c.id},
                 !.again = @ \cup (tale.committed \cap {c.id}),
                 !.forgotten = @ \cup Ids(Range(segments) \ Range(segments'))]
           \/ Dropped /\ UNCHANGED <<segments, nextSeq, tale>>
<1>1. CASE (~MayAppend(c) \/ Known(c)) /\ UNCHANGED <<segments, nextSeq, tale>>
  BY <1>1, SameLogIsDropped
<1>2. CASE /\ MayAppend(c) /\ ~Known(c)
           /\ segments' \in Bounded(Append(segments, Segment(c))) /\ nextSeq' = nextSeq + 1
           /\ tale' = [tale EXCEPT
                  !.committed = @ \cup {c.id},
                  !.again = @ \cup (tale.committed \cap {c.id}),
                  !.forgotten = @ \cup Ids(Range(segments) \ Range(segments'))]
  <2> DEFINE all == Append(segments, Segment(c))
             S == SegmentsBelow(nextSeq + 1)
  <2>1. Segment(c) \in S /\ segments \in Seq(S)
    BY SegmentType, LogTypes
  <2>2. all \in Seq(S) /\ all # <<>> /\ Len(all) = Len(segments) + 1
    BY <2>1, AppendProperties
  <2>3. segments' \in Seq(S) /\ \E d \in 0..Len(all) : IsSuffix(segments', all, d) /\ d < Len(all)
    <3>1. segments' \in Bounded(all)
      BY <1>2
    <3>2. QED
      BY <2>2, <3>1, BoundedIsSuffix
  <2>4. \E d \in 0..Len(segments) : IsSuffix(segments', all, d)
    <3>1. Len(segments) \in Nat
      BY <2>1
    <3>2. QED
      BY <2>2, <2>3, <3>1
  <2>5. QED
    BY <1>2, <2>1, <2>2, <2>3, <2>4 DEF Added
<1>3. QED
  BY <1>1, <1>2 DEF Commit

-----------------------------------------------------------------------------
(* The parts of the types *)

RecordTyped ==
    /\ nextEpoch \in 1..MaxEpochs + 1 /\ nextSeq \in Nat \ {0}
    /\ segments \in Seq(SegmentsBelow(nextSeq))
    /\ live \in Told(nextEpoch)
    /\ live.host = Nobody => live.epoch = 0
    /\ live.host # Nobody => live.epoch = nextEpoch - 1

StreamsTyped ==
    /\ members \subseteq Transcribers /\ streams \subseteq members
    /\ feed \in [Transcribers -> Seq(Told(nextEpoch))]

RuntimesTyped ==
    /\ producer \in [Transcribers -> Producers]
    /\ \A r \in Transcribers : producer[r].epoch < nextEpoch /\ producer[r].next < nextEpoch
    /\ lease \in [Hosts -> Leases \cup {Nobody}]

SpeechTyped ==
    /\ spoken \in [Utterances -> Utterance]
    /\ \A u \in Utterances :
          /\ spoken[u].step # "none" => spoken[u].by \in Transcribers
          /\ spoken[u].step \in {"said", "waits"} => spoken[u].left > 0

CallsTyped == calls \subseteq Calls /\ \A c \in calls : c.epoch < nextEpoch

ReadersTyped == harness \in HarnessBelow(nextSeq) /\ pager \in PagerBelow(nextSeq)

TypeInv ==
    /\ RecordTyped /\ StreamsTyped /\ RuntimesTyped /\ SpeechTyped /\ CallsTyped
    /\ ReadersTyped /\ losses \in 0..MaxLosses /\ tale \in Tales

LEMMA TypesFollow == ASSUME TypeInv PROVE SpeechTypeOK
<1>1. live \in States /\ nextEpoch \in 1..MaxEpochs + 1 /\ nextSeq \in Nat \ {0}
      /\ segments \in Seq([epoch : Epochs, id : Utterances, seq : 1..nextSeq - 1, heard : 0..MaxEpochs])
  BY DEF TypeInv, RecordTyped, Told, SegmentsBelow
<1>2. members \subseteq Transcribers /\ streams \subseteq members /\ feed \in [Transcribers -> Seq(States)]
  <2>1. Told(nextEpoch) \subseteq States
    BY DEF Told
  <2>2. Seq(Told(nextEpoch)) \subseteq Seq(States)
    BY <2>1, SeqMonotonic
  <2>3. QED
    BY <2>2 DEF TypeInv, StreamsTyped
<1>3. producer \in [Transcribers -> Producers] /\ lease \in [Hosts -> Leases \cup {Nobody}]
  BY DEF TypeInv, RuntimesTyped
<1>4. spoken \in [Utterances -> Utterance] /\ calls \subseteq Calls
  BY DEF TypeInv, SpeechTyped, CallsTyped
<1>5. harness \in HarnessBelow(nextSeq) /\ pager \in PagerBelow(nextSeq) /\ losses \in 0..MaxLosses
  BY DEF TypeInv, ReadersTyped
<1>6. tale \in Tales
  BY DEF TypeInv
<1>7. QED
  BY <1>1, <1>2, <1>3, <1>4, <1>5, <1>6 DEF SpeechTypeOK, Producers, Utterance, Calls, HarnessBelow, PagerBelow, Tales

LEMMA TranscriptInit == ASSUME SpeechInit PROVE TypeInv
<1> USE TranscriptBounds, NobodyIsNobody DEF SpeechInit
<1>1. RecordTyped
  BY DEF RecordTyped, Told, Off, States
<1>2. StreamsTyped
  BY DEF StreamsTyped
<1>3. RuntimesTyped
  BY DEF RuntimesTyped, Quiet, Producers
<1>4. SpeechTyped
  BY DEF SpeechTyped, Unsaid, Utterance
<1>5. CallsTyped /\ ReadersTyped /\ losses \in 0..MaxLosses
  BY DEF CallsTyped, ReadersTyped, HarnessBelow, PagerBelow
<1>6. tale \in Tales
  BY DEF Tales
<1>7. QED
  BY <1>1, <1>2, <1>3, <1>4, <1>5, <1>6 DEF TypeInv

LEMMA ToldGrows ==
    ASSUME NEW m \in Int, NEW n \in Int, m <= n
    PROVE  Told(m) \subseteq Told(n) /\ Seq(Told(m)) \subseteq Seq(Told(n))
<1>1. Told(m) \subseteq Told(n)
  BY TranscriptBounds DEF Told, States
<1>2. QED
  BY <1>1, SeqMonotonic

LEMMA LossTyped == ASSUME losses \in 0..MaxLosses, Loss PROVE losses' \in 0..MaxLosses
  BY TranscriptBounds DEF Loss

LEMMA IdsTyped ==
    ASSUME SpeechTypeOK
    PROVE  Ids(Range(segments) \ Range(segments')) \subseteq Utterances
<1>1. segments \in Seq(SegmentsBelow(nextSeq))
  BY LogTypes
<1>2. \A i \in DOMAIN segments : segments[i] \in SegmentsBelow(nextSeq)
  BY <1>1
<1>3. \A i \in DOMAIN segments : segments[i].id \in Utterances
  BY <1>2 DEF SegmentsBelow
<1>4. QED
  BY <1>3 DEF Ids, Range

LEMMA ForgottenTyped ==
    ASSUME tale \in Tales, SpeechTypeOK,
           tale' = [tale EXCEPT !.forgotten = @ \cup Ids(Range(segments) \ Range(segments'))]
    PROVE  tale' \in Tales
  BY IdsTyped DEF Tales

LEMMA StartTyped == ASSUME TypeInv, NEW h \in Hosts, Start(h) PROVE TypeInv'
<1> USE TranscriptBounds, NobodyIsNobody
<1>1. /\ RecordTyped /\ StreamsTyped /\ RuntimesTyped /\ SpeechTyped /\ CallsTyped
      /\ ReadersTyped /\ losses \in 0..MaxLosses /\ tale \in Tales /\ SpeechTypeOK
  BY TypesFollow DEF TypeInv
<1>2. Dropped
  BY <1>1, BoundedIsDropped DEF Start
<1>3. /\ live' = [host |-> h, epoch |-> nextEpoch] /\ nextEpoch' = nextEpoch + 1
      /\ nextEpoch \in 1..MaxEpochs /\ nextSeq' = nextSeq
  BY <1>1 DEF Start, RecordTyped
<1>4. live' \in Told(nextEpoch')
  BY <1>3 DEF Told, States
<1>5. RecordTyped'
  BY <1>1, <1>2, <1>3, <1>4 DEF RecordTyped, Dropped
<1>6. StreamsTyped'
  <2>1. Seq(Told(nextEpoch)) \subseteq Seq(Told(nextEpoch'))
    BY <1>3, ToldGrows
  <2>2. feed \in [Transcribers -> Seq(Told(nextEpoch'))]
    BY <1>1, <2>1 DEF StreamsTyped
  <2>3. feed' \in [Transcribers -> Seq(Told(nextEpoch'))]
    BY <1>4, <2>2, AppendProperties DEF Start, Push
  <2>4. QED
    BY <1>1, <2>3 DEF StreamsTyped, Start
<1>7. RuntimesTyped' /\ SpeechTyped' /\ CallsTyped' /\ ReadersTyped' /\ losses' \in 0..MaxLosses
  <2>1. UNCHANGED <<runtimevars, readervars, losses, nextSeq>>
    BY DEF Start
  <2>2. RuntimesTyped'
    <3>1. \A r \in Transcribers : producer[r].epoch \in 0..MaxEpochs /\ producer[r].next \in 0..MaxEpochs
      BY <1>1 DEF RuntimesTyped, Producers
    <3>2. \A r \in Transcribers : producer[r].epoch < nextEpoch' /\ producer[r].next < nextEpoch'
      BY <1>1, <1>3, <3>1 DEF RuntimesTyped
    <3>3. QED
      BY <1>1, <2>1, <3>2 DEF RuntimesTyped, runtimevars
  <2>3. CallsTyped'
    <3>1. \A c \in calls : c.epoch \in Int /\ c.epoch < nextEpoch
      BY <1>1 DEF CallsTyped, Calls, Epochs
    <3>2. \A c \in calls : c.epoch < nextEpoch'
      BY <1>1, <1>3, <3>1 DEF RecordTyped
    <3>3. QED
      BY <1>1, <2>1, <3>2 DEF CallsTyped, runtimevars
  <2>4. SpeechTyped' /\ ReadersTyped' /\ losses' \in 0..MaxLosses
    BY <1>1, <2>1 DEF SpeechTyped, ReadersTyped, runtimevars, readervars
  <2>5. QED
    BY <2>2, <2>3, <2>4
<1>8. tale' \in Tales
  BY <1>1, ForgottenTyped DEF Start
<1>9. QED
  BY <1>5, <1>6, <1>7, <1>8 DEF TypeInv

\* A step that leaves the runtimes, the readers and the tale alone
LEMMA FramedTyped ==
    ASSUME TypeInv, UNCHANGED <<nextEpoch, segments, nextSeq, tale, runtimevars, readervars>>,
           losses' \in 0..MaxLosses, StreamsTyped',
           live' \in Told(nextEpoch), live'.host = Nobody => live'.epoch = 0,
           live'.host # Nobody => live'.epoch = nextEpoch - 1
    PROVE  TypeInv'
<1>1. /\ RecordTyped /\ RuntimesTyped /\ SpeechTyped /\ CallsTyped /\ ReadersTyped /\ tale \in Tales
  BY DEF TypeInv
<1>2. RecordTyped' /\ RuntimesTyped' /\ SpeechTyped'
  BY <1>1 DEF RecordTyped, RuntimesTyped, SpeechTyped, runtimevars
<1>3. CallsTyped' /\ ReadersTyped' /\ tale' \in Tales
  BY <1>1 DEF CallsTyped, ReadersTyped, runtimevars, readervars
<1>4. QED
  BY <1>2, <1>3 DEF TypeInv

LEMMA OffIsTold == ASSUME RecordTyped PROVE Off \in Told(nextEpoch)
  BY TranscriptBounds DEF RecordTyped, Told, Off, States

LEMMA StopTyped == ASSUME TypeInv, Stop PROVE TypeInv'
<1>1. RecordTyped /\ StreamsTyped /\ losses \in 0..MaxLosses
  BY DEF TypeInv
<1>2. Off \in Told(nextEpoch)
  BY <1>1, OffIsTold
<1>3. StreamsTyped'
  BY <1>1, <1>2, AppendProperties DEF StreamsTyped, Stop, Push
<1>4. QED
  BY <1>1, <1>2, <1>3, FramedTyped DEF Stop, Off

LEMMA MemberLostTyped == ASSUME TypeInv, NEW r \in Transcribers, MemberLost(r) PROVE TypeInv'
<1>1. RecordTyped /\ StreamsTyped /\ losses' \in 0..MaxLosses
  BY LossTyped DEF TypeInv, MemberLost
<1>2. Off \in Told(nextEpoch)
  BY <1>1, OffIsTold
<1>3. live' = Off \/ live' = live
  BY DEF MemberLost
<1>4. live' \in Told(nextEpoch)
  BY <1>1, <1>2, <1>3 DEF RecordTyped
<1>5. StreamsTyped'
  <2>1. \A q \in Transcribers : feed[q] \in Seq(Told(nextEpoch)) /\ Append(feed[q], live') \in Seq(Told(nextEpoch))
    BY <1>1, <1>4, AppendProperties DEF StreamsTyped
  <2>2. <<Off>> \in Seq(Told(nextEpoch))
    BY <1>2
  <2>3. feed' \in [Transcribers -> Seq(Told(nextEpoch))]
    BY <2>1, <2>2 DEF MemberLost
  <2>4. QED
    BY <1>1, <2>3 DEF StreamsTyped, MemberLost
<1>6. QED
  BY <1>1, <1>3, <1>4, <1>5, FramedTyped DEF MemberLost, Off, RecordTyped

LEMMA WireTyped ==
    ASSUME TypeInv, NEW r \in Transcribers, Refreshes(r) \/ StreamLost(r) \/ Reconnects(r)
    PROVE  TypeInv'
<1>1. RecordTyped /\ StreamsTyped /\ losses \in 0..MaxLosses
  BY DEF TypeInv
<1>2. losses' \in 0..MaxLosses
  BY <1>1, LossTyped DEF Refreshes, StreamLost, Reconnects
<1>3. live \in Told(nextEpoch) /\ Off \in Told(nextEpoch)
  BY <1>1, OffIsTold DEF RecordTyped
<1>4. <<Off>> \in Seq(Told(nextEpoch)) /\ Append(feed[r], live) \in Seq(Told(nextEpoch))
  BY <1>1, <1>3, AppendProperties DEF StreamsTyped
<1>5. feed' \in [Transcribers -> Seq(Told(nextEpoch))]
  BY <1>1, <1>4 DEF StreamsTyped, Refreshes, StreamLost, Reconnects
<1>6. UNCHANGED <<recordvars, members, tale, runtimevars, readervars>> /\ streams' \subseteq members
  BY <1>1 DEF StreamsTyped, Refreshes, StreamLost, Reconnects, Room
<1>7. StreamsTyped'
  BY <1>1, <1>5, <1>6 DEF StreamsTyped, recordvars
<1>8. QED
  BY <1>1, <1>2, <1>6, <1>7, FramedTyped DEF recordvars, RecordTyped

\* A step of the runtimes that leaves the record alone
LEMMA RuntimeFrame ==
    ASSUME TypeInv, Room, UNCHANGED readervars
    PROVE  RecordTyped' /\ ReadersTyped'
  BY DEF TypeInv, RecordTyped, ReadersTyped, Room, recordvars, readervars

LEMMA ObservesTyped == ASSUME TypeInv, NEW r \in Transcribers, Observes(r) PROVE TypeInv'
<1> DEFINE state == Head(feed[r])
           h == HostOf[r]
           authorized == state.host = h /\ Acquires(lease[h], state, r)
           epoch == IF authorized THEN state.epoch ELSE 0
<1>1. RecordTyped' /\ ReadersTyped'
  BY RuntimeFrame DEF Observes
<1>2. /\ RecordTyped /\ StreamsTyped /\ RuntimesTyped /\ tale \in Tales /\ h \in Hosts
      /\ UNCHANGED <<recordvars, members, streams, spoken, calls, readervars, losses>>
  BY DEF TypeInv, Observes, Room, Hosts
<1>3. state \in Told(nextEpoch) /\ Tail(feed[r]) \in Seq(Told(nextEpoch))
  BY <1>2, HeadTailProperties DEF Observes, StreamsTyped
<1>4. /\ authorized => state.epoch \in Epochs /\ state.epoch < nextEpoch
      /\ epoch \in 0..MaxEpochs /\ epoch < nextEpoch
  <2>1. state.epoch \in 0..MaxEpochs /\ state.epoch < nextEpoch /\ (state.host # Nobody => state.epoch # 0)
    BY <1>3 DEF Told, States
  <2>2. h # Nobody /\ nextEpoch \in Nat /\ nextEpoch > 0 /\ MaxEpochs \in Nat
    BY <1>2, NobodyIsNobody, TranscriptBounds DEF RecordTyped
  <2>3. QED
    BY <2>1, <2>2 DEF Epochs
<1>5. StreamsTyped'
  BY <1>2, <1>3 DEF Observes, StreamsTyped, recordvars
<1>6. RuntimesTyped'
  <2>1. producer' = [producer EXCEPT ![r].next = epoch]
    BY DEF Observes
  <2>2. producer' \in [Transcribers -> Producers]
    BY <1>2, <1>4, <2>1 DEF RuntimesTyped, Producers
  <2>3. \A q \in Transcribers : producer'[q].epoch < nextEpoch /\ producer'[q].next < nextEpoch
    BY <1>2, <1>4, <2>1 DEF RuntimesTyped, Producers
  <2>4. lease' \in [Hosts -> Leases \cup {Nobody}]
    <3>1. authorized => [epoch |-> epoch, holder |-> r] \in Leases
      BY <1>4 DEF Leases
    <3>2. lease' = [lease EXCEPT ![h] =
                       IF authorized THEN [epoch |-> epoch, holder |-> r]
                       ELSE IF lease[h] = [epoch |-> producer[r].epoch, holder |-> r] THEN Nobody ELSE @]
      BY DEF Observes
    <3>3. QED
      BY <1>2, <3>1, <3>2 DEF RuntimesTyped
  <2>5. QED
    BY <1>2, <2>2, <2>3, <2>4 DEF RuntimesTyped, recordvars
<1>7. tale' \in Tales
  <2>1. tale.newest \in [Hosts -> 0..MaxEpochs]
    BY <1>2 DEF Tales
  <2>2. tale' = [tale EXCEPT
                  !.overtook = @ \/ (authorized /\ tale.newest[h] > epoch),
                  !.newest[h] = IF authorized /\ epoch > @ THEN epoch ELSE @]
    BY DEF Observes
  <2>3. QED
    BY <1>2, <1>4, <2>1, <2>2 DEF Tales
<1>8. SpeechTyped' /\ CallsTyped' /\ losses' \in 0..MaxLosses
  BY <1>2 DEF TypeInv, SpeechTyped, CallsTyped, recordvars
<1>9. QED
  BY <1>1, <1>5, <1>6, <1>7, <1>8 DEF TypeInv

LEMMA AssignsTyped == ASSUME TypeInv, NEW r \in Transcribers, Assigns(r) PROVE TypeInv'
<1>1. RecordTyped' /\ ReadersTyped'
  BY RuntimeFrame DEF Assigns
<1>2. RuntimesTyped'
  BY DEF TypeInv, RuntimesTyped, Producers, Assigns, Room, recordvars
<1>3. StreamsTyped' /\ SpeechTyped' /\ CallsTyped' /\ losses' \in 0..MaxLosses /\ tale' \in Tales
  BY DEF TypeInv, StreamsTyped, SpeechTyped, CallsTyped, Assigns, Room, recordvars
<1>4. QED
  BY <1>1, <1>2, <1>3 DEF TypeInv

LEMMA FencesTyped == ASSUME TypeInv, NEW r \in Transcribers, Fences(r) PROVE TypeInv'
<1>1. RecordTyped' /\ ReadersTyped'
  BY RuntimeFrame DEF Fences
<1>2. RuntimesTyped'
  BY DEF TypeInv, RuntimesTyped, Producers, Fences, Fence, Room, recordvars
<1>3. SpeechTyped'
  BY DEF TypeInv, SpeechTyped, Utterance, Fences, Fence
<1>4. StreamsTyped' /\ CallsTyped' /\ losses' \in 0..MaxLosses /\ tale' \in Tales
  BY DEF TypeInv, StreamsTyped, CallsTyped, Fences, Room, recordvars
<1>5. QED
  BY <1>1, <1>2, <1>3, <1>4 DEF TypeInv

\* A step of one utterance alone
LEMMA UtteranceFrame ==
    ASSUME TypeInv, Room, SpeechTyped',
           UNCHANGED <<streams, feed, producer, lease, calls, readervars, losses, tale>>
    PROVE  TypeInv'
<1>1. RecordTyped' /\ ReadersTyped'
  BY RuntimeFrame
<1>2. RuntimesTyped' /\ StreamsTyped' /\ CallsTyped' /\ losses' \in 0..MaxLosses /\ tale' \in Tales
  BY DEF TypeInv, RuntimesTyped, StreamsTyped, CallsTyped, Room, recordvars
<1>3. QED
  BY <1>1, <1>2 DEF TypeInv

LEMMA HearsTyped == ASSUME TypeInv, NEW r \in Transcribers, Hears(r) PROVE TypeInv'
<1>1. live.epoch \in 0..MaxEpochs
  BY DEF TypeInv, RecordTyped, Told, States
<1>2. SpeechTyped'
  BY <1>1, TranscriptBounds DEF TypeInv, SpeechTyped, Utterance, Hears
<1>3. QED
  BY <1>2, UtteranceFrame DEF Hears

LEMMA DoneTyped ==
    ASSUME NEW s \in Utterance, s.by \in Transcribers
    PROVE  /\ Done(s) \in Utterance /\ Done(s).by = s.by /\ Done(s).step = "done"
           /\ ~Done(s).current /\ Done(s).heard = s.heard
<1>1. 0 \in 0..MaxAttempts
  BY TranscriptBounds
<1>2. Done(s) = [s EXCEPT !.current = FALSE, !.left = 0, !.step = "done"]
  BY DEF Done
<1>3. Done(s) \in Utterance
  BY <1>1, <1>2 DEF Utterance
<1>4. QED
  BY <1>2, <1>3 DEF Utterance

LEMMA CommitsTyped == ASSUME TypeInv, NEW u \in Utterances, Commits(u) PROVE TypeInv'
<1>1. spoken[u] \in Utterance /\ spoken[u].by \in Transcribers /\ spoken[u].left > 0
  BY DEF TypeInv, SpeechTyped, Commits
<1>2. SpeechTyped'
  BY <1>1, DoneTyped DEF TypeInv, SpeechTyped, Utterance, Commits
<1>3. QED
  BY <1>2, UtteranceFrame DEF Commits

LEMMA SendsTyped == ASSUME TypeInv, NEW u \in Utterances, Sends(u) PROVE TypeInv'
<1>1. spoken[u] \in Utterance /\ spoken[u].by \in Transcribers /\ spoken[u].left > 0
  BY DEF TypeInv, SpeechTyped, Sends
<1>2. RecordTyped' /\ ReadersTyped'
  BY RuntimeFrame DEF Sends
<1>3. RuntimesTyped' /\ StreamsTyped' /\ losses' \in 0..MaxLosses
  BY DEF TypeInv, RuntimesTyped, StreamsTyped, Sends, Room, recordvars
<1>4. CASE ~IsLive(u)
  <2>1. spoken' = [spoken EXCEPT ![u] = Done(@)] /\ UNCHANGED <<calls, tale>>
    BY <1>4 DEF Sends
  <2>2. SpeechTyped'
    BY <1>1, <2>1, DoneTyped DEF TypeInv, SpeechTyped
  <2>3. CallsTyped' /\ tale' \in Tales
    BY <2>1 DEF TypeInv, CallsTyped, Sends, Room, recordvars
  <2>4. QED
    BY <1>2, <1>3, <2>2, <2>3 DEF TypeInv
<1>5. CASE IsLive(u)
  <2> DEFINE r == spoken[u].by
             c == [id |-> u, by |-> r, epoch |-> producer[r].epoch]
  <2>1. /\ spoken' = [spoken EXCEPT ![u].step = "asked", ![u].left = @ - 1]
        /\ calls' = calls \cup {c}
        /\ tale' = [tale EXCEPT !.unfenced = IF producer[r].fenced THEN @ ELSE @ \cup {u}]
    BY <1>5 DEF Sends
  <2>2. SpeechTyped'
    BY <1>1, <2>1, TranscriptBounds DEF TypeInv, SpeechTyped, Utterance
  <2>3. c \in Calls /\ c.epoch < nextEpoch
    <3>1. producer[r].epoch \in 0..MaxEpochs /\ producer[r].epoch # 0 /\ producer[r].epoch < nextEpoch
      BY <1>1, <1>5 DEF IsLive, TypeInv, RuntimesTyped, Producers
    <3>2. QED
      BY <1>1, <3>1, TranscriptBounds DEF Calls, Epochs
  <2>4. CallsTyped'
    BY <2>1, <2>3 DEF TypeInv, CallsTyped, Sends, Room, recordvars
  <2>5. tale' \in Tales
    BY <2>1 DEF TypeInv, Tales
  <2>6. QED
    BY <1>2, <1>3, <2>2, <2>4, <2>5 DEF TypeInv
<1>6. QED
  BY <1>4, <1>5

\* A step that handles a call, or not
LEMMA LogTyped ==
    ASSUME TypeInv, SpeechTyped', calls' \subseteq calls, losses' \in 0..MaxLosses,
           UNCHANGED <<live, nextEpoch, members, streams, feed, producer, lease, readervars>>,
           UNCHANGED <<segments, nextSeq, tale>> \/ \E c \in calls : Commit(c)
    PROVE  TypeInv'
<1> USE TranscriptBounds
<1>1. SpeechTypeOK
  BY TypesFollow
<1>2. StreamsTyped' /\ RuntimesTyped' /\ CallsTyped'
  BY DEF TypeInv, StreamsTyped, RuntimesTyped, CallsTyped
<1>3. CASE UNCHANGED <<segments, nextSeq, tale>>
  <2>1. RecordTyped' /\ ReadersTyped' /\ tale' \in Tales
    BY <1>3 DEF TypeInv, RecordTyped, ReadersTyped, readervars
  <2>2. QED
    BY <1>2, <2>1 DEF TypeInv
<1>4. ASSUME NEW c \in calls, Added(c), tale' = [tale EXCEPT
                 !.committed = @ \cup {c.id},
                 !.again = @ \cup (tale.committed \cap {c.id}),
                 !.forgotten = @ \cup Ids(Range(segments) \ Range(segments'))]
      PROVE TypeInv'
  <2>1. RecordTyped'
    BY <1>4 DEF TypeInv, RecordTyped, Added
  <2>2. ReadersTyped'
    <3>1. nextSeq' = nextSeq + 1 /\ nextSeq \in Nat
      BY <1>4 DEF Added, TypeInv, RecordTyped
    <3>2. 1..nextSeq - 1 \subseteq 1..nextSeq' - 1 /\ 0..nextSeq - 1 \subseteq 0..nextSeq' - 1
      BY <3>1
    <3>3. HarnessBelow(nextSeq) \subseteq HarnessBelow(nextSeq') /\ PagerBelow(nextSeq) \subseteq PagerBelow(nextSeq')
      BY <3>2 DEF HarnessBelow, PagerBelow
    <3>4. QED
      BY <3>3 DEF TypeInv, ReadersTyped, readervars
  <2>3. tale' \in Tales
    <3>1. c.id \in Utterances
      BY DEF TypeInv, CallsTyped, Calls
    <3>2. Ids(Range(segments) \ Range(segments')) \subseteq Utterances
      BY <1>1, IdsTyped
    <3>3. QED
      BY <1>4, <3>1, <3>2 DEF TypeInv, Tales
  <2>4. QED
    BY <1>2, <2>1, <2>2, <2>3 DEF TypeInv
<1>5. QED
  BY <1>1, <1>3, <1>4, CommitAdds

LEMMA HandledTyped == ASSUME TypeInv, NEW c \in calls, Handled(c) PROVE TypeInv'
<1>1. c.id \in Utterances
  BY DEF TypeInv, CallsTyped, Calls
<1>2. SpeechTyped'
  BY <1>1, DoneTyped DEF TypeInv, SpeechTyped, Handled
<1>3. losses' \in 0..MaxLosses
  BY DEF TypeInv, Handled
<1>4. QED
  BY <1>2, <1>3, LogTyped DEF Handled

LEMMA FailsTyped == ASSUME TypeInv, NEW u \in Utterances, Fails(u) PROVE TypeInv'
<1>1. spoken[u] \in Utterance /\ spoken[u].by \in Transcribers
  BY DEF TypeInv, SpeechTyped, Fails
<1>2. SpeechTyped'
  BY <1>1, DoneTyped DEF TypeInv, SpeechTyped, Utterance, Fails
<1>3. losses' \in 0..MaxLosses
  BY LossTyped DEF TypeInv, Fails
<1>4. calls' \subseteq calls /\ (UNCHANGED <<segments, nextSeq, tale>> \/ \E c \in calls : Commit(c))
  BY DEF Fails
<1>5. QED
  BY <1>2, <1>3, <1>4, LogTyped DEF Fails

\* The greatest of a set of sequences
LEMMA NewestOfIsGreatest ==
    ASSUME NEW n \in Nat, NEW some \in SUBSET (1..n), some # {}
    PROVE  NewestOf(some) \in some /\ \A m \in some : m <= NewestOf(some)
<1>1. \E x \in some : \A m \in some : m <= x
  BY Greatest
<1>2. QED
  BY <1>1 DEF NewestOf

LEMMA SeqsTyped ==
    ASSUME TypeInv, NEW after
    PROVE  Seqs(Segments(after)) \subseteq 1..nextSeq - 1 /\ Seqs(Page(after)) \subseteq 1..nextSeq - 1
<1>1. \A i \in DOMAIN segments : segments[i] \in SegmentsBelow(nextSeq)
  BY DEF TypeInv, RecordTyped
<1>2. \A i \in DOMAIN segments : segments[i].seq \in 1..nextSeq - 1
  BY <1>1 DEF SegmentsBelow
<1>3. QED
  BY <1>2 DEF Seqs, Segments, Page, Range

LEMMA ReaderFrame ==
    ASSUME TypeInv, Writers, ReadersTyped', losses' \in 0..MaxLosses
    PROVE  TypeInv'
  BY DEF TypeInv, RecordTyped, StreamsTyped, RuntimesTyped, SpeechTyped, CallsTyped, Writers, recordvars,
         runtimevars

LEMMA ReadersStayTyped ==
    ASSUME TypeInv, Attaches \/ TurnSucceeds \/ TurnFails \/ ReadsPage
    PROVE  TypeInv'
<1>1. losses' \in 0..MaxLosses /\ Writers /\ UNCHANGED nextSeq
  BY LossTyped DEF TypeInv, Attaches, TurnSucceeds, TurnFails, ReadsPage, Writers, recordvars
<1>2. nextSeq \in Nat \ {0} /\ harness \in HarnessBelow(nextSeq) /\ pager \in PagerBelow(nextSeq)
  BY DEF TypeInv, RecordTyped, ReadersTyped
<1>3. CASE Attaches \/ TurnFails
  <2>1. harness' \in HarnessBelow(nextSeq) /\ pager' = pager
    BY <1>2, <1>3, SeqsTyped DEF Attaches, TurnFails, HarnessBelow
  <2>2. ReadersTyped'
    BY <1>1, <1>2, <2>1 DEF ReadersTyped
  <2>3. QED
    BY <1>1, <2>2, ReaderFrame
<1>4. CASE TurnSucceeds
  <2>1. nextSeq - 1 \in Nat /\ harness.turn \in SUBSET (1..nextSeq - 1) /\ harness.turn # {}
    BY <1>2, <1>4 DEF HarnessBelow, TurnSucceeds
  <2>2. NewestOf(harness.turn) \in 1..nextSeq - 1
    BY <2>1, NewestOfIsGreatest
  <2>3. NewestOf(harness.turn) \in 0..nextSeq - 1
    BY <2>2
  <2>4. harness.twice \in BOOLEAN /\ harness.got \in SUBSET (1..nextSeq - 1)
    BY <1>2 DEF HarnessBelow
  <2>5. harness' \in HarnessBelow(nextSeq) /\ pager' = pager
    BY <1>4, <2>1, <2>3, <2>4 DEF TurnSucceeds, HarnessBelow
  <2>6. ReadersTyped'
    BY <1>1, <1>2, <2>5 DEF ReadersTyped
  <2>7. QED
    BY <1>1, <2>6, ReaderFrame
<1>5. CASE ReadsPage
  <2> DEFINE page == Seqs(Page(pager.cursor))
  <2>1. nextSeq - 1 \in Nat /\ page \in SUBSET (1..nextSeq - 1) /\ page # {}
    BY <1>2, <1>5, SeqsTyped DEF ReadsPage, Seqs
  <2>2. NewestOf(page) \in 1..nextSeq - 1
    BY <2>1, NewestOfIsGreatest
  <2>3. NewestOf(page) \in 0..nextSeq - 1
    BY <2>2
  <2>4. pager.got \cup page \in SUBSET (1..nextSeq - 1) /\ (pager.gap \/ Truncated(pager.cursor)) \in BOOLEAN
    BY <1>2, <2>1 DEF PagerBelow
  <2>5. pager' = [cursor |-> NewestOf(page), got |-> pager.got \cup page, gap |-> pager.gap \/ Truncated(pager.cursor)]
    BY <1>5 DEF ReadsPage
  <2>6. pager' \in PagerBelow(nextSeq) /\ harness' = harness
    BY <1>5, <2>3, <2>4, <2>5 DEF ReadsPage, PagerBelow
  <2>7. ReadersTyped'
    BY <1>1, <1>2, <2>6 DEF ReadersTyped
  <2>8. QED
    BY <1>1, <2>7, ReaderFrame
<1>6. QED
  BY <1>3, <1>4, <1>5

LEMMA StutterTyped == ASSUME TypeInv, UNCHANGED transcriptvars PROVE TypeInv'
  BY DEF TypeInv, RecordTyped, StreamsTyped, RuntimesTyped, SpeechTyped, CallsTyped, ReadersTyped,
         transcriptvars, recordvars, runtimevars, readervars

LEMMA TranscriptStays == ASSUME TypeInv, [SpeechNext]_transcriptvars PROVE TypeInv'
  BY StartTyped, StopTyped, MemberLostTyped, WireTyped, ObservesTyped, AssignsTyped, FencesTyped, HearsTyped,
     CommitsTyped, SendsTyped, HandledTyped, FailsTyped, ReadersStayTyped, StutterTyped DEF SpeechNext

\* The types of the transcript: the live state, the log, what a runtime believes, the
\* leases, the utterances and the two readers stay within their ranges.
THEOREM TranscriptTyped == SpeechSpec => []SpeechTypeOK
<1>1. SpeechInit => TypeInv
  BY TranscriptInit
<1>2. TypeInv /\ [SpeechNext]_transcriptvars => TypeInv'
  BY TranscriptStays
<1>3. TypeInv => SpeechTypeOK
  BY TypesFollow
<1>4. QED
  BY <1>1, <1>2, <1>3, PTL DEF SpeechSpec

-----------------------------------------------------------------------------
(* The log: one run of sequences whose epochs only grow, in which no key is *)
(* twice, and no utterance but those of a set.                              *)

RunOk(s, n, e) ==
    /\ \A i \in DOMAIN s : s[i].seq = n - 1 - Len(s) + i /\ s[i].epoch < e
    /\ \A i, j \in DOMAIN s : i < j =>
          s[i].epoch <= s[j].epoch /\ (s[i].id = s[j].id => s[i].epoch # s[j].epoch)

RepeatsOnly(s, X) == \A i, j \in DOMAIN s : i < j /\ s[i].id = s[j].id => s[i].id \in X

LEMMA SuffixRun ==
    ASSUME NEW n \in Nat, NEW e \in Nat, NEW S, NEW s \in Seq(S), NEW t \in Seq(S), NEW X,
           NEW d \in 0..Len(s), IsSuffix(t, s, d), \A x \in S : x.seq \in Nat /\ x.epoch \in Nat
    PROVE  /\ RunOk(s, n, e) => RunOk(t, n, e)
           /\ RepeatsOnly(s, X) => RepeatsOnly(t, X)
           /\ Range(t) \subseteq Range(s)
<1>1. Len(s) \in Nat /\ Len(t) = Len(s) - d /\ DOMAIN t = 1..Len(t) /\ DOMAIN s = 1..Len(s) /\ Len(t) \in Nat
  <2>1. Len(s) \in Nat /\ DOMAIN s = 1..Len(s)
    BY LenProperties
  <2>2. Len(t) \in Nat /\ DOMAIN t = 1..Len(t)
    BY LenProperties
  <2>3. Len(t) = Len(s) - d
    BY DEF IsSuffix
  <2>4. QED
    BY <2>1, <2>2, <2>3
<1>2. \A i \in DOMAIN t : i + d \in DOMAIN s /\ t[i] = s[i + d]
  <2> TAKE i \in DOMAIN t
  <2>1. i \in 1..Len(t) /\ i + d \in 1..Len(s)
    BY <1>1
  <2>2. t[i] = s[i + d]
    BY <2>1 DEF IsSuffix
  <2>3. QED
    BY <1>1, <2>1, <2>2
<1>3. \A i, j \in DOMAIN t : i < j => i + d < j + d
  BY <1>1
<1>4. Range(t) \subseteq Range(s)
  BY <1>2 DEF Range
<1>5. RepeatsOnly(s, X) => RepeatsOnly(t, X)
  BY <1>2, <1>3 DEF RepeatsOnly
<1>6. ASSUME RunOk(s, n, e) PROVE RunOk(t, n, e)
  <2>1. \A i \in DOMAIN t : t[i].seq = n - 1 - Len(t) + i /\ t[i].epoch < e
    <3> TAKE i \in DOMAIN t
    <3>1. i \in Nat /\ i + d \in DOMAIN s /\ t[i] = s[i + d]
      BY <1>1, <1>2
    <3>2. s[i + d].seq = n - 1 - Len(s) + (i + d) /\ s[i + d].epoch < e
      BY <1>6, <3>1 DEF RunOk
    <3>3. QED
      BY <1>1, <3>1, <3>2
  <2>2. \A i, j \in DOMAIN t : i < j =>
           t[i].epoch <= t[j].epoch /\ (t[i].id = t[j].id => t[i].epoch # t[j].epoch)
    BY <1>2, <1>3, <1>6 DEF RunOk
  <2>3. QED
    BY <2>1, <2>2 DEF RunOk
<1>7. QED
  BY <1>4, <1>5, <1>6

LEMMA AppendRun ==
    ASSUME NEW n \in Nat, NEW e \in Nat, NEW S, NEW s \in Seq(S), NEW x \in S, NEW X,
           \A y \in S : y.seq \in Nat /\ y.epoch \in Nat
    PROVE  /\ (/\ RunOk(s, n, e) /\ x.seq = n /\ x.epoch = e - 1
               /\ ~\E i \in DOMAIN s : s[i].epoch = x.epoch /\ s[i].id = x.id)
                  => RunOk(Append(s, x), n + 1, e)
           /\ RepeatsOnly(s, X) /\ ((\E i \in DOMAIN s : s[i].id = x.id) => x.id \in X)
                  => RepeatsOnly(Append(s, x), X)
<1> DEFINE all == Append(s, x)
<1>1. /\ Len(all) = Len(s) + 1 /\ DOMAIN all = 1..Len(s) + 1 /\ DOMAIN s = 1..Len(s) /\ Len(s) \in Nat
      /\ \A i \in DOMAIN s : all[i] = s[i]
      /\ all[Len(s) + 1] = x
  BY AppendProperties
<1>2. \A i, j \in DOMAIN all : i < j =>
         i \in DOMAIN s /\ all[i] = s[i] /\ ((j \in DOMAIN s /\ all[j] = s[j]) \/ all[j] = x)
  BY <1>1
<1>3. RepeatsOnly(s, X) /\ ((\E i \in DOMAIN s : s[i].id = x.id) => x.id \in X) => RepeatsOnly(all, X)
  BY <1>2 DEF RepeatsOnly
<1>4. ASSUME RunOk(s, n, e), x.seq = n, x.epoch = e - 1,
             ~\E i \in DOMAIN s : s[i].epoch = x.epoch /\ s[i].id = x.id
      PROVE  RunOk(all, n + 1, e)
  <2>1. \A i \in DOMAIN all : all[i].seq = (n + 1) - 1 - Len(all) + i /\ all[i].epoch < e
    <3> TAKE i \in DOMAIN all
    <3>1. CASE i \in DOMAIN s
      <4>1. s[i].seq = n - 1 - Len(s) + i /\ s[i].epoch < e /\ all[i] = s[i]
        BY <1>1, <1>4, <3>1 DEF RunOk
      <4>2. QED
        BY <1>1, <3>1, <4>1
    <3>2. CASE i = Len(s) + 1
      BY <1>1, <1>4, <3>2
    <3>3. QED
      BY <1>1, <3>1, <3>2
  <2>2. \A i \in DOMAIN s : s[i].epoch <= x.epoch
    <3>1. \A i \in DOMAIN s : s[i] \in S
      OBVIOUS
    <3>2. QED
      BY <1>4, <3>1 DEF RunOk
  <2>3. \A i, j \in DOMAIN all : i < j =>
           all[i].epoch <= all[j].epoch /\ (all[i].id = all[j].id => all[i].epoch # all[j].epoch)
    BY <1>2, <1>4, <2>2 DEF RunOk
  <2>4. QED
    BY <2>1, <2>3 DEF RunOk
<1>5. QED
  BY <1>3, <1>4

\* Every step drops the oldest of the log, or appends the segment of a call.
LogForgets == tale' = [tale EXCEPT !.forgotten = @ \cup Ids(Range(segments) \ Range(segments'))]
LogCommits(c) == tale' = [tale EXCEPT
                     !.committed = @ \cup {c.id},
                     !.again = @ \cup (tale.committed \cap {c.id}),
                     !.forgotten = @ \cup Ids(Range(segments) \ Range(segments'))]

LEMMA LogSteps ==
    ASSUME TypeInv, [SpeechNext]_transcriptvars
    PROVE  \/ Dropped
           \/ \E c \in calls : Added(c) /\ UNCHANGED <<live, nextEpoch, harness, pager>>
<1>1. SpeechTypeOK
  BY TypesFollow
<1>2. CASE \E h \in Hosts : Start(h)
  BY <1>1, <1>2, BoundedIsDropped DEF Start
<1>3. ASSUME NEW c \in calls, Commit(c), UNCHANGED <<live, nextEpoch, readervars>>
      PROVE  Dropped \/ (Added(c) /\ UNCHANGED <<live, nextEpoch, harness, pager>>)
  BY <1>1, <1>3, CommitAdds DEF readervars
<1>4. CASE \E c \in calls : Handled(c)
  BY <1>3, <1>4 DEF Handled
<1>5. ASSUME NEW u \in Utterances, Fails(u)
      PROVE  Dropped \/ \E c \in calls : (Added(c) /\ UNCHANGED <<live, nextEpoch, harness, pager>>)
  <2>1. CASE UNCHANGED <<segments, nextSeq>>
    BY <1>1, <2>1, SameLogIsDropped
  <2>2. CASE \E c \in calls : Commit(c)
    BY <1>3, <1>5, <2>2 DEF Fails
  <2>3. QED
    BY <1>5, <2>1, <2>2 DEF Fails
<1>6. ASSUME UNCHANGED <<segments, nextSeq>> PROVE Dropped
  BY <1>1, <1>6, SameLogIsDropped
<1>7. CASE \E r \in Transcribers :
             \/ MemberLost(r) \/ Refreshes(r) \/ StreamLost(r) \/ Reconnects(r)
             \/ Observes(r) \/ Assigns(r) \/ Fences(r) \/ Hears(r)
  BY <1>6, <1>7 DEF MemberLost, Refreshes, StreamLost, Reconnects, Observes, Assigns, Fences, Hears, Room,
                    recordvars
<1>8. CASE \E u \in Utterances : Commits(u) \/ Sends(u)
  BY <1>6, <1>8 DEF Commits, Sends, Room, recordvars
<1>9. CASE Stop \/ Attaches \/ TurnSucceeds \/ TurnFails \/ ReadsPage \/ UNCHANGED transcriptvars
  BY <1>6, <1>9 DEF Stop, Attaches, TurnSucceeds, TurnFails, ReadsPage, Writers, recordvars, transcriptvars
<1>10. QED
  BY <1>2, <1>4, <1>5, <1>7, <1>8, <1>9 DEF SpeechNext

OneRun == RunOk(segments, nextSeq, nextEpoch)

LEMMA SegmentNumbers ==
    ASSUME NEW n \in Nat
    PROVE  \A x \in SegmentsBelow(n) : x.seq \in Nat /\ x.epoch \in Nat
  BY TranscriptBounds DEF SegmentsBelow, Epochs

LEMMA RunStays ==
    ASSUME TypeInv, OneRun, [SpeechNext]_transcriptvars
    PROVE  OneRun'
<1>1. /\ nextSeq \in Nat /\ nextEpoch \in Nat /\ TypeInv' /\ SpeechTypeOK
      /\ segments \in Seq(SegmentsBelow(nextSeq)) /\ segments \in Seq(SegmentsBelow(nextSeq + 1))
  BY TranscriptStays, TypesFollow, LogTypes DEF TypeInv, RecordTyped
<1>2. nextEpoch' \in Nat /\ nextEpoch <= nextEpoch'
  <2>1. nextEpoch' = nextEpoch \/ nextEpoch' = nextEpoch + 1
    BY DEF SpeechNext, Start, Stop, MemberLost, Refreshes, StreamLost, Reconnects, Observes, Assigns, Fences,
           Hears, Commits, Sends, Handled, Fails, Attaches, TurnSucceeds, TurnFails, ReadsPage, Writers, Room,
           recordvars, transcriptvars
  <2>2. QED
    BY <1>1, <2>1
<1>3. CASE Dropped
  <2>1. PICK d \in 0..Len(segments) : IsSuffix(segments', segments, d)
    BY <1>3 DEF Dropped
  <2>2. RunOk(segments', nextSeq, nextEpoch)
    BY <1>1, <1>3, <2>1, SegmentNumbers, SuffixRun DEF Dropped, OneRun
  <2>3. \A i \in DOMAIN segments' : segments'[i].epoch \in Nat
    <3>1. \A i \in DOMAIN segments' : segments'[i] \in SegmentsBelow(nextSeq)
      BY <1>3 DEF Dropped
    <3>2. QED
      BY <1>1, <3>1, SegmentNumbers
  <2>4. \A i \in DOMAIN segments' : segments'[i].epoch < nextEpoch'
    BY <1>1, <1>2, <2>2, <2>3 DEF RunOk
  <2>5. nextSeq' = nextSeq
    BY <1>3 DEF Dropped
  <2>6. QED
    BY <2>2, <2>4, <2>5 DEF OneRun, RunOk
<1>4. ASSUME NEW c \in calls, Added(c), UNCHANGED <<live, nextEpoch>> PROVE OneRun'
  <2> DEFINE all == Append(segments, Segment(c))
             S == SegmentsBelow(nextSeq + 1)
  <2>1. \A x \in S : x.seq \in Nat /\ x.epoch \in Nat
    BY <1>1, SegmentNumbers
  <2>2. Segment(c) \in S /\ Segment(c).seq = nextSeq /\ Segment(c).epoch = nextEpoch - 1
    <3>1. live.epoch = c.epoch /\ live.host = HostOf[c.by] /\ c.by \in members
      BY <1>4 DEF Added, MayAppend
    <3>2. live.host # Nobody
      BY <3>1, NobodyIsNobody DEF TypeInv, StreamsTyped, Hosts
    <3>3. QED
      BY <1>4, <3>1, <3>2 DEF TypeInv, RecordTyped, Added, Segment
  <2>3. ~\E i \in DOMAIN segments : segments[i].epoch = Segment(c).epoch /\ segments[i].id = Segment(c).id
    BY <1>4 DEF Added, Known, Segment
  <2>4. RunOk(all, nextSeq + 1, nextEpoch)
    BY <1>1, <2>1, <2>2, <2>3, AppendRun DEF OneRun
  <2>5. PICK d \in 0..Len(segments) : IsSuffix(segments', all, d)
    BY <1>4 DEF Added
  <2>6. segments' \in Seq(S) /\ all \in Seq(S) /\ nextSeq' = nextSeq + 1
    BY <1>4 DEF Added
  <2>7. d \in 0..Len(all)
    <3>1. Len(all) = Len(segments) + 1
      BY <1>1, <2>2, AppendProperties
    <3>2. Len(segments) \in Nat
      BY <1>1, LenProperties
    <3>3. QED
      BY <3>1, <3>2
  <2>8. RunOk(segments', nextSeq + 1, nextEpoch)
    <3>1. nextSeq + 1 \in Nat /\ nextEpoch \in Nat /\ segments' \in Seq(S) /\ all \in Seq(S)
      BY <1>1, <2>6
    <3>2. RunOk(all, nextSeq + 1, nextEpoch) => RunOk(segments', nextSeq + 1, nextEpoch)
      <4> HIDE DEF all, S
      <4>1. QED
        BY <2>1, <2>5, <2>7, <3>1, SuffixRun
    <3>3. QED
      BY <2>4, <3>2
  <2>9. QED
    BY <1>4, <2>6, <2>8 DEF OneRun
<1>5. QED
  BY <1>3, <1>4, LogSteps

LEMMA RunStarts == ASSUME SpeechInit PROVE OneRun
  BY DEF SpeechInit, OneRun, RunOk

\* The numbers of what is kept
LEMMA RunNumbers ==
    ASSUME TypeInv, OneRun
    PROVE  /\ Len(segments) \in Nat /\ DOMAIN segments = 1..Len(segments)
           /\ nextSeq \in Nat \ {0} /\ nextEpoch \in Nat
           /\ \A i \in DOMAIN segments :
                 /\ segments[i] \in SegmentsBelow(nextSeq)
                 /\ segments[i].seq = nextSeq - 1 - Len(segments) + i
                 /\ segments[i].seq \in 1..nextSeq - 1
                 /\ segments[i].epoch \in Nat /\ segments[i].id \in Utterances
<1>1. segments \in Seq(SegmentsBelow(nextSeq)) /\ nextSeq \in Nat \ {0} /\ nextEpoch \in Nat
  BY TranscriptBounds DEF TypeInv, RecordTyped
<1>2. Len(segments) \in Nat /\ DOMAIN segments = 1..Len(segments)
      /\ \A i \in DOMAIN segments : segments[i] \in SegmentsBelow(nextSeq)
  BY <1>1, LenProperties
<1>3. \A i \in DOMAIN segments :
         /\ segments[i].seq \in 1..nextSeq - 1 /\ segments[i].epoch \in Nat /\ segments[i].id \in Utterances
  BY <1>2 DEF SegmentsBelow, Epochs
<1>4. \A i \in DOMAIN segments : segments[i].seq = nextSeq - 1 - Len(segments) + i
  BY DEF OneRun, RunOk
<1>5. QED
  BY <1>1, <1>2, <1>3, <1>4

\* A load of the record leaves one run of sequences as it is.
LEMMA RunIsNormal == ASSUME TypeInv, OneRun PROVE Normalized = segments
<1> DEFINE n == Len(segments)
           kept == CHOOSE k \in SUBSET DOMAIN segments : Firsts(k)
<1>1. n \in Nat /\ DOMAIN segments = 1..n
  BY RunNumbers
<1>2. \A i, j \in DOMAIN segments : i # j => segments[i].seq # segments[j].seq
  BY <1>1, RunNumbers
<1>3. \A i, j \in 1..n : Older(j, i) <=> j < i
  BY <1>1, RunNumbers DEF Older
<1>4. \A i, j \in 1..n : j < i => ~Double(j, i)
  BY <1>1, <1>2 DEF Double, OneRun, RunOk
<1>5. \A k \in SUBSET DOMAIN segments : Firsts(k) <=> k = DOMAIN segments
  <2>1. \A i, j \in DOMAIN segments : ~(Older(j, i) /\ Double(j, i))
    BY <1>1, <1>3, <1>4
  <2>2. ASSUME NEW k \in SUBSET DOMAIN segments PROVE Firsts(k) <=> k = DOMAIN segments
    BY <2>1 DEF Firsts
  <2>3. QED
    BY <2>2
<1>6. kept = DOMAIN segments
  BY <1>5
<1> HIDE DEF kept
<1>7. \A m \in 0..n : Cardinality(1..m) = m
  <2> TAKE m \in 0..n
  <2>1. m \in Nat
    BY <1>1
  <2>2. Cardinality(1..m) = IF 1 > m THEN 0 ELSE m - 1 + 1
    BY <2>1, FS_Interval
  <2>3. QED
    BY <2>1, <2>2
<1>8. \A i \in 1..n : Cardinality({j \in kept : Older(j, i)}) = i - 1
  <2> TAKE i \in 1..n
  <2>1. {j \in kept : Older(j, i)} = 1..i - 1
    <3>1. \A j \in 1..n : Older(j, i) <=> j < i
      BY <1>3
    <3>2. {j \in 1..n : Older(j, i)} = 1..i - 1
      BY <1>1, <3>1
    <3>3. QED
      BY <1>1, <1>6, <3>2
  <2>2. i - 1 \in 0..n
    BY <1>1
  <2>3. QED
    BY <1>7, <2>1, <2>2
<1>9. \A m \in 1..n : (CHOOSE i \in kept : Cardinality({j \in kept : Older(j, i)}) = m - 1) = m
  <2> TAKE m \in 1..n
  <2> DEFINE Behind(i) == Cardinality({j \in kept : Older(j, i)})
  <2>1. \A i \in 1..n : Behind(i) = i - 1
    BY <1>8
  <2> HIDE DEF Behind
  <2>2. \A i \in 1..n : Behind(i) = m - 1 <=> i = m
    BY <1>1, <2>1
  <2>3. (CHOOSE i \in 1..n : Behind(i) = m - 1) = m
    BY <2>2
  <2>4. kept = 1..n
    BY <1>1, <1>6
  <2>5. (CHOOSE i \in kept : Behind(i) = m - 1) = m
    BY <2>3, <2>4
  <2>6. QED
    BY <2>5 DEF Behind
<1>10. Normalized = [m \in 1..n |-> segments[m]]
  <2> DEFINE At(m) == CHOOSE i \in kept : Cardinality({j \in kept : Older(j, i)}) = m - 1
  <2>1. Normalized = [m \in 1..Cardinality(kept) |-> segments[At(m)]]
    BY DEF Normalized, kept
  <2>2. Cardinality(kept) = n
    <3>1. kept = 1..n /\ n \in 0..n
      BY <1>1, <1>6
    <3>2. QED
      BY <1>7, <3>1
  <2>3. \A m \in 1..n : At(m) = m
    BY <1>9
  <2> HIDE DEF At
  <2>4. QED
    BY <2>1, <2>2, <2>3
<1>11. segments = [m \in 1..n |-> segments[m]]
  BY <1>1 DEF TypeInv, RecordTyped
<1>12. QED
  BY <1>10, <1>11

-----------------------------------------------------------------------------
(* The lease: while nobody overtakes, the newest epoch of a Host has one     *)
(* resident, who has the lease.                                              *)

LeaseHeld ==
    ~tale.overtook =>
        /\ \A h \in Hosts : lease[h] # Nobody => lease[h].epoch = tale.newest[h]
        /\ \A r \in Transcribers :
              /\ producer[r].next <= tale.newest[HostOf[r]]
              /\ producer[r].next = tale.newest[HostOf[r]] /\ producer[r].next # 0 =>
                    lease[HostOf[r]] = [epoch |-> producer[r].next, holder |-> r]
        /\ \A r, q \in Transcribers :
              r # q /\ HostOf[r] = HostOf[q] /\ producer[r].next = producer[q].next => producer[r].next = 0

LEMMA LeaseStarts == ASSUME SpeechInit PROVE LeaseHeld
  BY DEF SpeechInit, LeaseHeld, Quiet, Hosts

LEMMA LeaseFrame ==
    ASSUME LeaseHeld, UNCHANGED lease, \A r \in Transcribers : producer'[r].next = producer[r].next,
           tale'.newest = tale.newest, tale'.overtook = tale.overtook
    PROVE  LeaseHeld'
  BY DEF LeaseHeld

LEMMA LeaseObserves ==
    ASSUME TypeInv, LeaseHeld, NEW r \in Transcribers, Observes(r)
    PROVE  LeaseHeld'
<1> DEFINE state == Head(feed[r])
           h == HostOf[r]
           authorized == state.host = h /\ Acquires(lease[h], state, r)
           epoch == IF authorized THEN state.epoch ELSE 0
           N == tale.newest
<1> SUFFICES ASSUME ~tale'.overtook PROVE LeaseHeld'
  BY DEF LeaseHeld
<1>1. /\ h \in Hosts /\ producer \in [Transcribers -> Producers] /\ lease \in [Hosts -> Leases \cup {Nobody}]
      /\ tale \in Tales /\ N \in [Hosts -> 0..MaxEpochs] /\ \A q \in Transcribers : HostOf[q] \in Hosts
  BY DEF TypeInv, RuntimesTyped, Hosts, Tales
<1>2. epoch \in 0..MaxEpochs
  <2>1. state \in Told(nextEpoch)
    BY HeadTailProperties DEF Observes, TypeInv, StreamsTyped
  <2>2. state.epoch \in 0..MaxEpochs
    BY <2>1 DEF Told, States
  <2>3. QED
    BY <2>2, TranscriptBounds
<1>3. /\ producer' = [producer EXCEPT ![r].next = epoch]
      /\ lease' = [lease EXCEPT ![h] =
            IF authorized THEN [epoch |-> epoch, holder |-> r]
            ELSE IF lease[h] = [epoch |-> producer[r].epoch, holder |-> r] THEN Nobody ELSE @]
      /\ tale' = [tale EXCEPT !.overtook = @ \/ (authorized /\ N[h] > epoch),
                              !.newest[h] = IF authorized /\ epoch > @ THEN epoch ELSE @]
  BY DEF Observes
<1>4. ~tale.overtook /\ (authorized => N[h] <= epoch)
  <2> HIDE DEF state, authorized, epoch
  <2>1. tale'.overtook = (tale.overtook \/ (authorized /\ N[h] > epoch))
    BY <1>1, <1>3 DEF Tales
  <2>2. N[h] \in Int /\ epoch \in Int
    BY <1>1, <1>2
  <2>3. ~tale.overtook /\ ~(authorized /\ N[h] > epoch)
    BY <2>1, Zenon
  <2>4. QED
    BY <2>2, <2>3
<1>5. /\ tale'.newest[h] = IF authorized THEN epoch ELSE N[h]
      /\ \A g \in Hosts \ {h} : tale'.newest[g] = N[g]
  BY <1>1, <1>2, <1>3, <1>4 DEF Tales
<1>6. /\ producer'[r].next = epoch
      /\ \A q \in Transcribers \ {r} : producer'[q].next = producer[q].next
      /\ \A q \in Transcribers : producer[q].next \in 0..MaxEpochs
  BY <1>1, <1>3 DEF Producers
<1>7. /\ \A g \in Hosts : lease[g] # Nobody => lease[g].epoch = N[g]
      /\ \A q \in Transcribers :
            /\ producer[q].next <= N[HostOf[q]]
            /\ producer[q].next = N[HostOf[q]] /\ producer[q].next # 0 =>
                  lease[HostOf[q]] = [epoch |-> producer[q].next, holder |-> q]
      /\ \A p, q \in Transcribers :
            p # q /\ HostOf[p] = HostOf[q] /\ producer[p].next = producer[q].next => producer[p].next = 0
  BY <1>4 DEF LeaseHeld
\* Who has the newest epoch keeps r from it.
<1>8. \A q \in Transcribers \ {r} :
         HostOf[q] = h /\ authorized /\ producer[q].next = epoch => epoch = 0
  <2> SUFFICES ASSUME NEW q \in Transcribers \ {r}, HostOf[q] = h, authorized, producer[q].next = epoch, epoch # 0
               PROVE  FALSE
    OBVIOUS
  <2>1. producer[q].next = N[h]
    <3>1. producer[q].next <= N[h] /\ N[h] <= epoch
      BY <1>4, <1>7
    <3>2. N[h] \in Int /\ epoch \in Int
      BY <1>1, <1>2
    <3>3. QED
      BY <3>1, <3>2
  <2>2. lease[h] = [epoch |-> epoch, holder |-> q]
    BY <1>7, <2>1
  <2>3. lease[h] \in Leases
    BY <1>1, <1>2, <2>2, TranscriptBounds DEF Leases, Epochs
  <2>4. lease[h] # Nobody /\ lease[h].epoch = state.epoch /\ lease[h].holder # r
    BY <2>2, <2>3, NobodyIsNobody
  <2>5. QED
    BY <2>4 DEF Acquires
<1> HIDE DEF state, authorized, epoch
<1>9. \A g \in Hosts : lease'[g] # Nobody => lease'[g].epoch = tale'.newest[g]
  BY <1>1, <1>3, <1>5, <1>7
<1>10. ASSUME NEW q \in Transcribers
       PROVE  /\ producer'[q].next <= tale'.newest[HostOf[q]]
              /\ producer'[q].next = tale'.newest[HostOf[q]] /\ producer'[q].next # 0 =>
                    lease'[HostOf[q]] = [epoch |-> producer'[q].next, holder |-> q]
  <2>0. authorized \/ epoch = 0
    BY DEF epoch
  <2>1. CASE q = r
    BY <1>1, <1>2, <1>3, <1>5, <1>6, <2>0, <2>1
  <2>2. CASE q # r /\ HostOf[q] # h
    BY <1>1, <1>3, <1>5, <1>6, <1>7, <2>2
  <2>3. CASE q # r /\ HostOf[q] = h
    <3>1. producer'[q].next = producer[q].next /\ producer[q].next <= N[h]
      BY <1>6, <1>7, <2>3
    <3>2. CASE authorized
      <4>1. tale'.newest[h] = epoch /\ N[h] <= epoch /\ (producer[q].next = epoch => epoch = 0)
        BY <1>4, <1>5, <1>8, <2>3, <3>2
      <4>2. N[h] \in 0..MaxEpochs /\ producer[q].next \in 0..MaxEpochs
        BY <1>1, <1>6
      <4>3. QED
        BY <1>2, <2>3, <3>1, <4>1, <4>2
    <3>3. CASE ~authorized
      <4>1. tale'.newest[h] = N[h]
        BY <1>5, <3>3
      <4>2. ASSUME producer[q].next = N[h], producer[q].next # 0
            PROVE  lease'[h] = [epoch |-> producer[q].next, holder |-> q]
        <5>1. lease[h] = [epoch |-> producer[q].next, holder |-> q]
          BY <1>7, <2>3, <4>2
        <5>2. lease[h] # [epoch |-> producer[r].epoch, holder |-> r]
          BY <2>3, <5>1
        <5>3. QED
          BY <1>1, <1>3, <3>3, <5>1, <5>2
      <4>3. QED
        BY <2>3, <3>1, <4>1, <4>2
    <3>4. QED
      BY <3>2, <3>3
  <2>4. QED
    BY <2>1, <2>2, <2>3
<1>11. ASSUME NEW p \in Transcribers, NEW q \in Transcribers, p # q, HostOf[p] = HostOf[q],
              producer'[p].next = producer'[q].next
       PROVE  producer'[p].next = 0
  <2>1. authorized \/ epoch = 0
    BY DEF epoch
  <2>2. QED
    BY <1>6, <1>7, <1>8, <1>11, <2>1
<1>12. QED
  BY <1>9, <1>10, <1>11 DEF LeaseHeld

LEMMA LeaseStays ==
    ASSUME TypeInv, LeaseHeld, [SpeechNext]_transcriptvars
    PROVE  LeaseHeld'
<1>1. tale \in Tales /\ producer \in [Transcribers -> Producers]
  BY DEF TypeInv, RuntimesTyped
<1>2. CASE \E r \in Transcribers : Observes(r)
  BY <1>2, LeaseObserves
<1>3. CASE \E r \in Transcribers : Assigns(r) \/ Fences(r)
  BY <1>1, <1>3, LeaseFrame DEF Assigns, Fences, Fence, Producers
<1>4. CASE (\E h \in Hosts : Start(h)) \/ Stop \/ UNCHANGED transcriptvars
  BY <1>1, <1>4, LeaseFrame DEF Start, Stop, transcriptvars, runtimevars, Tales
<1>5. CASE \E r \in Transcribers : MemberLost(r) \/ Refreshes(r) \/ StreamLost(r) \/ Reconnects(r) \/ Hears(r)
  BY <1>5, LeaseFrame DEF MemberLost, Refreshes, StreamLost, Reconnects, Hears, runtimevars
<1>6. ASSUME NEW c, Commit(c) PROVE tale'.newest = tale.newest /\ tale'.overtook = tale.overtook
  BY <1>1, <1>6 DEF Commit, Tales
<1>7. CASE (\E u \in Utterances : Commits(u) \/ Sends(u) \/ Fails(u)) \/ \E c \in calls : Handled(c)
  BY <1>1, <1>6, <1>7, LeaseFrame DEF Commits, Sends, Fails, Handled, Tales
<1>8. CASE Attaches \/ TurnSucceeds \/ TurnFails \/ ReadsPage
  BY <1>8, LeaseFrame DEF Attaches, TurnSucceeds, TurnFails, ReadsPage, Writers, runtimevars
<1>9. QED
  BY <1>2, <1>3, <1>4, <1>5, <1>7, <1>8 DEF SpeechNext

LEMMA LeaseMeansOne == ASSUME LeaseHeld PROVE OneProducer
  BY DEF LeaseHeld, OneProducer, Notified

-----------------------------------------------------------------------------
(* What an utterance leaves: it is sent under the epoch of its generation,   *)
(* but for one that is sent unfenced.                                        *)

\* What was heard under h is written under e only if that is the same: e is over.
Right(h, e) == h = e \/ (live.epoch # e /\ e < nextEpoch)

\* The epochs of what an utterance has under way and in the log
Traces(u) ==
    {c.epoch : c \in {d \in calls : d.id = u}} \cup {s.epoch : s \in {t \in Range(segments) : t.id = u}}

Fresh(u) == spoken[u].current /\ producer[spoken[u].by].fenced

Nothing == \A u \in Utterances : spoken[u].step = "none" =>
              ~spoken[u].current /\ Traces(u) = {} /\ u \notin tale.committed /\ u \notin tale.unfenced

FreshIsRight == \A u \in Utterances : Fresh(u) =>
                   LET e == producer[spoken[u].by].epoch
                   IN  (e # 0 => Right(spoken[u].heard, e)) /\ Traces(u) \subseteq {e}

CallsAreRight == \A c \in calls : c.id \in tale.unfenced \/ Right(spoken[c.id].heard, c.epoch)

OneTrace == \A u \in Utterances \ tale.unfenced : \A e, f \in Traces(u) : e = f

Remembered == tale.committed \subseteq tale.forgotten \cup Ids(Range(segments))

AgainOnly == tale.again \subseteq tale.forgotten \cup tale.unfenced

SentRight ==
    /\ Nothing /\ FreshIsRight /\ CallsAreRight /\ OneTrace
    /\ SpokenInItsEpoch /\ RepeatsOnly(segments, tale.unfenced) /\ Remembered /\ AgainOnly

LEMMA SentStarts == ASSUME SpeechInit PROVE SentRight
<1>1. Range(segments) = {} /\ calls = {} /\ DOMAIN segments = {}
  BY DEF SpeechInit, Range
<1>2. \A u \in Utterances : ~spoken[u].current /\ Traces(u) = {}
  BY <1>1 DEF SpeechInit, Unsaid, Traces
<1>3. tale.committed = {} /\ tale.again = {} /\ tale.unfenced = {}
  BY DEF SpeechInit
<1>4. Nothing /\ FreshIsRight /\ CallsAreRight /\ OneTrace
  BY <1>1, <1>2, <1>3 DEF Nothing, FreshIsRight, Fresh, CallsAreRight, OneTrace
<1>5. SpokenInItsEpoch /\ RepeatsOnly(segments, tale.unfenced) /\ Remembered /\ AgainOnly
  BY <1>1, <1>3 DEF SpokenInItsEpoch, RepeatsOnly, Remembered, AgainOnly
<1>6. QED
  BY <1>4, <1>5 DEF SentRight

\* What a step does to the log, and what the tale says of it
Forgets == tale.forgotten \cup Ids(Range(segments) \ Range(segments')) \subseteq tale'.forgotten

Keeps ==
    /\ Dropped /\ Forgets /\ tale'.committed = tale.committed /\ tale'.again = tale.again
    /\ tale.unfenced \subseteq tale'.unfenced

Writes(c) ==
    /\ Added(c) /\ Forgets /\ UNCHANGED <<live, nextEpoch>>
    /\ tale'.committed = tale.committed \cup {c.id}
    /\ tale'.again = tale.again \cup (tale.committed \cap {c.id})
    /\ tale'.unfenced = tale.unfenced

LEMMA CommitTold ==
    ASSUME TypeInv, NEW c \in calls, Commit(c), UNCHANGED <<live, nextEpoch>>
    PROVE  Writes(c) \/ (Keeps /\ UNCHANGED <<segments, nextSeq, tale>>)
<1>1. tale \in Tales /\ SpeechTypeOK
  BY TypesFollow DEF TypeInv
<1>2. ASSUME UNCHANGED <<segments, nextSeq, tale>>, Dropped PROVE Keeps
  BY <1>2 DEF Keeps, Forgets, Ids
<1>3. CASE Added(c) /\ tale' = [tale EXCEPT
                 !.committed = @ \cup {c.id},
                 !.again = @ \cup (tale.committed \cap {c.id}),
                 !.forgotten = @ \cup Ids(Range(segments) \ Range(segments'))]
  <2>1. /\ tale'.committed = tale.committed \cup {c.id}
        /\ tale'.again = tale.again \cup (tale.committed \cap {c.id})
        /\ tale'.forgotten = tale.forgotten \cup Ids(Range(segments) \ Range(segments'))
        /\ tale'.unfenced = tale.unfenced
    BY <1>1, <1>3 DEF Tales
  <2>2. Forgets
    <3>1. tale'.forgotten = tale.forgotten \cup Ids(Range(segments) \ Range(segments'))
      BY <2>1
    <3>2. QED
      BY <3>1 DEF Forgets
  <2>3. QED
    BY <1>3, <2>1, <2>2 DEF Writes
<1>4. QED
  BY <1>1, <1>2, <1>3, CommitAdds

LEMMA LogTold ==
    ASSUME TypeInv, [SpeechNext]_transcriptvars
    PROVE  Keeps \/ \E c \in calls : Writes(c)
<1>1. SpeechTypeOK /\ tale \in Tales
  BY TypesFollow DEF TypeInv
<1>2. CASE \E h \in Hosts : Start(h)
  <2>1. Dropped
    BY <1>1, <1>2, BoundedIsDropped DEF Start
  <2>2. tale' = [tale EXCEPT !.forgotten = @ \cup Ids(Range(segments) \ Range(segments'))]
    BY <1>2 DEF Start
  <2>3. QED
    BY <1>1, <2>1, <2>2 DEF Keeps, Forgets, Tales
<1>3. ASSUME UNCHANGED <<segments, nextSeq>>, tale'.forgotten = tale.forgotten, tale'.committed = tale.committed,
             tale'.again = tale.again, tale.unfenced \subseteq tale'.unfenced
      PROVE  Keeps
  BY <1>1, <1>3, SameLogIsDropped DEF Keeps, Forgets, Ids
<1>4. CASE \E c \in calls : Handled(c)
  BY <1>4, CommitTold DEF Handled
<1>5. ASSUME NEW u \in Utterances, Fails(u) PROVE Keeps \/ \E c \in calls : Writes(c)
  <2>1. CASE UNCHANGED <<segments, nextSeq, tale>>
    BY <1>3, <2>1
  <2>2. CASE \E c \in calls : Commit(c)
    BY <1>5, <2>2, CommitTold DEF Fails
  <2>3. QED
    BY <1>5, <2>1, <2>2 DEF Fails
<1>6. CASE \E r \in Transcribers :
             MemberLost(r) \/ Refreshes(r) \/ StreamLost(r) \/ Reconnects(r) \/ Assigns(r) \/ Fences(r) \/ Hears(r)
  BY <1>3, <1>6 DEF MemberLost, Refreshes, StreamLost, Reconnects, Assigns, Fences, Hears, Room, recordvars
<1>7. CASE \E r \in Transcribers : Observes(r)
  <2>1. UNCHANGED <<segments, nextSeq>>
    BY <1>7 DEF Observes, Room, recordvars
  <2>2. /\ tale'.forgotten = tale.forgotten /\ tale'.committed = tale.committed /\ tale'.again = tale.again
        /\ tale'.unfenced = tale.unfenced
    BY <1>1, <1>7 DEF Observes, Tales
  <2>3. QED
    BY <1>3, <2>1, <2>2
<1>8. CASE \E u \in Utterances : Commits(u) \/ Sends(u)
  BY <1>1, <1>3, <1>8 DEF Commits, Sends, Room, recordvars, Tales
<1>9. CASE Stop \/ Attaches \/ TurnSucceeds \/ TurnFails \/ ReadsPage \/ UNCHANGED transcriptvars
  BY <1>3, <1>9 DEF Stop, Attaches, TurnSucceeds, TurnFails, ReadsPage, Writers, recordvars, transcriptvars
<1>10. QED
  BY <1>2, <1>4, <1>5, <1>6, <1>7, <1>8, <1>9 DEF SpeechNext

\* What is in the log after a step
LEMMA DroppedLog ==
    ASSUME TypeInv, Dropped, NEW X
    PROVE  /\ Range(segments') \subseteq Range(segments)
           /\ RepeatsOnly(segments, X) => RepeatsOnly(segments', X)
<1>1. segments \in Seq(SegmentsBelow(nextSeq)) /\ nextSeq \in Nat /\ nextEpoch \in Nat
  BY TranscriptBounds DEF TypeInv, RecordTyped
<1>2. segments' \in Seq(SegmentsBelow(nextSeq))
  BY DEF Dropped
<1>3. PICK d \in 0..Len(segments) : IsSuffix(segments', segments, d)
  BY DEF Dropped
<1>4. \A x \in SegmentsBelow(nextSeq) : x.seq \in Nat /\ x.epoch \in Nat
  BY <1>1, SegmentNumbers
<1>5. QED
  BY <1>1, <1>2, <1>3, <1>4, SuffixRun

LEMMA AddedLog ==
    ASSUME TypeInv, NEW c \in calls, Added(c), NEW X
    PROVE  /\ Range(segments') \subseteq Range(segments) \cup {Segment(c)}
           /\ RepeatsOnly(segments, X) /\ ((\E i \in DOMAIN segments : segments[i].id = c.id) => c.id \in X)
                 => RepeatsOnly(segments', X)
<1> DEFINE S == SegmentsBelow(nextSeq + 1)
           all == Append(segments, Segment(c))
<1>1. nextSeq \in Nat /\ nextEpoch \in Nat /\ segments \in Seq(S) /\ Segment(c) \in S
  BY TypesFollow, LogTypes, TranscriptBounds DEF TypeInv, RecordTyped, Added
<1>2. PICK d \in 0..Len(segments) : IsSuffix(segments', all, d)
  BY DEF Added
<1>3. segments' \in Seq(S) /\ all \in Seq(S)
  BY DEF Added
<1>4. \A x \in S : x.seq \in Nat /\ x.epoch \in Nat
  BY <1>1, SegmentNumbers
<1>5. /\ Len(all) = Len(segments) + 1 /\ DOMAIN all = 1..Len(segments) + 1 /\ DOMAIN segments = 1..Len(segments)
      /\ Len(segments) \in Nat /\ \A i \in DOMAIN segments : all[i] = segments[i]
      /\ all[Len(segments) + 1] = Segment(c)
  BY <1>1, AppendProperties
<1>6. d \in 0..Len(all)
  BY <1>5
<1>7. Range(all) \subseteq Range(segments) \cup {Segment(c)}
  BY <1>5 DEF Range
<1>8. Segment(c).id = c.id
  BY DEF Segment
<1>9. RepeatsOnly(segments, X) /\ ((\E i \in DOMAIN segments : segments[i].id = c.id) => c.id \in X)
         => RepeatsOnly(all, X)
  BY <1>1, <1>4, <1>8, AppendRun
<1> HIDE DEF S, all
<1>10. (RepeatsOnly(all, X) => RepeatsOnly(segments', X)) /\ Range(segments') \subseteq Range(all)
  BY <1>1, <1>2, <1>3, <1>4, <1>6, SuffixRun
<1>11. QED
  BY <1>7, <1>9, <1>10

\* The segment of a call is in the log after it is added.
LEMMA AddedIsKept ==
    ASSUME TypeInv, NEW c \in calls, Added(c)
    PROVE  Segment(c) \in Range(segments')
<1> DEFINE S == SegmentsBelow(nextSeq + 1)
           all == Append(segments, Segment(c))
<1>1. segments \in Seq(S) /\ Segment(c) \in S /\ segments' \in Seq(S)
  BY TypesFollow, LogTypes DEF Added
<1>2. PICK d \in 0..Len(segments) : IsSuffix(segments', all, d)
  BY DEF Added
<1>3. Len(all) = Len(segments) + 1 /\ all[Len(segments) + 1] = Segment(c) /\ Len(segments) \in Nat
  BY <1>1, AppendProperties
<1>4. Len(segments') \in Nat /\ DOMAIN segments' = 1..Len(segments')
  BY <1>1, LenProperties
<1>5. Len(segments') = Len(segments) + 1 - d /\ \A i \in 1..Len(segments') : segments'[i] = all[i + d]
  BY <1>2, <1>3 DEF IsSuffix
<1>6. Len(segments') \in DOMAIN segments' /\ Len(segments') + d = Len(segments) + 1
  BY <1>3, <1>4, <1>5
<1>7. segments'[Len(segments')] = Segment(c)
  BY <1>3, <1>4, <1>5, <1>6
<1>8. QED
  BY <1>6, <1>7 DEF Range

LEMMA RememberedStays ==
    ASSUME Remembered, Forgets, NEW X, tale'.committed \subseteq tale.committed \cup X,
           X \subseteq Ids(Range(segments'))
    PROVE  Remembered'
<1> SUFFICES ASSUME NEW x \in tale'.committed, x \notin tale'.forgotten PROVE x \in Ids(Range(segments'))
  BY DEF Remembered
<1>1. CASE x \in X
  BY <1>1
<1>2. CASE x \in tale.committed
  <2>1. x \notin tale.forgotten /\ x \notin Ids(Range(segments) \ Range(segments'))
    BY DEF Forgets
  <2>2. PICK s \in Range(segments) : s.id = x
    BY <1>2, <2>1 DEF Remembered, Ids
  <2>3. s \in Range(segments')
    BY <2>1, <2>2 DEF Ids
  <2>4. QED
    BY <2>2, <2>3 DEF Ids
<1>3. QED
  BY <1>1, <1>2

LEMMA KeptLogIsRight ==
    ASSUME TypeInv, SentRight, Keeps
    PROVE  SpokenInItsEpoch' /\ RepeatsOnly(segments', tale'.unfenced) /\ Remembered' /\ AgainOnly'
<1>1. SpokenInItsEpoch /\ RepeatsOnly(segments, tale.unfenced) /\ Remembered /\ AgainOnly
  BY DEF SentRight
<1>2. Range(segments') \subseteq Range(segments) /\ RepeatsOnly(segments', tale.unfenced)
  BY <1>1, DroppedLog DEF Keeps
<1>3. SpokenInItsEpoch'
  BY <1>1, <1>2 DEF SpokenInItsEpoch, Keeps
<1>4. RepeatsOnly(segments', tale'.unfenced)
  BY <1>2 DEF RepeatsOnly, Keeps
<1>5. Remembered'
  BY <1>1, RememberedStays DEF Keeps
<1>6. AgainOnly'
  BY <1>1 DEF AgainOnly, Keeps, Forgets
<1>7. QED
  BY <1>3, <1>4, <1>5, <1>6

LEMMA WrittenLogIsRight ==
    ASSUME TypeInv, SentRight, NEW c \in calls, Writes(c)
    PROVE  SpokenInItsEpoch' /\ RepeatsOnly(segments', tale'.unfenced) /\ Remembered' /\ AgainOnly'
<1>1. /\ SpokenInItsEpoch /\ RepeatsOnly(segments, tale.unfenced) /\ Remembered /\ AgainOnly
      /\ CallsAreRight /\ OneTrace
  BY DEF SentRight
<1>2. Added(c) /\ Forgets /\ tale'.unfenced = tale.unfenced /\ MayAppend(c) /\ ~Known(c)
  BY DEF Writes, Added
<1>3. c.id \in Utterances
  BY DEF TypeInv, CallsTyped, Calls
<1>4. Segment(c).id = c.id /\ Segment(c).epoch = c.epoch /\ Segment(c).heard = spoken[c.id].heard
  BY DEF Segment
\* Another segment of the utterance is of another epoch, so it was sent unfenced.
<1>5. ASSUME NEW s \in Range(segments), s.id = c.id PROVE c.id \in tale.unfenced
  <2>1. s.epoch # c.epoch
    BY <1>2, <1>5 DEF Known, Range
  <2>2. s.epoch \in Traces(c.id) /\ c.epoch \in Traces(c.id)
    BY <1>5 DEF Traces
  <2>3. QED
    BY <1>1, <1>3, <2>1, <2>2 DEF OneTrace
<1>6. Range(segments') \subseteq Range(segments) \cup {Segment(c)} /\ RepeatsOnly(segments', tale.unfenced)
  <2>1. (\E i \in DOMAIN segments : segments[i].id = c.id) => c.id \in tale.unfenced
    BY <1>5 DEF Range
  <2>2. QED
    BY <1>1, <1>2, <2>1, AddedLog
<1>7. SpokenInItsEpoch'
  <2>1. c.id \in tale.unfenced \/ spoken[c.id].heard = c.epoch
    BY <1>1, <1>2 DEF CallsAreRight, Right, MayAppend
  <2>2. QED
    BY <1>1, <1>2, <1>4, <1>6, <2>1 DEF SpokenInItsEpoch
<1>8. Remembered'
  <2>1. {c.id} \subseteq Ids(Range(segments'))
    BY <1>2, <1>4, AddedIsKept DEF Ids
  <2>2. QED
    BY <1>1, <1>2, <2>1, RememberedStays DEF Writes
<1>9. AgainOnly'
  <2>1. c.id \in tale.committed => c.id \in tale.forgotten \cup tale.unfenced
    BY <1>1, <1>5 DEF Remembered, Ids
  <2>2. tale.forgotten \subseteq tale'.forgotten
    BY <1>2 DEF Forgets
  <2>3. QED
    BY <1>1, <1>2, <2>1, <2>2 DEF AgainOnly, Writes
<1>10. QED
  BY <1>2, <1>6, <1>7, <1>8, <1>9

-----------------------------------------------------------------------------
(* The steps of an utterance *)

LEMMA RightStays ==
    ASSUME TypeInv, [SpeechNext]_transcriptvars, NEW h, NEW e \in Epochs, Right(h, e)
    PROVE  h = e \/ (live'.epoch # e /\ e < nextEpoch')
<1>1. nextEpoch \in Int /\ e \in Int /\ e # 0
  BY TranscriptBounds DEF TypeInv, RecordTyped, Epochs
<1>2. \/ UNCHANGED <<live, nextEpoch>>
      \/ live' = Off /\ nextEpoch' = nextEpoch
      \/ live'.epoch = nextEpoch /\ nextEpoch' = nextEpoch + 1
  <2>1. ASSUME NEW g \in Hosts, Start(g) PROVE live'.epoch = nextEpoch /\ nextEpoch' = nextEpoch + 1
    BY <2>1 DEF Start
  <2>2. CASE Stop \/ \E r \in Transcribers : MemberLost(r)
    BY <2>2 DEF Stop, MemberLost
  <2>3. CASE \E r \in Transcribers :
               \/ Refreshes(r) \/ StreamLost(r) \/ Reconnects(r)
               \/ Observes(r) \/ Assigns(r) \/ Fences(r) \/ Hears(r)
    BY <2>3 DEF Refreshes, StreamLost, Reconnects, Observes, Assigns, Fences, Hears, Room, recordvars
  <2>4. CASE (\E u \in Utterances : Commits(u) \/ Sends(u) \/ Fails(u)) \/ \E c \in calls : Handled(c)
    BY <2>4 DEF Commits, Sends, Fails, Handled, Room, recordvars
  <2>5. CASE Attaches \/ TurnSucceeds \/ TurnFails \/ ReadsPage \/ UNCHANGED transcriptvars
    BY <2>5 DEF Attaches, TurnSucceeds, TurnFails, ReadsPage, Writers, recordvars, transcriptvars
  <2>6. QED
    BY <2>1, <2>2, <2>3, <2>4, <2>5 DEF SpeechNext
<1>3. QED
  BY <1>1, <1>2 DEF Right, Off

LEMMA TracesShrink ==
    ASSUME TypeInv, [SpeechNext]_transcriptvars, calls' \subseteq calls, NEW u
    PROVE  Traces(u)' \subseteq Traces(u)
<1>1. ASSUME Keeps PROVE Range(segments') \subseteq Range(segments)
  BY <1>1, DroppedLog DEF Keeps
<1>2. ASSUME NEW c \in calls, Writes(c) PROVE Range(segments') \subseteq Range(segments) \cup {Segment(c)}
  BY <1>2, AddedLog DEF Writes
<1>3. \A c \in calls : Segment(c).id = c.id /\ Segment(c).epoch = c.epoch
  BY DEF Segment
<1>4. \A s \in Range(segments') : s \in Range(segments) \/ \E c \in calls : s.id = c.id /\ s.epoch = c.epoch
  BY <1>1, <1>2, <1>3, LogTold
<1>5. QED
  BY <1>4 DEF Traces

\* An attempt of u under the epoch of the moment
Attempts(u) ==
    /\ spoken[u].step = "waits" /\ IsLive(u)
    /\ calls' = calls \cup {[id |-> u, by |-> spoken[u].by, epoch |-> producer[spoken[u].by].epoch]}
    /\ tale'.unfenced = IF producer[spoken[u].by].fenced THEN tale.unfenced ELSE tale.unfenced \cup {u}
    /\ UNCHANGED <<live, nextEpoch, segments, producer>> /\ tale'.committed = tale.committed

LEMMA OneAttempts ==
    ASSUME TypeInv, [SpeechNext]_transcriptvars
    PROVE  (calls' \subseteq calls /\ tale'.unfenced = tale.unfenced) \/ \E u \in Utterances : Attempts(u)
<1>1. tale \in Tales
  BY DEF TypeInv
<1>2. ASSUME NEW u \in Utterances, Sends(u)
      PROVE  (calls' \subseteq calls /\ tale'.unfenced = tale.unfenced) \/ Attempts(u)
  BY <1>1, <1>2 DEF Sends, Attempts, Tales, Room, recordvars
<1>3. ASSUME NEW c, Commit(c) PROVE tale'.unfenced = tale.unfenced
  BY <1>1, <1>3 DEF Commit, Tales
<1>4. CASE (\E u \in Utterances : Fails(u)) \/ \E c \in calls : Handled(c)
  BY <1>3, <1>4 DEF Fails, Handled
<1>5. CASE \E h \in Hosts : Start(h)
  BY <1>1, <1>5 DEF Start, Tales, runtimevars
<1>6. CASE \E r \in Transcribers : Observes(r)
  BY <1>1, <1>6 DEF Observes, Tales
<1>7. CASE \E r \in Transcribers :
             MemberLost(r) \/ Refreshes(r) \/ StreamLost(r) \/ Reconnects(r) \/ Assigns(r) \/ Fences(r) \/ Hears(r)
  BY <1>7 DEF MemberLost, Refreshes, StreamLost, Reconnects, Assigns, Fences, Hears, runtimevars
<1>8. CASE \E u \in Utterances : Commits(u)
  BY <1>8 DEF Commits
<1>9. CASE Stop \/ Attaches \/ TurnSucceeds \/ TurnFails \/ ReadsPage \/ UNCHANGED transcriptvars
  BY <1>9 DEF Stop, Attaches, TurnSucceeds, TurnFails, ReadsPage, Writers, runtimevars, transcriptvars
<1>10. QED
  BY <1>2, <1>4, <1>5, <1>6, <1>7, <1>8, <1>9 DEF SpeechNext

\* What a step makes of an utterance
Stays(u) ==
    /\ spoken[u].step # "none" =>
          spoken'[u].step # "none" /\ spoken'[u].heard = spoken[u].heard /\ spoken'[u].by = spoken[u].by
    /\ spoken'[u].step = "none" => spoken[u].step = "none" /\ ~spoken'[u].current
    /\ spoken'[u].current /\ producer'[spoken'[u].by].fenced =>
          \/ /\ Fresh(u) /\ spoken'[u].heard = spoken[u].heard /\ spoken'[u].by = spoken[u].by
             /\ producer'[spoken[u].by].epoch = producer[spoken[u].by].epoch
          \/ /\ spoken[u].step = "none" /\ spoken'[u].heard = live.epoch /\ spoken'[u].by \in Transcribers
             /\ UNCHANGED <<live, nextEpoch, producer>>

LEMMA UtteranceSteps ==
    ASSUME TypeInv, Nothing, [SpeechNext]_transcriptvars, NEW u \in Utterances
    PROVE  Stays(u)
<1>1. /\ spoken \in [Utterances -> Utterance] /\ producer \in [Transcribers -> Producers]
      /\ spoken[u].step # "none" => spoken[u].by \in Transcribers
      /\ spoken[u].step = "none" => ~spoken[u].current
  BY DEF TypeInv, SpeechTyped, RuntimesTyped, Nothing
\* A step that leaves the runtimes as they are, or makes no utterance current
<1>2. ASSUME \A q \in Transcribers :
                producer'[q].epoch = producer[q].epoch /\ producer'[q].fenced = producer[q].fenced,
             \/ spoken'[u] = spoken[u]
             \/ /\ spoken[u].step # "none" /\ spoken'[u].step # "none"
                /\ spoken'[u].heard = spoken[u].heard /\ spoken'[u].by = spoken[u].by
                /\ spoken'[u].current => spoken[u].current
      PROVE  Stays(u)
  <2>1. CASE spoken[u].step = "none"
    BY <1>1, <1>2, <2>1 DEF Stays
  <2>2. CASE spoken[u].step # "none"
    BY <1>1, <1>2, <2>2 DEF Stays, Fresh
  <2>3. QED
    BY <2>1, <2>2
<1>3. CASE \E r \in Transcribers : Observes(r)
  BY <1>1, <1>2, <1>3 DEF Observes, Producers
<1>4. ASSUME NEW r \in Transcribers, Assigns(r) PROVE Stays(u)
  <2>1. spoken' = spoken /\ producer'[r].fenced = FALSE /\ \A q \in Transcribers \ {r} : producer'[q] = producer[q]
    BY <1>1, <1>4 DEF Assigns, Producers
  <2>2. QED
    BY <1>1, <2>1 DEF Stays, Fresh
<1>5. ASSUME NEW r \in Transcribers, Fences(r) PROVE Stays(u)
  <2>1. /\ spoken'[u] = IF spoken[u].by = r THEN [spoken[u] EXCEPT !.current = FALSE] ELSE spoken[u]
        /\ \A q \in Transcribers \ {r} : producer'[q] = producer[q]
    BY <1>1, <1>5 DEF Fences, Fence
  <2>2. CASE spoken[u].by = r
    <3>1. /\ spoken'[u].current = FALSE /\ spoken'[u].step = spoken[u].step
          /\ spoken'[u].heard = spoken[u].heard /\ spoken'[u].by = spoken[u].by
      BY <1>1, <2>1, <2>2 DEF Utterance
    <3>2. QED
      BY <3>1 DEF Stays
  <2>3. CASE spoken[u].by # r
    BY <1>1, <2>1, <2>3 DEF Stays, Fresh
  <2>4. QED
    BY <2>2, <2>3
<1>6. ASSUME NEW r \in Transcribers, Hears(r) PROVE Stays(u)
  <2>1. UNCHANGED <<live, nextEpoch, producer>>
    BY <1>6 DEF Hears, Room, recordvars
  <2>2. PICK v \in Utterances :
           /\ spoken[v].step = "none"
           /\ spoken' = [spoken EXCEPT ![v] = [by |-> r, current |-> TRUE, heard |-> live.epoch,
                                              left |-> MaxAttempts, step |-> "said"]]
    BY <1>6 DEF Hears
  <2>3. CASE u = v
    BY <1>1, <2>1, <2>2, <2>3 DEF Stays
  <2>4. CASE u # v
    BY <1>1, <1>2, <2>1, <2>2, <2>4
  <2>5. QED
    BY <2>3, <2>4
<1>7. ASSUME NEW v \in Utterances, Commits(v) \/ Sends(v) \/ Fails(v), spoken[v].step # "none" PROVE Stays(u)
  <2>1. producer' = producer
    BY <1>7 DEF Commits, Sends, Fails
  <2>2. CASE u = v
    <3>1. spoken[u] \in Utterance
      BY <1>1
    <3>2. /\ spoken'[u].step # "none" /\ spoken'[u].heard = spoken[u].heard /\ spoken'[u].by = spoken[u].by
          /\ spoken'[u].current => spoken[u].current
      <4>1. \/ spoken'[u] = [spoken[u] EXCEPT !.step = "waits"]
            \/ spoken'[u] = [spoken[u] EXCEPT !.step = "asked", !.left = @ - 1]
            \/ spoken'[u] = Done(spoken[u])
        <5>1. CASE Commits(v)
          BY <1>1, <2>2, <5>1 DEF Commits
        <5>2. CASE Sends(v)
          BY <1>1, <2>2, <3>1, <5>2 DEF Sends, Utterance
        <5>3. CASE Fails(v)
          BY <1>1, <2>2, <5>3 DEF Fails
        <5>4. QED
          BY <1>7, <5>1, <5>2, <5>3
      <4>2. QED
        BY <3>1, <4>1 DEF Done, Utterance
    <3>3. QED
      BY <1>2, <1>7, <2>1, <2>2, <3>2
  <2>3. CASE u # v
    <3>1. spoken'[u] = spoken[u]
      BY <1>1, <1>7, <2>3 DEF Commits, Sends, Fails
    <3>2. QED
      BY <1>2, <2>1, <3>1
  <2>4. QED
    BY <2>2, <2>3
<1>8. CASE \E v \in Utterances : Commits(v) \/ Sends(v) \/ Fails(v)
  BY <1>7, <1>8 DEF Commits, Sends, Fails
<1>9. ASSUME NEW c \in calls, Handled(c) PROVE Stays(u)
  <2>1. producer' = producer /\ spoken' = [spoken EXCEPT ![c.id] = IF @.step = "asked" THEN Done(@) ELSE @]
    BY <1>9 DEF Handled
  <2>2. CASE u = c.id /\ spoken[u].step = "asked"
    <3>1. spoken'[u] = Done(spoken[u]) /\ spoken[u] \in Utterance
      BY <1>1, <2>1, <2>2
    <3>2. /\ spoken'[u].step # "none" /\ spoken'[u].heard = spoken[u].heard /\ spoken'[u].by = spoken[u].by
          /\ spoken'[u].current => spoken[u].current
      BY <3>1 DEF Done, Utterance
    <3>3. QED
      BY <1>2, <2>1, <2>2, <3>2
  <2>3. CASE ~(u = c.id /\ spoken[u].step = "asked")
    <3>1. spoken'[u] = spoken[u]
      BY <1>1, <2>1, <2>3
    <3>2. QED
      BY <1>2, <2>1, <3>1
  <2>4. QED
    BY <2>2, <2>3
<1>10. CASE UNCHANGED <<producer, spoken>>
  BY <1>2, <1>10
<1>11. CASE (\E h \in Hosts : Start(h)) \/ Stop \/ UNCHANGED transcriptvars
  BY <1>10, <1>11 DEF Start, Stop, transcriptvars, runtimevars
<1>12. CASE \E r \in Transcribers : MemberLost(r) \/ Refreshes(r) \/ StreamLost(r) \/ Reconnects(r)
  BY <1>10, <1>12 DEF MemberLost, Refreshes, StreamLost, Reconnects, runtimevars
<1>13. CASE Attaches \/ TurnSucceeds \/ TurnFails \/ ReadsPage
  BY <1>10, <1>13 DEF Attaches, TurnSucceeds, TurnFails, ReadsPage, Writers, runtimevars
<1>14. QED
  BY <1>3, <1>4, <1>5, <1>6, <1>8, <1>9, <1>11, <1>12, <1>13 DEF SpeechNext

LEMMA AttemptTraces ==
    ASSUME NEW v \in Utterances, Attempts(v), NEW u
    PROVE  /\ u # v => Traces(u)' \subseteq Traces(u)
           /\ Traces(u)' \subseteq Traces(u) \cup {producer[spoken[v].by].epoch}
<1>1. UNCHANGED segments
      /\ calls' = calls \cup {[id |-> v, by |-> spoken[v].by, epoch |-> producer[spoken[v].by].epoch]}
  BY DEF Attempts
<1>2. QED
  BY <1>1 DEF Traces

\* A fenced attempt is of a fresh utterance.
LEMMA AttemptIsFresh ==
    ASSUME TypeInv, SentRight, NEW v \in Utterances, Attempts(v), v \notin tale'.unfenced
    PROVE  /\ Fresh(v) /\ Traces(v) \subseteq {producer[spoken[v].by].epoch}
           /\ Right(spoken[v].heard, producer[spoken[v].by].epoch)
<1>1. Fresh(v) /\ producer[spoken[v].by].epoch # 0
  BY DEF Attempts, IsLive, Fresh
<1>2. QED
  BY <1>1 DEF SentRight, FreshIsRight

LEMMA NothingStays ==
    ASSUME TypeInv, SentRight, [SpeechNext]_transcriptvars
    PROVE  Nothing'
<1> SUFFICES ASSUME NEW u \in Utterances, spoken'[u].step = "none"
             PROVE  ~spoken'[u].current /\ Traces(u)' = {} /\ u \notin tale'.committed /\ u \notin tale'.unfenced
  BY DEF Nothing
<1>1. Nothing
  BY DEF SentRight
<1>2. spoken[u].step = "none" /\ ~spoken'[u].current
  BY <1>1, UtteranceSteps DEF Stays
<1>3. Traces(u) = {} /\ u \notin tale.committed /\ u \notin tale.unfenced
  BY <1>1, <1>2 DEF Nothing
<1>4. u \notin tale'.committed
  <2>1. \A c \in calls : c.id # u
    BY <1>3 DEF Traces
  <2>2. QED
    BY <1>3, <2>1, LogTold DEF Keeps, Writes
<1>5. CASE calls' \subseteq calls /\ tale'.unfenced = tale.unfenced
  BY <1>2, <1>3, <1>4, <1>5, TracesShrink
<1>6. ASSUME NEW v \in Utterances, Attempts(v) PROVE Traces(u)' = {} /\ u \notin tale'.unfenced
  <2>1. u # v
    BY <1>2, <1>6 DEF Attempts
  <2>2. Traces(u)' = {}
    BY <1>3, <1>6, <2>1, AttemptTraces
  <2>3. QED
    BY <1>3, <1>6, <2>1, <2>2 DEF Attempts
<1>7. QED
  BY <1>2, <1>4, <1>5, <1>6, OneAttempts

LEMMA FreshStays ==
    ASSUME TypeInv, SentRight, [SpeechNext]_transcriptvars
    PROVE  FreshIsRight'
<1> DEFINE OfNow(h, e) == h = e \/ (live'.epoch # e /\ e < nextEpoch')
<1> SUFFICES ASSUME NEW u \in Utterances, spoken'[u].current, producer'[spoken'[u].by].fenced
             PROVE  /\ producer'[spoken'[u].by].epoch # 0 =>
                          OfNow(spoken'[u].heard, producer'[spoken'[u].by].epoch)
                    /\ Traces(u)' \subseteq {producer'[spoken'[u].by].epoch}
  BY DEF FreshIsRight, Fresh, Right
<1>1. Nothing /\ FreshIsRight
  BY DEF SentRight
<1>2. /\ producer \in [Transcribers -> Producers]
      /\ \A r \in Transcribers : producer[r].epoch \in 0..MaxEpochs /\ producer[r].epoch < nextEpoch
      /\ \A r \in Transcribers : producer[r].epoch # 0 => producer[r].epoch \in Epochs
      /\ spoken[u].step # "none" => spoken[u].by \in Transcribers
  BY TranscriptBounds DEF TypeInv, RuntimesTyped, Producers, SpeechTyped, Epochs
<1>3. Stays(u)
  BY <1>1, UtteranceSteps
<1>4. CASE /\ Fresh(u) /\ spoken'[u].heard = spoken[u].heard /\ spoken'[u].by = spoken[u].by
           /\ producer'[spoken[u].by].epoch = producer[spoken[u].by].epoch
  <2> DEFINE e == producer[spoken[u].by].epoch
  <2>1. spoken[u].by \in Transcribers
    BY <1>1, <1>2, <1>4 DEF Fresh, Nothing
  <2>2. (e # 0 => Right(spoken[u].heard, e)) /\ Traces(u) \subseteq {e}
    BY <1>1, <1>4 DEF FreshIsRight
  <2>3. e # 0 => OfNow(spoken'[u].heard, producer'[spoken'[u].by].epoch)
    <3>1. ASSUME e # 0 PROVE OfNow(spoken[u].heard, e)
      <4>1. e \in Epochs
        BY <1>2, <2>1, <3>1
      <4>2. Right(spoken[u].heard, e)
        BY <2>2, <3>1
      <4>3. QED
        BY <4>1, <4>2, RightStays
    <3>2. QED
      BY <1>4, <3>1
  <2>4. Traces(u)' \subseteq {e}
    <3>1. CASE calls' \subseteq calls
      BY <2>2, <3>1, TracesShrink
    <3>2. ASSUME NEW v \in Utterances, Attempts(v) PROVE Traces(u)' \subseteq {e}
      <4>1. CASE u = v
        BY <2>2, <3>2, <4>1, AttemptTraces
      <4>2. CASE u # v
        BY <2>2, <3>2, <4>2, AttemptTraces
      <4>3. QED
        BY <4>1, <4>2
    <3>3. QED
      BY <3>1, <3>2, OneAttempts
  <2>5. QED
    BY <1>4, <2>3, <2>4
<1>5. CASE /\ spoken[u].step = "none" /\ spoken'[u].heard = live.epoch /\ spoken'[u].by \in Transcribers
           /\ UNCHANGED <<live, nextEpoch, producer>>
  <2>1. producer[spoken'[u].by].epoch < nextEpoch
    BY <1>2, <1>5
  <2>2. OfNow(spoken'[u].heard, producer'[spoken'[u].by].epoch)
    BY <1>5, <2>1
  <2>3. Traces(u)' = {}
    <3>1. Traces(u) = {}
      BY <1>1, <1>5 DEF Nothing
    <3>2. CASE calls' \subseteq calls
      BY <3>1, <3>2, TracesShrink
    <3>3. ASSUME NEW v \in Utterances, Attempts(v) PROVE Traces(u)' = {}
      <4>1. u # v
        BY <1>5, <3>3 DEF Attempts
      <4>2. QED
        BY <3>1, <3>3, <4>1, AttemptTraces
    <3>4. QED
      BY <3>2, <3>3, OneAttempts
  <2>4. QED
    BY <2>2, <2>3
<1>6. QED
  BY <1>3, <1>4, <1>5 DEF Stays

LEMMA CallsStayRight ==
    ASSUME TypeInv, SentRight, [SpeechNext]_transcriptvars
    PROVE  CallsAreRight'
<1> SUFFICES ASSUME NEW c \in calls', c.id \notin tale'.unfenced
             PROVE  spoken'[c.id].heard = c.epoch \/ (live'.epoch # c.epoch /\ c.epoch < nextEpoch')
  BY DEF CallsAreRight, Right
<1>1. Nothing /\ CallsAreRight /\ calls \subseteq Calls
  BY DEF SentRight, TypeInv, CallsTyped
<1>2. \A e \in Epochs : \A h : Right(h, e) => h = e \/ (live'.epoch # e /\ e < nextEpoch')
  BY RightStays
<1>3. CASE c \in calls
  <2>1. c.id \in Utterances /\ c.epoch \in Epochs
    BY <1>1, <1>3 DEF Calls
  <2>2. spoken'[c.id].heard = spoken[c.id].heard
    <3>1. c.epoch \in Traces(c.id)
      BY <1>3 DEF Traces
    <3>2. spoken[c.id].step # "none"
      BY <1>1, <2>1, <3>1 DEF Nothing
    <3>3. QED
      BY <1>1, <2>1, <3>2, UtteranceSteps DEF Stays
  <2>3. c.id \notin tale.unfenced
    BY OneAttempts DEF Attempts
  <2>4. QED
    BY <1>1, <1>2, <1>3, <2>1, <2>2, <2>3 DEF CallsAreRight
<1>4. CASE c \notin calls
  <2>1. PICK v \in Utterances : Attempts(v)
    BY <1>4, OneAttempts
  <2>2. c.id = v /\ c.epoch = producer[spoken[v].by].epoch
    BY <1>4, <2>1 DEF Attempts
  <2>3. Right(spoken[v].heard, c.epoch)
    BY <2>1, <2>2, AttemptIsFresh
  <2>4. spoken'[v].heard = spoken[v].heard
    BY <1>1, <2>1, UtteranceSteps DEF Stays, Attempts
  <2>5. c.epoch \in Epochs
    <3>1. spoken[v].by \in Transcribers /\ producer[spoken[v].by].epoch # 0
      BY <2>1 DEF Attempts, IsLive, TypeInv, SpeechTyped
    <3>2. QED
      BY <2>2, <3>1, TranscriptBounds DEF TypeInv, RuntimesTyped, Producers, Epochs
  <2>6. QED
    BY <1>2, <2>2, <2>3, <2>4, <2>5
<1>5. QED
  BY <1>3, <1>4

LEMMA OneTraceStays ==
    ASSUME TypeInv, SentRight, [SpeechNext]_transcriptvars
    PROVE  OneTrace'
<1> SUFFICES ASSUME NEW u \in Utterances, u \notin tale'.unfenced
             PROVE  \A e, f \in Traces(u)' : e = f
  BY DEF OneTrace
<1>1. OneTrace
  BY DEF SentRight
<1>2. CASE calls' \subseteq calls /\ tale'.unfenced = tale.unfenced
  BY <1>1, <1>2, TracesShrink DEF OneTrace
<1>3. ASSUME NEW v \in Utterances, Attempts(v) PROVE \A e, f \in Traces(u)' : e = f
  <2>1. CASE u = v
    <3>1. Traces(u)' \subseteq {producer[spoken[u].by].epoch}
      BY <1>3, <2>1, AttemptIsFresh, AttemptTraces
    <3>2. QED
      BY <3>1
  <2>2. CASE u # v
    <3>1. u \notin tale.unfenced /\ Traces(u)' \subseteq Traces(u)
      BY <1>3, <2>2, AttemptTraces DEF Attempts
    <3>2. QED
      BY <1>1, <3>1 DEF OneTrace
  <2>3. QED
    BY <2>1, <2>2
<1>4. QED
  BY <1>2, <1>3, OneAttempts

LEMMA SentStays ==
    ASSUME TypeInv, SentRight, [SpeechNext]_transcriptvars
    PROVE  SentRight'
<1>1. Nothing' /\ FreshIsRight' /\ CallsAreRight' /\ OneTrace'
  BY NothingStays, FreshStays, CallsStayRight, OneTraceStays
<1>2. SpokenInItsEpoch' /\ RepeatsOnly(segments', tale'.unfenced) /\ Remembered' /\ AgainOnly'
  BY LogTold, KeptLogIsRight, WrittenLogIsRight
<1>3. QED
  BY <1>1, <1>2 DEF SentRight

LEMMA ExactLog == ASSUME TypeInv, OneRun, SentRight PROVE LogIsExact
<1>1. /\ \A i \in DOMAIN segments : segments[i].seq = nextSeq - 1 - Len(segments) + i
      /\ \A i, j \in DOMAIN segments : i < j =>
            /\ segments[i].epoch <= segments[j].epoch
            /\ segments[i].id = segments[j].id => segments[i].epoch # segments[j].epoch
  BY DEF OneRun, RunOk
<1>2. \A i, j \in DOMAIN segments : i < j /\ segments[i].id = segments[j].id => segments[i].id \in tale.unfenced
  BY DEF SentRight, RepeatsOnly
<1>3. Normalized = segments
  BY RunIsNormal
<1>4. tale.again \subseteq tale.forgotten \cup tale.unfenced
  BY DEF SentRight, AgainOnly
<1>5. QED
  BY <1>1, <1>2, <1>3, <1>4 DEF LogIsExact

\* What is in the log was spoken in its epoch unless it was sent before the STT generation
\* was replaced; one resident of a Host transcribes an epoch unless an older state took
\* the lease; the log is one run of sequences that a load of the record leaves as it is;
\* and an utterance is written again only unfenced, or when it was forgotten.
THEOREM TranscriptSpokenOnce == SpeechSpec => []SpokenOnce
<1> DEFINE Inv == TypeInv /\ OneRun /\ LeaseHeld /\ SentRight
<1>1. SpeechInit => Inv
  BY TranscriptInit, RunStarts, LeaseStarts, SentStarts
<1>2. Inv /\ [SpeechNext]_transcriptvars => Inv'
  BY TranscriptStays, RunStays, LeaseStays, SentStays
<1>3. Inv => SpokenOnce
  BY LeaseMeansOne, ExactLog DEF SpokenOnce, SentRight
<1>4. QED
  BY <1>1, <1>2, <1>3, PTL DEF SpeechSpec

-----------------------------------------------------------------------------
(* The readers *)

HarnessFollows ==
    /\ ~harness.twice
    /\ \A n \in harness.got : n <= harness.through
    /\ \A t \in harness.turn :
          /\ harness.through < t
          /\ \A s \in Range(segments) : harness.through < s.seq /\ s.seq <= t => s.seq \in harness.turn
    /\ \A s \in Range(segments) : s.seq <= harness.through => s.seq \in harness.got

PagerFollows == pager.got = 1..pager.cursor \/ pager.gap

LEMMA ReadersStart == ASSUME SpeechInit PROVE HarnessFollows /\ PagerFollows
<1>1. Range(segments) = {}
  BY DEF SpeechInit, Range
<1>2. 1..0 = {}
  OBVIOUS
<1>3. QED
  BY <1>1, <1>2 DEF SpeechInit, HarnessFollows, PagerFollows

\* What is added is newer than all that a reader has.
LEMMA HarnessLog ==
    ASSUME TypeInv, HarnessFollows, UNCHANGED harness, Dropped \/ \E c \in calls : Added(c)
    PROVE  HarnessFollows'
<1>1. /\ nextSeq \in Nat /\ harness.through \in 0..nextSeq - 1
      /\ \A t \in harness.turn : t \in 1..nextSeq - 1
  BY DEF TypeInv, RecordTyped, ReadersTyped, HarnessBelow
<1>2. \A s \in Range(segments') : s \in Range(segments) \/ s.seq = nextSeq
  <2>1. ASSUME Dropped PROVE Range(segments') \subseteq Range(segments)
    BY <2>1, DroppedLog
  <2>2. ASSUME NEW c \in calls, Added(c) PROVE Range(segments') \subseteq Range(segments) \cup {Segment(c)}
    BY <2>2, AddedLog
  <2>3. \A c \in calls : Segment(c).seq = nextSeq
    BY DEF Segment
  <2>4. QED
    BY <2>1, <2>2, <2>3
<1>3. ~(nextSeq <= harness.through) /\ \A t \in harness.turn : ~(nextSeq <= t)
  BY <1>1
<1>4. QED
  BY <1>2, <1>3 DEF HarnessFollows

\* The numbers that the readers compare
LEMMA ReaderNumbers ==
    ASSUME TypeInv
    PROVE  /\ nextSeq - 1 \in Nat
           /\ harness.through \in 0..nextSeq - 1 /\ harness.turn \in SUBSET (1..nextSeq - 1)
           /\ harness.got \in SUBSET (1..nextSeq - 1) /\ harness.twice \in BOOLEAN
           /\ pager.cursor \in 0..nextSeq - 1 /\ pager.got \in SUBSET (1..nextSeq - 1)
           /\ \A s \in Range(segments) : s.seq \in 1..nextSeq - 1
<1>1. \A i \in DOMAIN segments : segments[i] \in SegmentsBelow(nextSeq)
  BY DEF TypeInv, RecordTyped
<1>2. \A i \in DOMAIN segments : segments[i].seq \in 1..nextSeq - 1
  BY <1>1 DEF SegmentsBelow
<1>3. \A s \in Range(segments) : s.seq \in 1..nextSeq - 1
  BY <1>2 DEF Range
<1>4. QED
  BY <1>3 DEF TypeInv, RecordTyped, ReadersTyped, HarnessBelow, PagerBelow

LEMMA TurnFollows ==
    ASSUME TypeInv, HarnessFollows, TurnSucceeds
    PROVE  HarnessFollows'
<1> DEFINE last == NewestOf(harness.turn)
<1>1. last \in harness.turn /\ \A t \in harness.turn : t <= last
  BY ReaderNumbers, NewestOfIsGreatest DEF TurnSucceeds
<1>2. /\ harness' = [through |-> last, turn |-> {}, got |-> harness.got \cup harness.turn,
                     twice |-> harness.twice \/ harness.turn \cap harness.got # {}]
      /\ UNCHANGED segments
  BY DEF TurnSucceeds, Writers, recordvars
<1> HIDE DEF last
<1>3. /\ harness.through \in Int /\ last \in Int /\ harness.through < last
      /\ \A t \in harness.turn : t \in Int /\ harness.through < t
      /\ \A n \in harness.got : n \in Int /\ n <= harness.through
      /\ \A s \in Range(segments) : s.seq \in Int
  BY <1>1, ReaderNumbers DEF HarnessFollows
<1>4. harness.turn \cap harness.got = {} /\ ~harness.twice
  BY <1>3 DEF HarnessFollows
<1>5. \A n \in harness.got \cup harness.turn : n <= last
  BY <1>1, <1>3
<1>6. \A s \in Range(segments) : s.seq <= last => s.seq \in harness.got \cup harness.turn
  <2> TAKE s \in Range(segments)
  <2>1. CASE s.seq <= harness.through
    BY <2>1 DEF HarnessFollows
  <2>2. CASE harness.through < s.seq
    BY <1>1, <2>2 DEF HarnessFollows
  <2>3. QED
    BY <1>3, <2>1, <2>2
<1>7. QED
  BY <1>2, <1>4, <1>5, <1>6 DEF HarnessFollows

LEMMA HarnessStays ==
    ASSUME TypeInv, HarnessFollows, [SpeechNext]_transcriptvars
    PROVE  HarnessFollows'
<1>1. CASE UNCHANGED harness
  BY <1>1, HarnessLog, LogSteps
<1>2. CASE TurnSucceeds
  BY <1>2, TurnFollows
<1>3. CASE Attaches
  <2>1. UNCHANGED segments /\ harness' = [harness EXCEPT !.turn = Seqs(Segments(harness.through))]
    BY <1>3 DEF Attaches, Writers, recordvars
  <2>2. harness \in HarnessBelow(nextSeq)
    BY DEF TypeInv, ReadersTyped
  <2>3. /\ harness'.through = harness.through /\ harness'.got = harness.got /\ harness'.twice = harness.twice
        /\ harness'.turn = Seqs(Segments(harness.through))
    BY <2>1, <2>2 DEF HarnessBelow
  <2>4. \A s \in Range(segments) : s.seq \in Int /\ harness.through \in Int
    BY ReaderNumbers
  <2>5. \A t \in harness'.turn : harness.through < t
    BY <2>3, <2>4 DEF Seqs, Segments
  <2>6. \A s \in Range(segments) : harness.through < s.seq => s.seq \in harness'.turn
    BY <2>3, <2>4 DEF Seqs, Segments
  <2>7. QED
    BY <2>1, <2>3, <2>5, <2>6 DEF HarnessFollows
<1>4. CASE TurnFails
  <2>1. UNCHANGED segments /\ harness' = [harness EXCEPT !.turn = {}] /\ harness \in HarnessBelow(nextSeq)
    BY <1>4 DEF TurnFails, Writers, recordvars, TypeInv, ReadersTyped
  <2>2. QED
    BY <2>1 DEF HarnessFollows, HarnessBelow
<1>5. CASE \E r \in Transcribers :
             \/ MemberLost(r) \/ Refreshes(r) \/ StreamLost(r) \/ Reconnects(r)
             \/ Observes(r) \/ Assigns(r) \/ Fences(r) \/ Hears(r)
  BY <1>1, <1>5 DEF MemberLost, Refreshes, StreamLost, Reconnects, Observes, Assigns, Fences, Hears, readervars
<1>6. CASE (\E u \in Utterances : Commits(u) \/ Sends(u) \/ Fails(u)) \/ \E c \in calls : Handled(c)
  BY <1>1, <1>6 DEF Commits, Sends, Fails, Handled, readervars
<1>7. CASE (\E h \in Hosts : Start(h)) \/ Stop \/ ReadsPage \/ UNCHANGED transcriptvars
  BY <1>1, <1>7 DEF Start, Stop, ReadsPage, transcriptvars, readervars
<1>8. QED
  BY <1>2, <1>3, <1>4, <1>5, <1>6, <1>7 DEF SpeechNext

\* A page has the oldest that the reader has not read.
LEMMA PageIsOldest ==
    ASSUME TypeInv, OneRun, NEW after \in Nat, NEW j \in DOMAIN segments, NEW k \in DOMAIN segments,
           segments[j] \in Page(after), k <= j, segments[k].seq > after
    PROVE  segments[k] \in Page(after)
<1>1. Len(segments) \in Nat /\ DOMAIN segments = 1..Len(segments)
  BY RunNumbers
<1> DEFINE Beyond(i) == {m \in 1..i : segments[m].seq > after}
<1>2. PICK i \in DOMAIN segments : segments[i] = segments[j] /\ segments[i].seq > after
                                   /\ Cardinality(Beyond(i)) <= PageLimit
  BY DEF Page
<1>3. i = j
  BY <1>1, <1>2, RunNumbers
<1>4. Beyond(k) \subseteq Beyond(j)
  BY <1>1
<1>5. IsFiniteSet(Beyond(j)) /\ Cardinality(Beyond(j)) \in Nat
  <2>1. IsFiniteSet(1..j) /\ Beyond(j) \subseteq 1..j
    BY <1>1, FS_Interval
  <2>2. IsFiniteSet(Beyond(j))
    BY <2>1, FS_Subset
  <2>3. QED
    BY <2>2, FS_CardinalityType
<1>6. Cardinality(Beyond(k)) <= Cardinality(Beyond(j)) /\ Cardinality(Beyond(k)) \in Nat
  <2>1. IsFiniteSet(Beyond(k)) /\ Cardinality(Beyond(k)) <= Cardinality(Beyond(j))
    BY <1>4, <1>5, FS_Subset
  <2>2. QED
    BY <2>1, FS_CardinalityType
<1>7. PageLimit \in Int /\ Cardinality(Beyond(j)) <= PageLimit
  BY <1>2, <1>3, TranscriptBounds
<1>8. Cardinality(Beyond(k)) <= PageLimit
  BY <1>5, <1>6, <1>7
<1>9. QED
  BY <1>8 DEF Page

LEMMA PageFollows ==
    ASSUME TypeInv, OneRun, PagerFollows, ReadsPage
    PROVE  PagerFollows'
<1> DEFINE after == pager.cursor
           page == Seqs(Page(after))
           last == NewestOf(page)
<1>1. pager' = [cursor |-> last, got |-> pager.got \cup page, gap |-> pager.gap \/ Truncated(after)]
  BY DEF ReadsPage
<1>2. page \in SUBSET (1..nextSeq - 1) /\ page # {} /\ nextSeq - 1 \in Nat /\ after \in Nat
  BY ReaderNumbers, SeqsTyped DEF ReadsPage, Seqs
<1>3. last \in page /\ \A m \in page : m <= last
  BY <1>2, NewestOfIsGreatest
<1>4. /\ Len(segments) \in Nat /\ DOMAIN segments = 1..Len(segments) /\ nextSeq \in Nat
      /\ \A i \in DOMAIN segments : segments[i].seq = nextSeq - 1 - Len(segments) + i
  BY RunNumbers
<1>5. PICK j \in DOMAIN segments : segments[j].seq = last /\ segments[j] \in Page(after) /\ last > after
  BY <1>3 DEF Seqs, Page
<1> HIDE DEF last, page
<1>6. \A m \in page : m > after /\ m \in Int
  <2>1. \A m \in page : m > after
    BY DEF page, Seqs, Page
  <2>2. QED
    BY <1>2, <2>1
<1>7. ASSUME ~Truncated(after), pager.got = 1..after
      PROVE  pager.got \cup page = 1..last
  <2>1. after >= segments[1].seq - 1 /\ 1 \in DOMAIN segments
    <3>1. segments # <<>> /\ 1 \in DOMAIN segments /\ segments[1].seq \in Int
      BY <1>4, <1>5
    <3>2. ~(after < segments[1].seq - 1)
      BY <1>7, <3>1 DEF Truncated
    <3>3. QED
      BY <1>2, <3>1, <3>2
  <2>2. ASSUME NEW m \in after + 1..last PROVE m \in page
    <3> DEFINE k == m - (nextSeq - 1 - Len(segments))
    <3>1. last \in Int /\ last = nextSeq - 1 - Len(segments) + j
      BY <1>4, <1>5
    <3>2. k >= 1
      <4>1. segments[1].seq = nextSeq - 1 - Len(segments) + 1 /\ after >= segments[1].seq - 1
        BY <1>4, <2>1
      <4>2. m \in Int /\ after \in Int /\ m >= after + 1 /\ nextSeq - 1 - Len(segments) \in Int
        BY <1>2, <1>4, <2>2
      <4>3. QED
        BY <4>1, <4>2
    <3>3. k <= j
      BY <1>4, <2>2, <3>1
    <3>4. k \in DOMAIN segments /\ segments[k].seq = m
      BY <1>4, <2>2, <3>2, <3>3
    <3>5. segments[k].seq > after
      BY <1>2, <2>2, <3>4
    <3>6. segments[k] \in Page(after)
      BY <1>2, <1>5, <3>3, <3>4, <3>5, PageIsOldest
    <3>7. QED
      BY <3>4, <3>6 DEF page, Seqs
  <2>3. \A m \in page : m \in 1..last
    BY <1>2, <1>3
  <2>4. 1..after \subseteq 1..last
    BY <1>2, <1>3, <1>6
  <2>5. \A m \in 1..last : m \in 1..after \/ m \in after + 1..last
    BY <1>2
  <2>6. QED
    BY <1>7, <2>2, <2>3, <2>4, <2>5
<1>8. QED
  BY <1>1, <1>7 DEF PagerFollows

LEMMA PagerStays ==
    ASSUME TypeInv, OneRun, PagerFollows, [SpeechNext]_transcriptvars
    PROVE  PagerFollows'
<1>1. CASE UNCHANGED pager
  BY <1>1 DEF PagerFollows
<1>2. CASE ReadsPage
  BY <1>2, PageFollows
<1>3. CASE Attaches \/ TurnSucceeds \/ TurnFails
  BY <1>1, <1>3 DEF Attaches, TurnSucceeds, TurnFails
<1>4. CASE \E r \in Transcribers :
             \/ MemberLost(r) \/ Refreshes(r) \/ StreamLost(r) \/ Reconnects(r)
             \/ Observes(r) \/ Assigns(r) \/ Fences(r) \/ Hears(r)
  BY <1>1, <1>4 DEF MemberLost, Refreshes, StreamLost, Reconnects, Observes, Assigns, Fences, Hears, readervars
<1>5. CASE (\E u \in Utterances : Commits(u) \/ Sends(u) \/ Fails(u)) \/ \E c \in calls : Handled(c)
  BY <1>1, <1>5 DEF Commits, Sends, Fails, Handled, readervars
<1>6. CASE (\E h \in Hosts : Start(h)) \/ Stop \/ UNCHANGED transcriptvars
  BY <1>1, <1>6 DEF Start, Stop, transcriptvars, readervars
<1>7. QED
  BY <1>2, <1>3, <1>4, <1>5, <1>6 DEF SpeechNext

\* A Harness is given each segment in one successful turn and is passed over for none that
\* is still kept; a paging Agent has read all that is before its cursor, or was told of a
\* gap.
THEOREM TranscriptReaders == SpeechSpec => []ReadersMissNothing
<1> DEFINE Inv == TypeInv /\ OneRun /\ HarnessFollows /\ PagerFollows
<1>1. SpeechInit => Inv
  BY TranscriptInit, RunStarts, ReadersStart
<1>2. Inv /\ [SpeechNext]_transcriptvars => Inv'
  BY TranscriptStays, RunStays, HarnessStays, PagerStays
<1>3. Inv => ReadersMissNothing
  BY DEF HarnessFollows, PagerFollows, ReadersMissNothing
<1>4. QED
  BY <1>1, <1>2, <1>3, PTL DEF SpeechSpec
=============================================================================
