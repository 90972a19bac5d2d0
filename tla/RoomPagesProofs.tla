-------------------------- MODULE RoomPagesProofs --------------------------
(***************************************************************************)
(* Proofs about what the pages of a room show and receive: the Apps, the   *)
(* surfaces of the Agents, and the media of the other participants.        *)
(*                                                                         *)
(*   Part 1.  The writes of a handler                                      *)
(*   Part 2.  The types of a generated App                                 *)
(*   Part 3.  Its publication and its shared state                         *)
(*   Part 4.  The curated Apps and the requests of the Agent               *)
(*   Part 5.  The surfaces of the Agents                                   *)
(*   Part 6.  What a browser receives of another participant               *)
(***************************************************************************)
EXTENDS GeneratedApps, RoomAppHosts, Surfaces, RemoteMedia, FiniteSetTheorems, SequenceTheorems,
        NumberLemmas, TLAPS

-----------------------------------------------------------------------------
(* A state that a page or a frame holds is older than that of the publication p, or
   has all the updates acc that the room accepted. *)

Fits(p, acc, n, value) ==
    /\ p # Nothing /\ n <= p.state
    /\ n = p.state => acc \subseteq value

HostFits(p, acc, mount) == mount.at \in {"boot", "ready"} => Fits(p, acc, mount.state, mount.value)

PageFits(p, acc, q) ==
    /\ q.doc # Nothing => Fits(p, acc, q.doc.state, q.doc.value)
    /\ q.pending # Nothing => Fits(p, acc, q.pending.state, q.pending.value)
    /\ HostFits(p, acc, q.host)
    /\ q.load.at = "here" => Fits(p, acc, q.load.state, q.load.value)

UpdatesFit(p, acc, queue) ==
    \A i \in 1..Len(queue) : Fits(p, acc, queue[i].state, queue[i].value)
FramesFit(p, acc, queue) ==
    \A i \in 1..Len(queue) :
        queue[i].kind = "shared" => Fits(p, acc, queue[i].state, queue[i].value)

ViewsFit ==
    \A h \in Humans :
        /\ PageFits(Publication, accepted, page[h])
        /\ UpdatesFit(Publication, accepted, up[h])
        /\ FramesFit(Publication, accepted, down[h])

\* A host is mounted with a document.
HasDocument(p) == p.host.at # "none" => p.doc # Nothing

AppTypes == AppTypeOK /\ \A h \in Humans : HasDocument(page[h])

\* The chunks of the publication p are those of one bundle.
Whole(s, p) ==
    \E b \in Bundles : b.size = p.size /\ \A i \in 1..p.size : s[Chunk(p.revision, i)] = Piece(b, i)

StoreIntact(s, acc) ==
    /\ s[Room] # Nothing => Whole(s, s[Room]) /\ s[State] # Nothing /\ acc \subseteq s[State]
    /\ s[Room] = Nothing => acc = {}

\* All is as it should be, unless an upload has put an older publication back.
Intact == StoreIntact(store, accepted) /\ ViewsFit
AppInv == AppTypes /\ (putBack \/ Intact)

-----------------------------------------------------------------------------
(* Part 1.  The writes of a handler *)

LEMMA KeysDiffer ==
    /\ Room # State
    /\ \A r, i : Chunk(r, i) # Room /\ Chunk(r, i) # State
    /\ \A r, i, s, j : Chunk(r, i) = Chunk(s, j) => r = s /\ i = j
BY DEF Room, State, Chunk

LEMMA AreKeys ==
    /\ Room \in Keys /\ State \in Keys
    /\ \A r \in Revisions, i \in Chunks : Chunk(r, i) \in Keys
BY DEF Keys

LEMMA PutFields == \A k, v : Put(k, v).key = k /\ Put(k, v).value = v
BY DEF Put

LEMMA WrittenAt ==
    ASSUME NEW ws, NEW n \in Nat, NEW i \in 1..n, ws[i].key \in Keys,
           \A j \in 1..n : ws[j].key = ws[i].key => j = i
    PROVE  Written(ws, n)[ws[i].key] = ws[i].value
BY DEF Written

LEMMA WrittenElse ==
    ASSUME NEW ws, NEW n \in Nat, NEW k \in Keys, \A j \in 1..n : ws[j].key # k
    PROVE  Written(ws, n)[k] = store[k]
BY DEF Written

LEMMA Concatenated ==
    ASSUME NEW m \in Nat, NEW n \in Nat, NEW a, NEW b,
           a = [i \in 1..m |-> a[i]], b = [i \in 1..n |-> b[i]]
    PROVE  /\ a \o b = [i \in 1..(m + n) |-> (a \o b)[i]]
           /\ Len(a \o b) = m + n
           /\ \A i \in 1..m : (a \o b)[i] = a[i]
           /\ \A i \in 1..n : (a \o b)[m + i] = b[i]
<1> DEFINE S == {a[i] : i \in 1..m} \cup {b[i] : i \in 1..n}
<1>1. a \in [1..m -> S] /\ b \in [1..n -> S]
  BY Zenon
<1>2. a \in Seq(S) /\ b \in Seq(S)
  BY <1>1, SeqDef
<1>3. Len(a) = m /\ Len(b) = n
  BY <1>1, <1>2, LenProperties
<1>4. /\ a \o b \in Seq(S)
      /\ Len(a \o b) = Len(a) + Len(b)
      /\ \A i \in 1..(Len(a) + Len(b)) :
            (a \o b)[i] = IF i <= Len(a) THEN a[i] ELSE b[i - Len(a)]
  <2> HIDE DEF S
  <2> QED BY <1>2, ConcatProperties, Zenon
<1>5. DOMAIN (a \o b) = 1..Len(a \o b) /\ a \o b = [i \in 1..Len(a \o b) |-> (a \o b)[i]]
  <2> HIDE DEF S
  <2> QED BY <1>4, LenProperties
<1> HIDE DEF S
<1> QED BY <1>3, <1>4, <1>5

LEMMA WritesOfABundle ==
    ASSUME NEW r, NEW b, b.size \in Nat
    PROVE  /\ PutBundle(r, b) = [i \in 1..b.size |-> PutBundle(r, b)[i]]
           /\ \A i \in 1..b.size : PutBundle(r, b)[i] = Put(Chunk(r, i), Piece(b, i))
BY DEF PutBundle

LEMMA DropsOfABundle ==
    ASSUME NEW r, NEW size \in Nat
    PROVE  /\ DropBundle(r, size) = [i \in 1..size |-> DropBundle(r, size)[i]]
           /\ \A i \in 1..size : DropBundle(r, size)[i] = Delete(Chunk(r, i))
BY DEF DropBundle

LEMMA FirstWrites ==
    ASSUME NEW b, b.size \in Nat, Publication = Nothing
    PROVE  LET ws == PublishWrites(b)
           IN  /\ Len(ws) = b.size + 2
               /\ \A i \in 1..b.size : ws[i] = Put(Chunk(1, i), Piece(b, i))
               /\ ws[b.size + 1] = Put(State, {}) /\ ws[b.size + 2] = Put(Room, First(b))
<1> DEFINE last == <<Put(State, {}), Put(Room, First(b))>>
<1>1. last = [i \in 1..2 |-> last[i]] /\ last[1] = Put(State, {}) /\ last[2] = Put(Room, First(b))
  OBVIOUS
<1> HIDE DEF last
<1>2. PublishWrites(b) = PutBundle(1, b) \o last
  BY DEF PublishWrites, last
<1> QED BY <1>1, <1>2, WritesOfABundle, Concatenated

LEMMA LaterWrites ==
    ASSUME NEW b, b.size \in Nat, Publication # Nothing, Publication.size \in Nat
    PROVE  LET ws == PublishWrites(b)
           IN  /\ Len(ws) = b.size + 1 + Publication.size
               /\ \A i \in 1..b.size : ws[i] = Put(Chunk(Publication.revision + 1, i), Piece(b, i))
               /\ ws[b.size + 1] = Put(Room, Later(b))
               /\ \A i \in 1..Publication.size :
                    ws[b.size + 1 + i] = Delete(Chunk(Publication.revision, i))
<1> DEFINE puts == PutBundle(Publication.revision + 1, b)
           room == <<Put(Room, Later(b))>>
           drops == DropBundle(Publication.revision, Publication.size)
<1>1. room = [i \in 1..1 |-> room[i]] /\ room[1] = Put(Room, Later(b))
  OBVIOUS
<1> HIDE DEF room
<1>2. PublishWrites(b) = (puts \o room) \o drops
  BY DEF PublishWrites, room
<1>3. /\ puts \o room = [i \in 1..(b.size + 1) |-> (puts \o room)[i]]
      /\ \A i \in 1..b.size : (puts \o room)[i] = puts[i]
      /\ (puts \o room)[b.size + 1] = Put(Room, Later(b))
  <2>1. puts = [i \in 1..b.size |-> puts[i]]
    BY WritesOfABundle
  <2> HIDE DEF puts
  <2> QED BY <1>1, <2>1, Concatenated
<1>4. /\ Len(PublishWrites(b)) = b.size + 1 + Publication.size
      /\ \A i \in 1..(b.size + 1) : PublishWrites(b)[i] = (puts \o room)[i]
      /\ \A i \in 1..Publication.size : PublishWrites(b)[b.size + 1 + i] = drops[i]
  <2> HIDE DEF puts, drops
  <2> DEFINE front == puts \o room
  <2>1. front = [i \in 1..(b.size + 1) |-> front[i]]
    BY <1>3
  <2>2. drops = [i \in 1..Publication.size |-> drops[i]]
    BY DropsOfABundle DEF drops
  <2>3. PublishWrites(b) = front \o drops
    BY <1>2
  <2> HIDE DEF front
  <2>4. b.size + 1 \in Nat
    OBVIOUS
  <2>5. /\ Len(front \o drops) = b.size + 1 + Publication.size
        /\ \A i \in 1..(b.size + 1) : (front \o drops)[i] = front[i]
        /\ \A i \in 1..Publication.size : (front \o drops)[b.size + 1 + i] = drops[i]
    BY <2>1, <2>2, <2>4, Concatenated
  <2> QED BY <2>3, <2>5 DEF front
<1>5. /\ \A i \in 1..b.size : puts[i] = Put(Chunk(Publication.revision + 1, i), Piece(b, i))
      /\ \A i \in 1..Publication.size : drops[i] = Delete(Chunk(Publication.revision, i))
  BY WritesOfABundle, DropsOfABundle
<1> HIDE DEF puts, drops
<1>6. b.size + 1 \in 1..(b.size + 1) /\ \A i \in 1..b.size : i \in 1..(b.size + 1)
  OBVIOUS
<1> QED BY <1>3, <1>4, <1>5, <1>6

LEMMA WrittenKeys == \A ws, n : DOMAIN Written(ws, n) = Keys
BY DEF Written

LEMMA SizesFit ==
    /\ 1 \in Revisions /\ \A r \in Revisions : r \in Nat
    /\ \A i \in Chunks : i \in Nat /\ i >= 1
    /\ \A b \in Bundles : b.size \in Chunks /\ \A i \in 1..b.size : i \in Chunks
<1>1. /\ MaxChunks \in Nat \ {0} /\ MaxRevision \in Nat \ {0}
      /\ \A b \in Bundles : b.size \in Chunks
  BY AppConstantsFit
<1> QED BY <1>1 DEF Revisions, Chunks

LEMMA FirstWritten ==
    ASSUME NEW b \in Bundles, Publication = Nothing, NEW n \in 1..Len(PublishWrites(b))
    PROVE  LET now == Written(PublishWrites(b), n)
           IN  /\ now[Room] = IF n = b.size + 2 THEN First(b) ELSE store[Room]
               /\ now[State] = IF n > b.size THEN {} ELSE store[State]
               /\ \A r \in Revisions, i \in Chunks :
                    now[Chunk(r, i)] = IF r = 1 /\ i <= b.size /\ i <= n THEN Piece(b, i) ELSE store[Chunk(r, i)]
<1> DEFINE ws == PublishWrites(b)
           size == b.size
<1>1. size \in Chunks /\ size \in Nat /\ n \in Nat /\ \A i \in 1..size : i \in Chunks
  BY SizesFit, FirstWrites
<1>2. /\ n \in 1..(size + 2)
      /\ \A i \in 1..size : ws[i] = Put(Chunk(1, i), Piece(b, i))
      /\ ws[size + 1] = Put(State, {}) /\ ws[size + 2] = Put(Room, First(b))
  BY <1>1, FirstWrites
<1> HIDE DEF ws, size
<1>3. /\ \A i \in 1..size : ws[i].key = Chunk(1, i) /\ ws[i].value = Piece(b, i)
      /\ ws[size + 1].key = State /\ ws[size + 1].value = {}
      /\ ws[size + 2].key = Room /\ ws[size + 2].value = First(b)
  <2>1. ASSUME NEW i \in 1..size PROVE ws[i].key = Chunk(1, i) /\ ws[i].value = Piece(b, i)
    BY <1>2, PutFields
  <2>2. ws[size + 1].key = State /\ ws[size + 1].value = {}
    BY <1>2, PutFields
  <2>3. ws[size + 2].key = Room /\ ws[size + 2].value = First(b)
    BY <1>2, PutFields
  <2> QED BY <2>1, <2>2, <2>3
<1>4. \A j \in 1..n : j \in 1..size \/ j = size + 1 \/ j = size + 2
  <2>1. size \in Nat /\ n \in 1..(size + 2)
    BY <1>1, <1>2
  <2> QED BY <2>1
<1>5. Written(ws, n)[Room] = IF n = size + 2 THEN First(b) ELSE store[Room]
  <2>1. CASE n = size + 2
    <3>1. \A j \in 1..n : ws[j].key = ws[n].key => j = n
      BY <1>1, <1>3, <1>4, <2>1, KeysDiffer
    <3>2. n \in 1..n /\ ws[n].key = Room /\ ws[n].value = First(b)
      BY <1>1, <1>2, <1>3, <2>1
    <3> QED BY <1>1, <2>1, <3>1, <3>2, WrittenAt, AreKeys
  <2>2. CASE n # size + 2
    <3>1. \A j \in 1..n : ws[j].key # Room
      BY <1>1, <1>2, <1>3, <1>4, <2>2, KeysDiffer
    <3> QED BY <1>1, <2>2, <3>1, WrittenElse, AreKeys
  <2> QED BY <2>1, <2>2
<1>6. Written(ws, n)[State] = IF n > size THEN {} ELSE store[State]
  <2>1. CASE n > size
    <3>1. \A j \in 1..n : ws[j].key = ws[size + 1].key => j = size + 1
      BY <1>1, <1>3, <1>4, KeysDiffer
    <3>2. size + 1 \in 1..n
      BY <1>1, <1>2, <2>1
    <3> QED BY <1>1, <1>3, <2>1, <3>1, <3>2, WrittenAt, AreKeys
  <2>2. CASE ~(n > size)
    <3>1. \A j \in 1..n : ws[j].key # State
      BY <1>1, <1>2, <1>3, <1>4, <2>2, KeysDiffer
    <3> QED BY <1>1, <2>2, <3>1, WrittenElse, AreKeys
  <2> QED BY <2>1, <2>2
<1>7. ASSUME NEW r \in Revisions, NEW i \in Chunks
      PROVE  Written(ws, n)[Chunk(r, i)] =
                IF r = 1 /\ i <= size /\ i <= n THEN Piece(b, i) ELSE store[Chunk(r, i)]
  <2>1. CASE r = 1 /\ i <= size /\ i <= n
    <3>1. i \in 1..n /\ i \in 1..size
      BY <1>1, <2>1, SizesFit
    <3>2. \A j \in 1..n : ws[j].key = ws[i].key => j = i
      BY <1>1, <1>3, <1>4, <3>1, KeysDiffer
    <3> QED BY <1>1, <1>3, <2>1, <3>1, <3>2, WrittenAt, AreKeys
  <2>2. CASE ~(r = 1 /\ i <= size /\ i <= n)
    <3>1. \A j \in 1..n : ws[j].key # Chunk(r, i)
      BY <1>1, <1>3, <1>4, <2>2, KeysDiffer
    <3> QED BY <1>1, <2>2, <3>1, WrittenElse, AreKeys
  <2> QED BY <2>1, <2>2
<1> QED BY <1>5, <1>6, <1>7 DEF ws, size

LEMMA LaterWritten ==
    ASSUME NEW b \in Bundles, Publication # Nothing, Publication \in AppPublications,
           Publication.revision + 1 \in Revisions, NEW n \in 1..Len(PublishWrites(b))
    PROVE  LET now == Written(PublishWrites(b), n)
               was == Publication
           IN  /\ now[Room] = IF n > b.size THEN Later(b) ELSE store[Room]
               /\ now[State] = store[State]
               /\ \A r \in Revisions, i \in Chunks :
                    now[Chunk(r, i)] =
                        IF r = was.revision + 1 /\ i <= b.size /\ i <= n THEN Piece(b, i)
                        ELSE IF r = was.revision /\ i <= was.size /\ b.size + 1 + i <= n THEN Nothing
                        ELSE store[Chunk(r, i)]
<1> DEFINE ws == PublishWrites(b)
           size == b.size
           old == Publication.size
           rev == Publication.revision
<1>1. /\ size \in Chunks /\ size \in Nat /\ n \in Nat /\ \A i \in 1..size : i \in Chunks
      /\ old \in Nat /\ old \in Chunks /\ \A i \in 1..old : i \in Chunks
      /\ rev \in Nat /\ rev \in Revisions
  <2>1. old \in Chunks /\ rev \in Revisions
    BY DEF AppPublications
  <2>2. MaxChunks \in Nat
    BY AppConstantsFit
  <2>3. old \in Nat /\ \A i \in 1..old : i \in Chunks
    BY <2>1, <2>2 DEF Chunks
  <2>4. size \in Chunks /\ size \in Nat /\ \A i \in 1..size : i \in Chunks
    BY SizesFit
  <2> QED BY <2>1, <2>3, <2>4, SizesFit, LaterWrites
<1>2. /\ n \in 1..(size + 1 + old)
      /\ \A i \in 1..size : ws[i] = Put(Chunk(rev + 1, i), Piece(b, i))
      /\ ws[size + 1] = Put(Room, Later(b))
      /\ \A i \in 1..old : ws[size + 1 + i] = Put(Chunk(rev, i), Nothing)
  BY <1>1, LaterWrites DEF Delete
<1> HIDE DEF ws, size, old, rev
<1>3. /\ \A i \in 1..size : ws[i].key = Chunk(rev + 1, i) /\ ws[i].value = Piece(b, i)
      /\ ws[size + 1].key = Room /\ ws[size + 1].value = Later(b)
      /\ \A i \in 1..old : ws[size + 1 + i].key = Chunk(rev, i) /\ ws[size + 1 + i].value = Nothing
  <2>1. ASSUME NEW i \in 1..size PROVE ws[i].key = Chunk(rev + 1, i) /\ ws[i].value = Piece(b, i)
    BY <1>2, PutFields
  <2>2. ws[size + 1].key = Room /\ ws[size + 1].value = Later(b)
    BY <1>2, PutFields
  <2>3. ASSUME NEW i \in 1..old
        PROVE  ws[size + 1 + i].key = Chunk(rev, i) /\ ws[size + 1 + i].value = Nothing
    BY <1>2, PutFields
  <2> QED BY <2>1, <2>2, <2>3
<1>4. \A j \in 1..n : j \in 1..size \/ j = size + 1 \/ \E i \in 1..old : j = size + 1 + i
  <2>1. size \in Nat /\ old \in Nat /\ n \in 1..(size + 1 + old)
    BY <1>1, <1>2
  <2>2. ASSUME NEW j \in 1..n, j > size + 1
        PROVE  j - size - 1 \in 1..old /\ j = size + 1 + (j - size - 1)
    BY <2>1, <2>2
  <2>3. ASSUME NEW j \in 1..n, ~(j > size + 1)
        PROVE  j \in 1..size \/ j = size + 1
    BY <2>1, <2>3
  <2> QED BY <2>2, <2>3
<1>5. Written(ws, n)[Room] = IF n > size THEN Later(b) ELSE store[Room]
  <2>1. CASE n > size
    <3>1. ASSUME NEW j \in 1..n, ws[j].key = Room PROVE j = size + 1
      <4>1. CASE j \in 1..size
        BY <1>3, <3>1, <4>1, KeysDiffer
      <4>2. CASE \E i \in 1..old : j = size + 1 + i
        BY <1>3, <3>1, <4>2, KeysDiffer
      <4> QED BY <1>4, <4>1, <4>2
    <3>2. size + 1 \in 1..n
      BY <1>1, <1>2, <2>1
    <3> QED BY <1>1, <1>3, <2>1, <3>1, <3>2, WrittenAt, AreKeys
  <2>2. CASE ~(n > size)
    <3>1. \A j \in 1..n : ws[j].key # Room
      BY <1>1, <1>2, <1>3, <1>4, <2>2, KeysDiffer
    <3> QED BY <1>1, <2>2, <3>1, WrittenElse, AreKeys
  <2> QED BY <2>1, <2>2
<1>6. Written(ws, n)[State] = store[State]
  <2>1. ASSUME NEW j \in 1..n PROVE ws[j].key # State
    <3>1. CASE j \in 1..size
      BY <1>3, <3>1, KeysDiffer
    <3>2. CASE j = size + 1
      BY <1>3, <3>2, KeysDiffer
    <3>3. CASE \E i \in 1..old : j = size + 1 + i
      BY <1>3, <3>3, KeysDiffer
    <3> QED BY <1>4, <3>1, <3>2, <3>3
  <2> QED BY <1>1, <2>1, WrittenElse, AreKeys
<1>7. ASSUME NEW r \in Revisions, NEW i \in Chunks
      PROVE  Written(ws, n)[Chunk(r, i)] =
                IF r = rev + 1 /\ i <= size /\ i <= n THEN Piece(b, i)
                ELSE IF r = rev /\ i <= old /\ size + 1 + i <= n THEN Nothing
                ELSE store[Chunk(r, i)]
  <2>0. i \in Nat /\ i >= 1 /\ r \in Nat /\ Chunk(r, i) \in Keys
    BY SizesFit, AreKeys
  <2>1. CASE r = rev + 1 /\ i <= size /\ i <= n
    <3>1. i \in 1..n /\ i \in 1..size
      BY <1>1, <2>1, <2>0
    <3>2. ws[i].key = Chunk(r, i) /\ ws[i].value = Piece(b, i)
      BY <1>3, <2>1, <3>1
    <3>3. ASSUME NEW j \in 1..n, ws[j].key = Chunk(r, i)
          PROVE  j = i
      <4>1. CASE j \in 1..size
        BY <1>3, <3>3, <4>1, KeysDiffer
      <4>2. CASE j = size + 1
        BY <1>3, <3>3, <4>2, KeysDiffer
      <4>3. CASE \E k \in 1..old : j = size + 1 + k
        <5>1. PICK k \in 1..old : j = size + 1 + k
          BY <4>3
        <5>2. Chunk(rev, k) = Chunk(r, i)
          BY <1>3, <3>3, <5>1
        <5>3. r = rev /\ rev + 1 # rev
          BY <1>1, <5>2, KeysDiffer
        <5> QED BY <2>1, <5>3
      <4> QED BY <1>4, <4>1, <4>2, <4>3
    <3> QED BY <1>1, <2>0, <2>1, <3>1, <3>2, <3>3, WrittenAt
  <2>2. CASE r = rev /\ i <= old /\ size + 1 + i <= n
    <3>1. size + 1 + i \in 1..n /\ i \in 1..old
      BY <1>1, <2>2, <2>0
    <3>2. ws[size + 1 + i].key = Chunk(r, i) /\ ws[size + 1 + i].value = Nothing
      BY <1>3, <2>2, <3>1
    <3>3. ASSUME NEW j \in 1..n, ws[j].key = Chunk(r, i)
          PROVE  j = size + 1 + i
      <4>1. CASE j \in 1..size
        <5>1. ws[j].key = Chunk(rev + 1, j) /\ rev + 1 # rev
          BY <1>1, <1>3, <4>1
        <5>2. Chunk(rev + 1, j) = Chunk(r, i)
          BY <3>3, <5>1
        <5>3. rev + 1 = r
          BY <5>2, KeysDiffer
        <5> QED BY <2>2, <5>1, <5>3
      <4>2. CASE j = size + 1
        BY <1>3, <3>3, <4>2, KeysDiffer
      <4>3. CASE \E k \in 1..old : j = size + 1 + k
        BY <1>3, <3>3, <4>3, KeysDiffer
      <4> QED BY <1>4, <4>1, <4>2, <4>3
    <3>4. Written(ws, n)[Chunk(r, i)] = Nothing
      BY <1>1, <2>0, <3>1, <3>2, <3>3, WrittenAt
    <3> QED BY <1>1, <2>0, <2>2, <3>4
  <2>3. CASE ~(r = rev + 1 /\ i <= size /\ i <= n) /\ ~(r = rev /\ i <= old /\ size + 1 + i <= n)
    <3>1. ASSUME NEW j \in 1..n, ws[j].key = Chunk(r, i)
          PROVE  FALSE
      <4>1. CASE j \in 1..size
        BY <1>1, <1>3, <2>3, <3>1, <4>1, KeysDiffer
      <4>2. CASE j = size + 1
        BY <1>3, <3>1, <4>2, KeysDiffer
      <4>3. CASE \E k \in 1..old : j = size + 1 + k
        <5>1. PICK k \in 1..old : j = size + 1 + k
          BY <4>3
        <5>2. Chunk(rev, k) = Chunk(r, i)
          BY <1>3, <3>1, <5>1
        <5>3. r = rev /\ i = k
          BY <5>2, KeysDiffer
        <5> QED BY <1>1, <2>3, <5>1, <5>3
      <4> QED BY <1>4, <4>1, <4>2, <4>3
    <3> QED BY <1>1, <2>0, <2>3, <3>1, WrittenElse
  <2> QED BY <2>1, <2>2, <2>3
<1> QED BY <1>5, <1>6, <1>7 DEF ws, size, old, rev

LEMMA RefusedWritten ==
    ASSUME NEW b \in Bundles, Publication \in AppPublications \cup {Nothing}, NEW n \in Nat,
           n = Len(RefusedWrites(b))
    PROVE  LET now == Written(RefusedWrites(b), n)
           IN  /\ now[Room] = store[Room]
               /\ \A k \in Keys : now[k] \in {Nothing, store[k]}
               /\ Publication # Nothing =>
                    /\ now[State] = store[State]
                    /\ \A i \in Chunks : now[Chunk(Publication.revision, i)] = store[Chunk(Publication.revision, i)]
<1> DEFINE ws == RefusedWrites(b)
           size == b.size
<1>1. size \in Nat
  BY SizesFit
<1>2. CASE Publication = Nothing
  <2> DEFINE last == <<Delete(State)>>
  <2>1. last = [i \in 1..1 |-> last[i]] /\ last[1] = Delete(State)
    OBVIOUS
  <2>2. DropBundle(1, size) = [i \in 1..size |-> DropBundle(1, size)[i]]
    BY <1>1, DropsOfABundle
  <2> HIDE DEF last, size
  <2>3. /\ Len(DropBundle(1, size) \o last) = size + 1
        /\ \A i \in 1..size : (DropBundle(1, size) \o last)[i] = DropBundle(1, size)[i]
        /\ (DropBundle(1, size) \o last)[size + 1] = Delete(State)
    BY <1>1, <2>1, <2>2, Concatenated
  <2>4. ws = DropBundle(1, size) \o last
    BY <1>2 DEF RefusedWrites, last, size
  <2> HIDE DEF ws
  <2>5. /\ n = size + 1
        /\ \A i \in 1..size : ws[i] = Put(Chunk(1, i), Nothing)
        /\ ws[size + 1] = Put(State, Nothing)
    BY <1>1, <2>3, <2>4, DropsOfABundle DEF Delete, ws
  <2>6. ASSUME NEW i \in 1..n PROVE ws[i].key # Room /\ ws[i].value = Nothing
    <3>1. i \in 1..size \/ i = size + 1
      BY <1>1, <2>5
    <3>2. CASE i \in 1..size
      BY <2>5, <3>2, PutFields, KeysDiffer
    <3>3. CASE i = size + 1
      BY <2>5, <3>3, PutFields, KeysDiffer
    <3> QED BY <3>1, <3>2, <3>3
  <2>7. Written(ws, n)[Room] = store[Room]
    BY <2>6, AreKeys, WrittenElse
  <2>8. \A k \in Keys : Written(ws, n)[k] \in {Nothing, store[k]}
    BY <2>6 DEF Written
  <2> QED BY <1>2, <2>7, <2>8 DEF ws
<1>3. CASE Publication # Nothing
  <2> DEFINE rev == Publication.revision
  <2>1. rev \in Revisions /\ rev \in Nat
    BY <1>3, SizesFit DEF AppPublications
  <2>2. ws = DropBundle(rev + 1, size)
    BY <1>3 DEF RefusedWrites
  <2> HIDE DEF ws, rev, size
  <2>3. ws = [i \in 1..size |-> ws[i]] /\ \A i \in 1..size : ws[i] = Put(Chunk(rev + 1, i), Nothing)
    BY <1>1, <2>2, DropsOfABundle DEF Delete
  <2>4. \A i \in 1..n : ws[i] = Put(Chunk(rev + 1, i), Nothing)
    <3>1. ws \in [1..size -> {ws[i] : i \in 1..size}]
      BY <2>3, Zenon
    <3>2. ws \in Seq({ws[i] : i \in 1..size})
      BY <1>1, <3>1, SeqDef
    <3>3. 1..n = 1..size
      BY <3>1, <3>2, LenProperties DEF ws
    <3> QED BY <2>3, <3>3
  <2>5. ASSUME NEW i \in 1..n
        PROVE  /\ ws[i].key # Room /\ ws[i].key # State /\ ws[i].value = Nothing
               /\ \A j \in Chunks : ws[i].key # Chunk(rev, j)
    <3>1. ws[i].key = Chunk(rev + 1, i) /\ ws[i].value = Nothing
      BY <2>4, PutFields
    <3>2. rev + 1 # rev
      BY <2>1
    <3> QED BY <3>1, <3>2, KeysDiffer
  <2>6. Written(ws, n)[Room] = store[Room] /\ Written(ws, n)[State] = store[State]
    BY <2>5, AreKeys, WrittenElse
  <2>7. \A k \in Keys : Written(ws, n)[k] \in {Nothing, store[k]}
    BY <2>5 DEF Written
  <2>8. \A j \in Chunks : Written(ws, n)[Chunk(rev, j)] = store[Chunk(rev, j)]
    BY <2>1, <2>5, AreKeys, WrittenElse
  <2> QED BY <2>6, <2>7, <2>8 DEF ws, rev
<1> QED BY <1>2, <1>3

LEMMA UpdateWritten ==
    ASSUME NEW h \in Humans, NEW n \in 1..2
    PROVE  LET now == Written(UpdateWrites(h), n)
           IN  /\ now[State] = Head(up[h]).value
               /\ now[Room] = IF n = 2 THEN [Publication EXCEPT !.state = @ + 1] ELSE store[Room]
               /\ \A r \in Revisions, i \in Chunks : now[Chunk(r, i)] = store[Chunk(r, i)]
<1> DEFINE ws == UpdateWrites(h)
           later == [Publication EXCEPT !.state = @ + 1]
           value == Head(up[h]).value
<1>1. ws[1] = Put(State, value) /\ ws[2] = Put(Room, later)
  BY DEF UpdateWrites
<1> HIDE DEF ws, later, value
<1>2. ws[1].key = State /\ ws[1].value = value /\ ws[2].key = Room /\ ws[2].value = later
  BY <1>1, PutFields
<1>3. \A i \in 1..n : i = 1 \/ (i = 2 /\ n = 2)
  OBVIOUS
<1>4. n \in Nat /\ 1 \in 1..n /\ (n = 2 => 2 \in 1..n)
  OBVIOUS
<1>5. Written(ws, n)[State] = value
  BY <1>2, <1>3, <1>4, AreKeys, KeysDiffer, WrittenAt
<1>6. n = 2 => Written(ws, n)[Room] = later
  BY <1>2, <1>3, <1>4, AreKeys, KeysDiffer, WrittenAt
<1>7. n # 2 => Written(ws, n)[Room] = store[Room]
  BY <1>2, <1>3, <1>4, AreKeys, KeysDiffer, WrittenElse
<1>8. \A r \in Revisions, i \in Chunks : Written(ws, n)[Chunk(r, i)] = store[Chunk(r, i)]
  BY <1>2, <1>3, <1>4, AreKeys, KeysDiffer, WrittenElse
<1> QED BY <1>5, <1>6, <1>7, <1>8 DEF ws, later, value

LEMMA UploadWritten ==
    LET now == Written(<<Put(Room, upload)>>, 1)
    IN  /\ now[Room] = upload
        /\ now[State] = store[State]
        /\ \A r \in Revisions, i \in Chunks : now[Chunk(r, i)] = store[Chunk(r, i)]
<1> DEFINE ws == <<Put(Room, upload)>>
<1>1. ws[1].key = Room /\ ws[1].value = upload
  BY PutFields
<1> HIDE DEF ws
<1>2. 1 \in Nat /\ 1 \in 1..1 /\ \A i \in 1..1 : i = 1
  OBVIOUS
<1>3. Written(ws, 1)[Room] = upload
  BY <1>1, <1>2, AreKeys, WrittenAt
<1>4. \A k \in Keys : k # Room => Written(ws, 1)[k] = store[k]
  BY <1>1, <1>2, WrittenElse
<1> QED BY <1>3, <1>4, AreKeys, KeysDiffer DEF ws

-----------------------------------------------------------------------------
(* Part 2.  The types of a generated App *)

StoreOK(s) ==
    /\ DOMAIN s = Keys
    /\ s[Room] \in AppPublications \cup {Nothing} /\ s[State] \in States \cup {Nothing}
    /\ \A r \in Revisions, i \in Chunks : s[Chunk(r, i)] \in (Bundles \X Chunks) \cup {Nothing}

LEMMA NothingIsNone ==
    /\ \A p \in AppPublications : p # Nothing
    /\ \A d \in Documents : d # Nothing
    /\ \A s \in Shared : s # Nothing
    /\ \A s \in States : s # Nothing
    /\ \A b \in Bundles : b # Nothing
BY AppConstantsFit

LEMMA PublicationFields ==
    ASSUME NEW p \in AppPublications
    PROVE  /\ p.revision \in Revisions /\ p.revision \in Nat
           /\ p.size \in Chunks /\ p.size \in Nat /\ p.state \in Nat
           /\ \A i \in 1..p.size : i \in Chunks
<1>1. p.revision \in Revisions /\ p.size \in Chunks /\ p.state \in Nat
  BY DEF AppPublications
<1>2. MaxChunks \in Nat
  BY AppConstantsFit
<1> QED BY <1>1, <1>2, SizesFit DEF Chunks

LEMMA NewPublications ==
    ASSUME NEW b \in Bundles
    PROVE  /\ First(b) \in AppPublications
           /\ \A p \in AppPublications :
                [p EXCEPT !.state = @ + 1] \in AppPublications
           /\ Publication \in AppPublications /\ Publication.revision + 1 \in Revisions =>
                Later(b) \in AppPublications
<1>1. b.size \in Chunks /\ 1 \in Revisions
  BY SizesFit
<1>2. First(b) \in AppPublications
  BY <1>1 DEF First, AppPublications
<1>3. \A p \in AppPublications : [p EXCEPT !.state = @ + 1] \in AppPublications
  BY DEF AppPublications
<1>4. ASSUME Publication \in AppPublications, Publication.revision + 1 \in Revisions
      PROVE  Later(b) \in AppPublications
  BY <1>1, <1>4 DEF Later, AppPublications
<1> QED BY <1>2, <1>3, <1>4

LEMMA NextRevision ==
    ASSUME NEW b \in Bundles, MayPublish(b), Publication # Nothing, Publication \in AppPublications
    PROVE  Publication.revision + 1 \in Revisions
<1>1. Publication.revision < MaxRevision /\ MaxRevision \in Nat
  BY AppConstantsFit DEF MayPublish
<1> QED BY <1>1, PublicationFields DEF Revisions

LEMMA PiecesFit == \A b \in Bundles, i \in Chunks : Piece(b, i) \in Bundles \X Chunks
BY DEF Piece

LEMMA PublishStores ==
    ASSUME StoreOK(store), NEW b \in Bundles, MayPublish(b), NEW n \in 1..Len(PublishWrites(b))
    PROVE  StoreOK(Written(PublishWrites(b), n))
<1> DEFINE now == Written(PublishWrites(b), n)
<1>1. DOMAIN now = Keys
  BY WrittenKeys
<1>2. CASE Publication = Nothing
  <2>1. now[Room] \in AppPublications \cup {Nothing} /\ now[State] \in States \cup {Nothing}
    BY <1>2, FirstWritten, NewPublications DEF StoreOK, States
  <2>2. \A r \in Revisions, i \in Chunks : now[Chunk(r, i)] \in (Bundles \X Chunks) \cup {Nothing}
    BY <1>2, FirstWritten, PiecesFit DEF StoreOK
  <2> QED BY <1>1, <2>1, <2>2 DEF StoreOK
<1>3. CASE Publication # Nothing
  <2>1. Publication \in AppPublications /\ Publication.revision + 1 \in Revisions
    BY <1>3, NextRevision DEF StoreOK, Publication
  <2>2. now[Room] \in AppPublications \cup {Nothing} /\ now[State] \in States \cup {Nothing}
    BY <1>3, <2>1, LaterWritten, NewPublications DEF StoreOK
  <2>3. \A r \in Revisions, i \in Chunks : now[Chunk(r, i)] \in (Bundles \X Chunks) \cup {Nothing}
    BY <1>3, <2>1, LaterWritten, PiecesFit DEF StoreOK
  <2> QED BY <1>1, <2>2, <2>3 DEF StoreOK
<1> QED BY <1>2, <1>3

LEMMA LengthOfRefused ==
    ASSUME NEW b \in Bundles
    PROVE  Len(RefusedWrites(b)) \in Nat
<1>1. b.size \in Nat
  BY SizesFit
<1>2. CASE Publication = Nothing
  <2>1. DropBundle(1, b.size) = [i \in 1..b.size |-> DropBundle(1, b.size)[i]]
    BY <1>1, DropsOfABundle
  <2> DEFINE last == <<Delete(State)>>
  <2>2. last = [i \in 1..1 |-> last[i]]
    OBVIOUS
  <2>3. RefusedWrites(b) = DropBundle(1, b.size) \o last
    BY <1>2 DEF RefusedWrites
  <2> HIDE DEF last
  <2> QED BY <1>1, <2>1, <2>2, <2>3, Concatenated
<1>3. CASE Publication # Nothing
  <2> DEFINE ws == DropBundle(Publication.revision + 1, b.size)
  <2>1. ws = [i \in 1..b.size |-> ws[i]]
    BY <1>1, DropsOfABundle
  <2>2. RefusedWrites(b) = ws
    BY <1>3 DEF RefusedWrites
  <2> HIDE DEF ws
  <2>3. ws \in [1..b.size -> {ws[i] : i \in 1..b.size}]
    BY <2>1, Zenon
  <2>4. ws \in Seq({ws[i] : i \in 1..b.size})
    BY <1>1, <2>3, SeqDef
  <2> QED BY <2>2, <2>4, LenProperties
<1> QED BY <1>2, <1>3

LEMMA RefusedStores ==
    ASSUME StoreOK(store), NEW b \in Bundles, MayPublish(b)
    PROVE  StoreOK(Written(RefusedWrites(b), Len(RefusedWrites(b))))
<1> DEFINE n == Len(RefusedWrites(b))
           now == Written(RefusedWrites(b), n)
<1>1. n \in Nat
  BY LengthOfRefused
<1>2. now[Room] = store[Room] /\ \A k \in Keys : now[k] \in {Nothing, store[k]}
  BY <1>1, RefusedWritten DEF StoreOK, Publication
<1>3. DOMAIN now = Keys
  BY WrittenKeys
<1> HIDE DEF now
<1> QED BY <1>2, <1>3, AreKeys DEF StoreOK, now

LEMMA SharedFields ==
    ASSUME NEW s \in Shared
    PROVE  s.state \in Nat /\ s.value \in States
BY DEF Shared

LEMMA UpdateStores ==
    ASSUME StoreOK(store), NEW h \in Humans, up[h] \in Seq(Shared), up[h] # <<>>,
           Publication # Nothing, NEW n \in 1..2
    PROVE  StoreOK(Written(UpdateWrites(h), n))
<1>1. Head(up[h]) \in Shared
  BY HeadTailProperties
<1>2. Publication \in AppPublications
  BY DEF StoreOK, Publication
<1>3. [Publication EXCEPT !.state = @ + 1] \in AppPublications
  BY <1>2, PublicationFields DEF AppPublications
<1> QED BY <1>1, <1>3, SharedFields, UpdateWritten, WrittenKeys DEF StoreOK

LEMMA UploadStores ==
    ASSUME StoreOK(store), upload \in AppPublications
    PROVE  StoreOK(Written(<<Put(Room, upload)>>, 1))
BY UploadWritten, WrittenKeys DEF StoreOK

LEMMA PageFields ==
    ASSUME NEW p \in Pages
    PROVE  /\ p.open \in BOOLEAN /\ p.apps \in AppPublications \cup {Nothing}
           /\ p.doc \in Documents \cup {Nothing} /\ p.pending \in Shared \cup {Nothing}
           /\ p.host \in Hosts /\ p.load \in Loads
BY DEF Pages

LEMMA DocumentFields ==
    ASSUME NEW d \in Documents
    PROVE  d.revision \in Revisions /\ d.state \in Nat /\ d.value \in States
BY DEF Documents

LEMMA LoadFields ==
    ASSUME NEW l \in Loads
    PROVE  /\ l.at \in {"none", "asked", "here"}
           /\ l.at = "here" => l.revision \in Revisions /\ l.state \in Nat /\ l.value \in States
BY DEF Loads

LEMMA HostFields ==
    ASSUME NEW mount \in Hosts
    PROVE  /\ mount.at \in {"none", "loading", "boot", "ready"}
           /\ mount.at \in {"boot", "ready"} => mount.state \in Nat /\ mount.value \in States
BY DEF Hosts

LEMMA ShownState ==
    ASSUME NEW mount \in Hosts, NEW n \in Nat, NEW value \in States
    PROVE  LET shown == ShowsState(mount, n, value)
           IN  /\ shown \in Hosts /\ shown.at = mount.at
               /\ \/ shown = mount
                  \/ mount.at = "ready" /\ shown.state = n /\ shown.value = value
<1>1. CASE mount.at = "ready"
  <2>1. mount \in [at : {"boot", "ready"}, state : Nat, value : States]
    BY <1>1 DEF Hosts
  <2>2. [mount EXCEPT !.state = n, !.value = value] \in [at : {"boot", "ready"}, state : Nat, value : States]
    BY <2>1
  <2>3. /\ [mount EXCEPT !.state = n, !.value = value].at = mount.at
        /\ [mount EXCEPT !.state = n, !.value = value].state = n
        /\ [mount EXCEPT !.state = n, !.value = value].value = value
    BY <2>1
  <2> QED BY <1>1, <2>2, <2>3 DEF ShowsState, Hosts
<1>2. CASE mount.at # "ready"
  BY <1>2 DEF ShowsState
<1> QED BY <1>1, <1>2

LEMMA MountedHost ==
    ASSUME NEW p \in Pages, NEW doc \in Documents
    PROVE  LET mount == Mounted(p, doc)
           IN  /\ mount \in Hosts
               /\ mount.at \in {"boot", "ready"} =>
                    \/ mount = p.host
                    \/ mount.state = doc.state /\ mount.value = doc.value
<1>1. [at |-> "loading"] \in Hosts
  BY DEF Hosts
<1>2. doc # Nothing
  BY NothingIsNone
<1>3. doc.state \in Nat /\ doc.value \in States /\ p.host \in Hosts
  BY DocumentFields, PageFields
<1> QED BY <1>1, <1>2, <1>3, ShownState DEF Mounted

LEMMA WithDocument ==
    ASSUME NEW p \in Pages, NEW doc \in Documents
    PROVE  /\ With(p, doc) \in Pages /\ HasDocument(With(p, doc))
           /\ With(p, doc) = [p EXCEPT !.doc = doc, !.host = Mounted(p, doc)]
           /\ With(p, doc).doc = doc /\ With(p, doc).host = Mounted(p, doc)
           /\ With(p, doc).pending = p.pending /\ With(p, doc).load = p.load
<1>1. Mounted(p, doc) \in Hosts
  BY MountedHost
<1> QED BY <1>1, NothingIsNone DEF With, Pages, HasDocument

LEMMA TakenShared ==
    ASSUME NEW p \in Pages, HasDocument(p), NEW f, f.state \in Nat, f.value \in States
    PROVE  TakeShared(p, f) \in Pages /\ HasDocument(TakeShared(p, f))
<1> DEFINE news == [state |-> f.state, value |-> f.value]
<1>1. news \in Shared /\ news # Nothing
  BY NothingIsNone DEF Shared
<1>2. CASE p.doc = Nothing
  <2>1. [p EXCEPT !.pending = news] \in Pages /\ HasDocument([p EXCEPT !.pending = news])
    BY <1>1, <1>2 DEF Pages, HasDocument
  <2> HIDE DEF news
  <2> QED BY <1>2, <2>1 DEF TakeShared, news
<1>3. CASE p.doc # Nothing
  <2> DEFINE shown == [p EXCEPT !.host = ShowsState(@, f.state, f.value)]
             doc == [p.doc EXCEPT !.state = f.state, !.value = f.value]
  <2>1. p.host \in Hosts /\ p.doc \in Documents
    BY <1>3, PageFields
  <2>2. shown \in Pages /\ HasDocument(shown) /\ shown.doc = p.doc
    <3>1. ShowsState(p.host, f.state, f.value) \in Hosts
      BY <2>1, ShownState
    <3> QED BY <1>3, <3>1 DEF Pages, HasDocument
  <2>3. doc \in Documents
    BY <2>1 DEF Documents
  <2>4. With(shown, doc) \in Pages /\ HasDocument(With(shown, doc))
    BY <2>2, <2>3, WithDocument
  <2>5. TakeShared(p, f) \in {shown, With(shown, doc)}
    BY <1>3 DEF TakeShared
  <2> HIDE DEF shown, doc
  <2> QED BY <2>2, <2>4, <2>5
<1> QED BY <1>2, <1>3

LEMMA ReconciledDocument ==
    ASSUME NEW p \in Pages, p.load.at = "here"
    PROVE  /\ Reconciled(p) \in Documents
           /\ \/ Reconciled(p).state = p.load.state /\ Reconciled(p).value = p.load.value
              \/ /\ p.pending # Nothing
                 /\ Reconciled(p).state = p.pending.state /\ Reconciled(p).value = p.pending.value
<1>1. p.load.revision \in Revisions /\ p.load.state \in Nat /\ p.load.value \in States
  BY PageFields, LoadFields
<1>2. p.pending # Nothing => p.pending.state \in Nat /\ p.pending.value \in States
  BY PageFields, SharedFields
<1> QED BY <1>1, <1>2 DEF Reconciled, Documents

LEMMA LoadedPage ==
    ASSUME NEW p \in Pages, HasDocument(p), p.load.at = "here"
    PROVE  LET new == [With(p, Reconciled(p)) EXCEPT !.load = NoLoad, !.pending = Nothing]
               old == [p EXCEPT !.load = NoLoad]
           IN  /\ new \in Pages /\ HasDocument(new)
               /\ new.doc = Reconciled(p) /\ new.host = Mounted(p, Reconciled(p))
               /\ new.load = NoLoad /\ new.pending = Nothing
               /\ old \in Pages /\ HasDocument(old)
<1> DEFINE with == With(p, Reconciled(p))
<1>1. with \in Pages /\ HasDocument(with) /\ with.doc = Reconciled(p) /\ with.host = Mounted(p, Reconciled(p))
  BY ReconciledDocument, WithDocument
<1>2. NoLoad \in Loads
  BY DEF NoLoad, Loads
<1> HIDE DEF with
<1>3. LET new == [with EXCEPT !.load = NoLoad, !.pending = Nothing]
      IN  /\ new \in Pages /\ HasDocument(new)
          /\ new.doc = Reconciled(p) /\ new.host = Mounted(p, Reconciled(p))
          /\ new.load = NoLoad /\ new.pending = Nothing
  BY <1>1, <1>2 DEF Pages, HasDocument
<1>4. [p EXCEPT !.load = NoLoad] \in Pages /\ HasDocument([p EXCEPT !.load = NoLoad])
  BY <1>2 DEF Pages, HasDocument
<1> QED BY <1>3, <1>4 DEF with

LEMMA OnePage ==
    ASSUME AppTypes, NEW h \in Humans, NEW q \in Pages, HasDocument(q),
           page' = [page EXCEPT ![h] = q]
    PROVE  page' \in [Humans -> Pages] /\ \A g \in Humans : HasDocument(page'[g])
BY DEF AppTypes, AppTypeOK

LEMMA SameStore == AppTypes => StoreOK(store)
BY DEF AppTypes, AppTypeOK, StoreOK

LEMMA Broadcast ==
    ASSUME down \in [Humans -> Seq(AppFrames)], NEW frame \in AppFrames, ToAll(frame)
    PROVE  down' \in [Humans -> Seq(AppFrames)]
<1>1. ASSUME NEW h \in Humans PROVE Append(down[h], frame) \in Seq(AppFrames)
  BY AppendProperties
<1> QED BY <1>1 DEF ToAll

LEMMA FramesOfTheRoom ==
    /\ \A s : s[Room] \in AppPublications \cup {Nothing} => RoomFrame(s) \in AppFrames
    /\ \A n \in Nat, value \in States : SharedFrame(n, value) \in AppFrames
BY DEF RoomFrame, SharedFrame, AppFrames

LEMMA ClosedPages ==
    ASSUME AppTypes, InstanceEnds
    PROVE  /\ page' \in [Humans -> Pages] /\ \A h \in Humans : HasDocument(page'[h])
           /\ up' \in [Humans -> Seq(Shared)] /\ down' \in [Humans -> Seq(AppFrames)]
           /\ upload' = Nothing
<1>1. ASSUME NEW h \in Humans
      PROVE  [page[h] EXCEPT !.open = FALSE] \in Pages /\ HasDocument([page[h] EXCEPT !.open = FALSE])
  BY DEF AppTypes, AppTypeOK, Pages, HasDocument
<1>2. <<>> \in Seq(Shared) /\ <<>> \in Seq(AppFrames)
  BY EmptySeq
<1> QED BY <1>1, <1>2 DEF InstanceEnds

LEMMA PublicationOfTheRoom ==
    ASSUME AppTypes
    PROVE  Publication \in AppPublications \cup {Nothing}
BY DEF AppTypes, AppTypeOK, Publication

LEMMA RoomTypes ==
    ASSUME AppTypes, \/ \E b \in Bundles : Publish(b) \/ PublishRefused(b) \/ PublishDies(b)
                     \/ UploadBegins \/ UploadSaves
    PROVE  AppTypes'
<1> USE DEF AppTypes
<1> DEFINE Pub(b) == Written(PublishWrites(b), Len(PublishWrites(b)))
<1>1. ASSUME NEW b \in Bundles, Publish(b) PROVE AppTypes'
  <2>1. Len(PublishWrites(b)) \in 1..Len(PublishWrites(b))
    <3>1. b.size \in Nat /\ b.size >= 1
      BY SizesFit
    <3>2. CASE Publication = Nothing
      BY <3>1, <3>2, FirstWrites
    <3>3. CASE Publication # Nothing
      BY <3>1, <3>3, LaterWrites, PublicationOfTheRoom, PublicationFields
    <3> QED BY <3>2, <3>3
  <2>2. StoreOK(store')
    BY <1>1, <2>1, SameStore, PublishStores DEF Publish
  <2>3. RoomFrame(store') \in AppFrames
    BY <2>2, FramesOfTheRoom DEF StoreOK
  <2>4. down' \in [Humans -> Seq(AppFrames)]
    BY <1>1, <2>3, Broadcast DEF Publish, AppTypeOK
  <2> QED BY <1>1, <2>2, <2>4 DEF Publish, AppTypeOK, StoreOK
<1>2. ASSUME NEW b \in Bundles, PublishRefused(b) PROVE AppTypes'
  <2>1. StoreOK(store')
    BY <1>2, SameStore, RefusedStores DEF PublishRefused
  <2> QED BY <1>2, <2>1 DEF PublishRefused, AppTypeOK, StoreOK
<1>3. ASSUME NEW b \in Bundles, PublishDies(b) PROVE AppTypes'
  <2>1. StoreOK(store')
    BY <1>3, SameStore, PublishStores DEF PublishDies
  <2>2. InstanceEnds
    BY <1>3 DEF PublishDies
  <2> QED BY <1>3, <2>1, <2>2, ClosedPages DEF PublishDies, AppTypeOK, StoreOK
<1>4. CASE UploadBegins
  BY <1>4, PublicationOfTheRoom DEF UploadBegins, AppTypeOK
<1>5. CASE UploadSaves
  <2>1. upload \in AppPublications
    BY <1>5 DEF UploadSaves, AppTypeOK
  <2>2. StoreOK(store')
    BY <1>5, <2>1, SameStore, UploadStores DEF UploadSaves
  <2>3. RoomFrame(store') \in AppFrames
    BY <2>2, FramesOfTheRoom DEF StoreOK
  <2>4. down' \in [Humans -> Seq(AppFrames)]
    BY <1>5, <2>3, Broadcast DEF UploadSaves, AppTypeOK
  <2>5. putBack' \in BOOLEAN
    BY <1>5 DEF UploadSaves, AppTypeOK
  <2> QED BY <1>5, <2>2, <2>4, <2>5 DEF UploadSaves, AppTypeOK, StoreOK
<1> QED BY <1>1, <1>2, <1>3, <1>4, <1>5

LEMMA HeadOfUpdates ==
    ASSUME AppTypes, NEW h \in Humans, up[h] # <<>>
    PROVE  /\ Head(up[h]) \in Shared /\ Head(up[h]).state \in Nat /\ Head(up[h]).value \in States
           /\ [up EXCEPT ![h] = Tail(@)] \in [Humans -> Seq(Shared)]
<1>1. up[h] \in Seq(Shared) /\ up \in [Humans -> Seq(Shared)]
  BY DEF AppTypes, AppTypeOK
<1>2. Head(up[h]) \in Shared /\ Tail(up[h]) \in Seq(Shared)
  BY <1>1, HeadTailProperties
<1> QED BY <1>1, <1>2, SharedFields

LEMMA UpdateTypes ==
    ASSUME AppTypes, NEW h \in Humans,
           Update(h) \/ Conflict(h) \/ UpdateRefused(h) \/ UpdateDies(h)
    PROVE  AppTypes'
<1> USE DEF AppTypes
<1>1. up[h] # <<>> /\ Publication # Nothing /\ Publication \in AppPublications /\ up[h] \in Seq(Shared)
  BY PublicationOfTheRoom DEF Update, Conflict, UpdateRefused, UpdateDies, AppTypeOK
<1>2. accepted \cup Head(up[h]).value \in States
  BY <1>1, HeadOfUpdates DEF AppTypeOK, States
<1>3. CASE Update(h)
  <2>1. StoreOK(store')
    BY <1>1, <1>3, SameStore, UpdateStores DEF Update
  <2>2. SharedFrame(Publication.state + 1, Head(up[h]).value) \in AppFrames
    BY <1>1, HeadOfUpdates, PublicationFields, FramesOfTheRoom
  <2>3. down' \in [Humans -> Seq(AppFrames)]
    BY <1>3, <2>2, Broadcast DEF Update, AppTypeOK
  <2> QED BY <1>1, <1>2, <1>3, <2>1, <2>3, HeadOfUpdates DEF Update, AppTypeOK, StoreOK
<1>4. CASE Conflict(h)
  <2> DEFINE now == IF store[State] = Nothing THEN {} ELSE store[State]
  <2>1. now \in States
    BY DEF AppTypeOK, States
  <2>2. SharedFrame(Publication.state, now) \in AppFrames
    BY <1>1, <2>1, PublicationFields, FramesOfTheRoom
  <2>3. Append(down[h], SharedFrame(Publication.state, now)) \in Seq(AppFrames)
    BY <2>2, AppendProperties DEF AppTypeOK
  <2> HIDE DEF now
  <2>4. down' \in [Humans -> Seq(AppFrames)]
    BY <1>4, <2>3 DEF Conflict, AppTypeOK, now
  <2> QED BY <1>1, <1>4, <2>4, HeadOfUpdates DEF Conflict, AppTypeOK
<1>5. CASE UpdateRefused(h)
  BY <1>1, <1>5, HeadOfUpdates DEF UpdateRefused, AppTypeOK
<1>6. CASE UpdateDies(h)
  <2>1. PICK n \in 1..2 :
          /\ store' = Written(UpdateWrites(h), n)
          /\ accepted' = IF n = 2 THEN accepted \cup Head(up[h]).value ELSE accepted
    BY <1>6 DEF UpdateDies
  <2>2. StoreOK(store')
    BY <1>1, <2>1, SameStore, UpdateStores
  <2>3. accepted' \in States
    BY <1>2, <2>1 DEF AppTypeOK
  <2>4. InstanceEnds /\ UNCHANGED <<updates, putBack>>
    BY <1>6 DEF UpdateDies
  <2> QED BY <2>2, <2>3, <2>4, ClosedPages DEF AppTypeOK, StoreOK
<1> QED BY <1>3, <1>4, <1>5, <1>6

LEMMA PageTypes ==
    ASSUME AppTypes, NEW h \in Humans, NEW q \in Pages, HasDocument(q),
           page' = [page EXCEPT ![h] = q],
           UNCHANGED <<store, updates, upload, accepted, putBack>>,
           up' \in [Humans -> Seq(Shared)], down' \in [Humans -> Seq(AppFrames)]
    PROVE  AppTypes'
BY OnePage DEF AppTypes, AppTypeOK

LEMMA StepsOfPages ==
    ASSUME AppTypes, NEW h \in Humans,
           \/ Serve(h) \/ LoseSocket(h) \/ Reconnect(h) \/ TakeFrame(h) \/ Load(h) \/ Loaded(h)
           \/ LoadFails(h) \/ Bootstrap(h) \/ Ready(h) \/ Render(h) \/ Set(h)
    PROVE  AppTypes'
<1> DEFINE p == page[h]
<1>1. /\ p \in Pages /\ HasDocument(p) /\ page \in [Humans -> Pages]
      /\ up \in [Humans -> Seq(Shared)] /\ down \in [Humans -> Seq(AppFrames)]
  BY DEF AppTypes, AppTypeOK
<1>2. NoLoad \in Loads /\ [at |-> "asked"] \in Loads
  BY DEF NoLoad, Loads
<1>3. \A l \in Loads : [p EXCEPT !.load = l] \in Pages /\ HasDocument([p EXCEPT !.load = l])
  BY <1>1 DEF Pages, HasDocument
<1>4. \A o \in BOOLEAN : [p EXCEPT !.open = o] \in Pages /\ HasDocument([p EXCEPT !.open = o])
  BY <1>1 DEF Pages, HasDocument
<1>5. <<>> \in Seq(Shared) /\ <<>> \in Seq(AppFrames)
  BY EmptySeq
<1>6. CASE Serve(h)
  <2> DEFINE l == IF Publication = Nothing \/ BundleOf(Publication) = Nothing \/ store[State] = Nothing THEN NoLoad
                  ELSE [at |-> "here", revision |-> Publication.revision, state |-> Publication.state, value |-> store[State]]
  <2>1. l \in Loads
    <3>1. CASE Publication # Nothing /\ store[State] # Nothing
      <4>1. Publication \in AppPublications /\ store[State] \in States
        BY <3>1, PublicationOfTheRoom DEF AppTypes, AppTypeOK
      <4> QED BY <1>2, <4>1, PublicationFields DEF Loads
    <3> QED BY <1>2, <3>1
  <2> DEFINE q == [p EXCEPT !.load = l]
  <2>2. page' = [page EXCEPT ![h] = q] /\ UNCHANGED <<store, up, down, updates, upload, accepted, putBack>>
    BY <1>1, <1>6 DEF Serve
  <2> HIDE DEF l, p
  <2> QED BY <1>1, <1>3, <2>1, <2>2, PageTypes
<1>7. CASE LoseSocket(h)
  <2>1. page' = [page EXCEPT ![h] = [p EXCEPT !.open = FALSE]]
    BY <1>1, <1>7 DEF LoseSocket
  <2>2. up' \in [Humans -> Seq(Shared)] /\ down' \in [Humans -> Seq(AppFrames)]
    BY <1>1, <1>5, <1>7 DEF LoseSocket
  <2>3. UNCHANGED <<store, updates, upload, accepted, putBack>>
    BY <1>7 DEF LoseSocket
  <2> HIDE DEF p
  <2> QED BY <1>4, <2>1, <2>2, <2>3, PageTypes
<1>8. CASE Reconnect(h)
  <2>1. page' = [page EXCEPT ![h] = [p EXCEPT !.open = TRUE]]
    BY <1>1, <1>8 DEF Reconnect
  <2>2. RoomFrame(store) \in AppFrames
    BY FramesOfTheRoom DEF AppTypes, AppTypeOK
  <2>3. <<RoomFrame(store)>> \in Seq(AppFrames)
    BY <2>2
  <2>4. up' \in [Humans -> Seq(Shared)] /\ down' \in [Humans -> Seq(AppFrames)]
    BY <1>1, <1>8, <2>3 DEF Reconnect
  <2>5. UNCHANGED <<store, updates, upload, accepted, putBack>>
    BY <1>8 DEF Reconnect
  <2> HIDE DEF p
  <2> QED BY <1>4, <2>1, <2>4, <2>5, PageTypes
<1>9. CASE TakeFrame(h)
  <2> DEFINE f == Head(down[h])
             q == IF f.kind = "room" THEN [p EXCEPT !.apps = f.apps] ELSE TakeShared(p, f)
  <2>1. f \in AppFrames /\ Tail(down[h]) \in Seq(AppFrames)
    BY <1>1, <1>9, HeadTailProperties DEF TakeFrame
  <2>2. q \in Pages /\ HasDocument(q)
    <3>1. CASE f.kind = "room"
      <4>1. f.apps \in AppPublications \cup {Nothing}
        BY <2>1, <3>1 DEF AppFrames
      <4> HIDE DEF f
      <4>2. [p EXCEPT !.apps = f.apps] \in Pages /\ HasDocument([p EXCEPT !.apps = f.apps])
        BY <1>1, <4>1 DEF Pages, HasDocument
      <4> QED BY <3>1, <4>2
    <3>2. CASE f.kind # "room"
      <4>1. f.state \in Nat /\ f.value \in States
        BY <2>1, <3>2 DEF AppFrames
      <4> HIDE DEF f, p
      <4> QED BY <1>1, <3>2, <4>1, TakenShared
    <3> QED BY <3>1, <3>2
  <2>3. page' = [page EXCEPT ![h] = q]
    BY <1>1, <1>9 DEF TakeFrame
  <2>4. down' \in [Humans -> Seq(AppFrames)] /\ up' \in [Humans -> Seq(Shared)]
    BY <1>1, <1>9, <2>1 DEF TakeFrame
  <2>5. UNCHANGED <<store, updates, upload, accepted, putBack>>
    BY <1>9 DEF TakeFrame
  <2> HIDE DEF q
  <2> QED BY <2>2, <2>3, <2>4, <2>5, PageTypes
<1>10. CASE Load(h)
  <2>1. p.load = NoLoad
    BY <1>10 DEF Load
  <2>2. [p EXCEPT !.load.at = "asked"] = [p EXCEPT !.load = [at |-> "asked"]]
    BY <2>1 DEF NoLoad
  <2>3. page' = [page EXCEPT ![h] = [p EXCEPT !.load = [at |-> "asked"]]]
    BY <1>1, <1>10, <2>2 DEF Load
  <2>4. UNCHANGED <<store, up, down, updates, upload, accepted, putBack>>
    BY <1>10 DEF Load
  <2> HIDE DEF p
  <2> QED BY <1>1, <1>2, <1>3, <2>3, <2>4, PageTypes
<1>11. CASE Loaded(h)
  <2> DEFINE q == IF Outdated(p) THEN [p EXCEPT !.load = NoLoad]
                  ELSE [With(p, Reconciled(p)) EXCEPT !.load = NoLoad, !.pending = Nothing]
  <2>1. q \in Pages /\ HasDocument(q)
    <3>1. p.load.at = "here"
      BY <1>11 DEF Loaded
    <3> HIDE DEF p
    <3> QED BY <1>1, <3>1, LoadedPage
  <2>2. page' = [page EXCEPT ![h] = q] /\ UNCHANGED <<store, up, down, updates, upload, accepted, putBack>>
    BY <1>1, <1>11 DEF Loaded
  <2> HIDE DEF q
  <2> QED BY <1>1, <2>1, <2>2, PageTypes
<1>12. CASE LoadFails(h)
  <2>1. page' = [page EXCEPT ![h] = [p EXCEPT !.load = NoLoad]]
    BY <1>1, <1>12 DEF LoadFails
  <2>2. UNCHANGED <<store, up, down, updates, upload, accepted, putBack>>
    BY <1>12 DEF LoadFails
  <2> HIDE DEF p
  <2> QED BY <1>1, <1>2, <1>3, <2>1, <2>2, PageTypes
<1>13. CASE Bootstrap(h)
  <2> DEFINE mount == [at |-> "boot", state |-> p.doc.state, value |-> p.doc.value]
  <2>1. p.doc \in Documents /\ p.doc # Nothing
    BY <1>1, <1>13, PageFields DEF Bootstrap, HasDocument
  <2>2. mount \in Hosts
    BY <2>1, DocumentFields DEF Hosts
  <2>3. page' = [page EXCEPT ![h] = [p EXCEPT !.host = mount]]
    BY <1>1, <1>13 DEF Bootstrap
  <2>4. UNCHANGED <<store, up, down, updates, upload, accepted, putBack>>
    BY <1>13 DEF Bootstrap
  <2> HIDE DEF mount
  <2>5. [p EXCEPT !.host = mount] \in Pages /\ HasDocument([p EXCEPT !.host = mount])
    BY <1>1, <2>1, <2>2 DEF Pages, HasDocument
  <2> QED BY <1>1, <2>3, <2>4, <2>5, PageTypes
<1>14. CASE Ready(h)
  <2> DEFINE mount == [p.host EXCEPT !.at = "ready"]
  <2>1. p.host \in Hosts /\ p.host.at = "boot"
    BY <1>1, <1>14, PageFields DEF Ready
  <2>2. mount \in Hosts
    BY <2>1 DEF Hosts
  <2>3. page' = [page EXCEPT ![h] = [p EXCEPT !.host = mount]]
    BY <1>1, <1>14 DEF Ready
  <2>4. UNCHANGED <<store, up, down, updates, upload, accepted, putBack>>
    BY <1>14 DEF Ready
  <2>5. p.doc # Nothing
    BY <1>1, <2>1 DEF HasDocument
  <2> HIDE DEF mount
  <2>6. [p EXCEPT !.host = mount] \in Pages /\ HasDocument([p EXCEPT !.host = mount])
    BY <1>1, <2>2, <2>5 DEF Pages, HasDocument
  <2> QED BY <1>1, <2>3, <2>4, <2>6, PageTypes
<1>15. CASE Render(h)
  <2> DEFINE mount == ShowsState(p.host, p.doc.state, p.doc.value)
  <2>1. p.host \in Hosts /\ p.host.at = "ready"
    BY <1>1, <1>15, PageFields DEF Render, Missed
  <2>2. p.doc # Nothing /\ p.doc \in Documents
    BY <1>1, <2>1, PageFields DEF HasDocument
  <2>3. mount \in Hosts
    BY <2>1, <2>2, DocumentFields, ShownState
  <2>4. page' = [page EXCEPT ![h] = [p EXCEPT !.host = mount]]
    BY <1>1, <1>15 DEF Render
  <2>5. UNCHANGED <<store, up, down, updates, upload, accepted, putBack>>
    BY <1>15 DEF Render
  <2> HIDE DEF mount
  <2>6. [p EXCEPT !.host = mount] \in Pages /\ HasDocument([p EXCEPT !.host = mount])
    BY <1>1, <2>2, <2>3 DEF Pages, HasDocument
  <2> QED BY <1>1, <2>4, <2>5, <2>6, PageTypes
<1>16. CASE Set(h)
  <2> DEFINE new == [state |-> p.host.state, value |-> p.host.value \cup {updates'}]
  <2>1. p.host.state \in Nat /\ p.host.value \in States
    BY <1>1, <1>16, PageFields, HostFields DEF Set
  <2>2. updates' \in 1..MaxUpdates /\ updates' \in 0..MaxUpdates
    BY <1>16, AppConstantsFit DEF Set, AppTypes, AppTypeOK
  <2>3. new \in Shared
    BY <2>1, <2>2 DEF Shared, States
  <2>4. Append(up[h], new) \in Seq(Shared)
    BY <1>1, <2>3, AppendProperties
  <2>5. up' = [up EXCEPT ![h] = Append(@, new)] /\ UNCHANGED <<store, page, down, upload, accepted, putBack>>
    BY <1>16 DEF Set
  <2> HIDE DEF new
  <2>6. up' \in [Humans -> Seq(Shared)]
    BY <1>1, <2>4, <2>5
  <2> QED BY <2>2, <2>5, <2>6 DEF AppTypes, AppTypeOK
<1> QED BY <1>6, <1>7, <1>8, <1>9, <1>10, <1>11, <1>12, <1>13, <1>14, <1>15, <1>16

LEMMA TypesStep == AppTypes /\ [AppNext]_appvars => AppTypes'
<1> SUFFICES ASSUME AppTypes, [AppNext]_appvars PROVE AppTypes'
  OBVIOUS
<1>1. CASE AppNext
  BY <1>1, RoomTypes, UpdateTypes, StepsOfPages DEF AppNext, AppSteps, AppFaults
<1>2. CASE UNCHANGED appvars
  BY <1>2 DEF appvars, AppTypes, AppTypeOK
<1> QED BY <1>1, <1>2

LEMMA TypesInit == AppInit => AppTypes
<1> SUFFICES ASSUME AppInit PROVE AppTypes
  OBVIOUS
<1>1. NewPage \in Pages /\ HasDocument(NewPage)
  BY DEF NewPage, NoLoad, Pages, Loads, Hosts, HasDocument
<1>2. StoreOK(store)
  BY AreKeys DEF AppInit, StoreOK
<1>3. <<>> \in Seq(Shared) /\ <<>> \in Seq(AppFrames)
  BY EmptySeq
<1>4. updates \in 0..MaxUpdates /\ accepted \in States
  <2>1. MaxUpdates \in Nat
    BY AppConstantsFit
  <2> QED BY <2>1 DEF AppInit, States
<1> QED BY <1>1, <1>2, <1>3, <1>4 DEF AppInit, AppTypes, AppTypeOK, StoreOK

\* The storage, the pages and the frames keep their types for any number of Humans,
\* bundles, revisions and updates.
THEOREM AppTypesCorrect == AppSpec => []AppTypeOK
<1>1. AppTypes => AppTypeOK
  BY DEF AppTypes
<1> QED BY <1>1, TypesInit, TypesStep, PTL DEF AppSpec

-----------------------------------------------------------------------------
(* Part 3.  The publication of a generated App and its shared state *)

LEMMA PublishIntact ==
    ASSUME StoreOK(store), StoreIntact(store, accepted), NEW b \in Bundles, MayPublish(b),
           NEW n \in 1..Len(PublishWrites(b))
    PROVE  LET now == Written(PublishWrites(b), n)
           IN  /\ StoreIntact(now, accepted)
               /\ store[Room] # Nothing => now[Room] # Nothing /\ now[Room].state = store[Room].state
<1> DEFINE now == Written(PublishWrites(b), n)
           size == b.size
<1>1. size \in Nat /\ size >= 1 /\ \A i \in 1..size : i \in Chunks
  BY SizesFit
<1>2. CASE Publication = Nothing
  <2>1. accepted = {} /\ store[Room] = Nothing
    BY <1>2 DEF StoreIntact, Publication
  <2>2. n \in 1..(size + 2)
    BY <1>1, <1>2, FirstWrites
  <2>3. CASE n = size + 2
    <3>1. now[Room] = First(b) /\ now[State] = {}
      BY <1>1, <1>2, <2>3, FirstWritten
    <3>2. First(b) # Nothing /\ First(b).size = size /\ First(b).revision = 1
      BY NewPublications, NothingIsNone DEF First
    <3>3. \A i \in 1..size : now[Chunk(1, i)] = Piece(b, i)
      BY <1>1, <1>2, <2>3, FirstWritten, SizesFit
    <3>4. {} # Nothing
      BY NothingIsNone DEF States
    <3> HIDE DEF now
    <3>5. Whole(now, First(b))
      BY <3>2, <3>3 DEF Whole
    <3> QED BY <2>1, <3>1, <3>2, <3>4, <3>5 DEF StoreIntact, now
  <2>4. CASE n # size + 2
    BY <1>2, <2>1, <2>4, FirstWritten DEF StoreIntact
  <2> QED BY <2>3, <2>4
<1>3. CASE Publication # Nothing
  <2> DEFINE was == Publication
  <2>1. was \in AppPublications /\ was.revision + 1 \in Revisions /\ was = store[Room]
    BY <1>3, NextRevision DEF StoreOK, Publication
  <2>2. /\ was.revision \in Nat /\ was.revision \in Revisions /\ was.size \in Nat
        /\ \A i \in 1..was.size : i \in Chunks
    BY <2>1, PublicationFields
  <2>3. now[State] = store[State] /\ store[State] # Nothing /\ accepted \subseteq store[State]
    BY <1>3, <2>1, LaterWritten DEF StoreIntact
  <2>4. CASE n > size
    <3>1. now[Room] = Later(b)
      BY <1>3, <2>1, <2>4, LaterWritten
    <3>2. /\ Later(b) # Nothing /\ Later(b).size = size
          /\ Later(b).revision = was.revision + 1 /\ Later(b).state = was.state
      BY <2>1, NewPublications, NothingIsNone DEF Later, AppPublications
    <3>3. ASSUME NEW i \in 1..size
          PROVE  now[Chunk(was.revision + 1, i)] = Piece(b, i)
      <4>1. i \in Chunks /\ i <= size /\ i <= n
        BY <1>1, <2>4
      <4> QED BY <1>3, <2>1, <4>1, LaterWritten
    <3> HIDE DEF now
    <3>4. Whole(now, Later(b))
      BY <3>2, <3>3 DEF Whole
    <3> QED BY <2>1, <2>3, <3>1, <3>2, <3>4 DEF StoreIntact, now
  <2>5. CASE ~(n > size)
    <3>1. now[Room] = was
      BY <1>3, <2>1, <2>5, LaterWritten
    <3>2. ASSUME NEW i \in 1..was.size
          PROVE  now[Chunk(was.revision, i)] = store[Chunk(was.revision, i)]
      <4>1. i \in Chunks /\ i \in Nat /\ was.revision # was.revision + 1 /\ ~(size + 1 + i <= n)
        BY <1>1, <2>2, <2>5
      <4> QED BY <1>3, <2>1, <2>2, <4>1, LaterWritten
    <3>3. Whole(store, was)
      BY <1>3, <2>1 DEF StoreIntact
    <3> HIDE DEF now
    <3>4. Whole(now, was)
      BY <3>2, <3>3 DEF Whole
    <3> QED BY <1>3, <2>1, <2>3, <3>1, <3>4 DEF StoreIntact, now
  <2> QED BY <2>4, <2>5
<1> QED BY <1>2, <1>3

LEMMA RefusedIntact ==
    ASSUME StoreOK(store), StoreIntact(store, accepted), NEW b \in Bundles,
           NEW n \in Nat, n = Len(RefusedWrites(b))
    PROVE  LET now == Written(RefusedWrites(b), n)
           IN  StoreIntact(now, accepted) /\ now[Room] = store[Room]
<1> DEFINE now == Written(RefusedWrites(b), n)
<1>1. /\ now[Room] = store[Room]
      /\ Publication # Nothing =>
            /\ now[State] = store[State]
            /\ \A i \in Chunks : now[Chunk(Publication.revision, i)] = store[Chunk(Publication.revision, i)]
  BY RefusedWritten DEF StoreOK, Publication
<1>2. CASE store[Room] # Nothing
  <2>1. \A i \in 1..store[Room].size : i \in Chunks
    BY <1>2, PublicationFields DEF StoreOK
  <2> HIDE DEF now
  <2>2. Whole(now, store[Room])
    BY <1>1, <1>2, <2>1 DEF Whole, StoreIntact, Publication
  <2> QED BY <1>1, <1>2, <2>2 DEF StoreIntact, Publication, now
<1>3. CASE store[Room] = Nothing
  BY <1>1, <1>3 DEF StoreIntact
<1> QED BY <1>2, <1>3

LEMMA UpdateIntact ==
    ASSUME StoreOK(store), StoreIntact(store, accepted), NEW h \in Humans, up[h] # <<>>,
           Publication # Nothing, Current(h), Head(up[h]) \in Shared,
           Fits(Publication, accepted, Head(up[h]).state, Head(up[h]).value), NEW n \in 1..2
    PROVE  LET now == Written(UpdateWrites(h), n)
               acc == IF n = 2 THEN accepted \cup Head(up[h]).value ELSE accepted
           IN  /\ StoreIntact(now, acc) /\ now[Room] # Nothing
               /\ \/ n = 2 /\ now[Room].state = Publication.state + 1 /\ acc = Head(up[h]).value
                  \/ n = 1 /\ now[Room] = store[Room] /\ acc = accepted
<1> DEFINE now == Written(UpdateWrites(h), n)
           value == Head(up[h]).value
           acc == IF n = 2 THEN accepted \cup value ELSE accepted
           next == [Publication EXCEPT !.state = @ + 1]
<1>1. /\ now[State] = value /\ now[Room] = IF n = 2 THEN next ELSE store[Room]
      /\ \A r \in Revisions, i \in Chunks : now[Chunk(r, i)] = store[Chunk(r, i)]
  BY UpdateWritten
<1>2. accepted \subseteq value /\ value # Nothing
  BY SharedFields, NothingIsNone DEF Current, Fits
<1>3. Publication \in AppPublications /\ Publication = store[Room]
  BY DEF StoreOK, Publication
<1>4. /\ next # Nothing /\ next.size = Publication.size /\ next.revision = Publication.revision
      /\ next.state = Publication.state + 1
  BY <1>3, NewPublications, NothingIsNone DEF AppPublications
<1>5. Whole(store, Publication) /\ Publication.revision \in Revisions
      /\ \A i \in 1..Publication.size : i \in Chunks
  BY <1>3, PublicationFields DEF StoreIntact
<1> HIDE DEF now, next, value
<1>6. Whole(now, Publication) /\ Whole(now, next)
  BY <1>1, <1>4, <1>5 DEF Whole
<1>7. CASE n = 1
  <2>1. acc = accepted /\ now[Room] = Publication
    BY <1>1, <1>3, <1>7
  <2>2. StoreIntact(now, accepted)
    BY <1>1, <1>2, <1>6, <2>1 DEF StoreIntact
  <2> QED BY <1>3, <1>7, <2>1, <2>2 DEF now
<1>8. CASE n = 2
  <2>1. acc = value /\ now[Room] = next
    BY <1>1, <1>2, <1>8
  <2>2. StoreIntact(now, value)
    BY <1>1, <1>2, <1>4, <1>6, <2>1 DEF StoreIntact
  <2> QED BY <1>4, <1>8, <2>1, <2>2 DEF now, value
<1> QED BY <1>7, <1>8

\* What a step of the room does to the states that are under way.
Keeps(p, acc, p2, acc2) ==
    \A n \in Nat : \A value : Fits(p, acc, n, value) => Fits(p2, acc2, n, value)

LEMMA KeptPage ==
    ASSUME NEW p, NEW acc, NEW p2, NEW acc2, Keeps(p, acc, p2, acc2),
           NEW q \in Pages, PageFits(p, acc, q)
    PROVE  PageFits(p2, acc2, q)
<1>1. q.doc # Nothing => q.doc.state \in Nat
  BY PageFields, DocumentFields
<1>2. q.pending # Nothing => q.pending.state \in Nat
  BY PageFields, SharedFields
<1>3. q.host.at \in {"boot", "ready"} => q.host.state \in Nat
  BY PageFields, HostFields
<1>4. q.load.at = "here" => q.load.state \in Nat
  BY PageFields, LoadFields
<1> QED BY <1>1, <1>2, <1>3, <1>4 DEF Keeps, PageFits, HostFits

LEMMA KeptFrames ==
    ASSUME NEW p, NEW acc, NEW p2, NEW acc2, Keeps(p, acc, p2, acc2)
    PROVE  /\ \A s \in Seq(Shared) : UpdatesFit(p, acc, s) => UpdatesFit(p2, acc2, s)
           /\ \A s \in Seq(AppFrames) : FramesFit(p, acc, s) => FramesFit(p2, acc2, s)
<1>1. ASSUME NEW s \in Seq(Shared), UpdatesFit(p, acc, s) PROVE UpdatesFit(p2, acc2, s)
  <2>1. \A i \in 1..Len(s) : s[i].state \in Nat
    BY ElementOfSeq, SharedFields
  <2> QED BY <1>1, <2>1 DEF UpdatesFit, Keeps
<1>2. ASSUME NEW s \in Seq(AppFrames), FramesFit(p, acc, s) PROVE FramesFit(p2, acc2, s)
  <2>1. ASSUME NEW i \in 1..Len(s), s[i].kind = "shared" PROVE s[i].state \in Nat
    <3>1. s[i] \in AppFrames
      BY ElementOfSeq
    <3> QED BY <2>1, <3>1 DEF AppFrames
  <2> QED BY <1>2, <2>1 DEF FramesFit, Keeps
<1> QED BY <1>1, <1>2

LEMMA EmptyFits == \A p, acc : UpdatesFit(p, acc, <<>>) /\ FramesFit(p, acc, <<>>)
BY DEF UpdatesFit, FramesFit

LEMMA AppendFits ==
    ASSUME NEW p, NEW acc
    PROVE  /\ \A s \in Seq(Shared), f \in Shared :
                UpdatesFit(p, acc, s) /\ Fits(p, acc, f.state, f.value) => UpdatesFit(p, acc, Append(s, f))
           /\ \A s \in Seq(AppFrames), f \in AppFrames :
                FramesFit(p, acc, s) /\ (f.kind = "shared" => Fits(p, acc, f.state, f.value))
                    => FramesFit(p, acc, Append(s, f))
BY AppendProperties DEF UpdatesFit, FramesFit

LEMMA TailFits ==
    ASSUME NEW p, NEW acc
    PROVE  /\ \A s \in Seq(Shared) : s # <<>> /\ UpdatesFit(p, acc, s) =>
                UpdatesFit(p, acc, Tail(s)) /\ Fits(p, acc, Head(s).state, Head(s).value)
           /\ \A s \in Seq(AppFrames) : s # <<>> /\ FramesFit(p, acc, s) =>
                /\ FramesFit(p, acc, Tail(s))
                /\ Head(s).kind = "shared" => Fits(p, acc, Head(s).state, Head(s).value)
BY HeadTailProperties DEF UpdatesFit, FramesFit

LEMMA KeptStates ==
    ASSUME NEW p \in AppPublications \cup {Nothing}, NEW acc, NEW p2, NEW acc2,
           p # Nothing => /\ p2 # Nothing
                          /\ \/ p2.state = p.state /\ acc2 = acc
                             \/ p2.state = p.state + 1
    PROVE  Keeps(p, acc, p2, acc2)
<1> SUFFICES ASSUME NEW n \in Nat, NEW value, Fits(p, acc, n, value)
             PROVE  Fits(p2, acc2, n, value)
  BY DEF Keeps
<1>1. p # Nothing /\ p.state \in Nat /\ n <= p.state
  BY PublicationFields DEF Fits
<1> QED BY <1>1 DEF Fits

LEMMA ShownFits ==
    ASSUME NEW p, NEW acc, NEW mount \in Hosts, HostFits(p, acc, mount),
           NEW n \in Nat, NEW value \in States, Fits(p, acc, n, value)
    PROVE  HostFits(p, acc, ShowsState(mount, n, value))
BY ShownState DEF HostFits

LEMMA WithFits ==
    ASSUME NEW p, NEW acc, NEW q \in Pages, PageFits(p, acc, q),
           NEW doc \in Documents, Fits(p, acc, doc.state, doc.value)
    PROVE  PageFits(p, acc, With(q, doc))
<1>1. HostFits(p, acc, Mounted(q, doc))
  BY MountedHost DEF HostFits, PageFits
<1> QED BY <1>1, WithDocument DEF PageFits

LEMMA TakenFits ==
    ASSUME NEW p, NEW acc, NEW q \in Pages, PageFits(p, acc, q),
           NEW f, f.state \in Nat, f.value \in States, Fits(p, acc, f.state, f.value)
    PROVE  PageFits(p, acc, TakeShared(q, f))
<1> DEFINE news == [state |-> f.state, value |-> f.value]
<1>1. CASE q.doc = Nothing
  <2>1. news \in Shared /\ news.state = f.state /\ news.value = f.value
    BY DEF Shared
  <2> HIDE DEF news
  <2>2. /\ [q EXCEPT !.pending = news].pending = news /\ [q EXCEPT !.pending = news].doc = q.doc
        /\ [q EXCEPT !.pending = news].host = q.host /\ [q EXCEPT !.pending = news].load = q.load
    BY DEF Pages
  <2>3. PageFits(p, acc, [q EXCEPT !.pending = news])
    BY <2>1, <2>2 DEF PageFits
  <2> QED BY <1>1, <2>3 DEF TakeShared, news
<1>2. CASE q.doc # Nothing
  <2> DEFINE shown == [q EXCEPT !.host = ShowsState(@, f.state, f.value)]
             doc == [q.doc EXCEPT !.state = f.state, !.value = f.value]
  <2>1. q.host \in Hosts /\ q.doc \in Documents
    BY <1>2, PageFields
  <2>2. ShowsState(q.host, f.state, f.value) \in Hosts
    BY <2>1, ShownState
  <2>3. /\ shown \in Pages /\ shown.doc = q.doc /\ shown.pending = q.pending /\ shown.load = q.load
        /\ shown.host = ShowsState(q.host, f.state, f.value)
    BY <2>2 DEF Pages
  <2>4. HostFits(p, acc, q.host)
    BY DEF PageFits
  <2>5. HostFits(p, acc, ShowsState(q.host, f.state, f.value))
    BY <2>1, <2>4, ShownFits
  <2> HIDE DEF shown
  <2>6. PageFits(p, acc, shown)
    BY <2>3, <2>5 DEF PageFits
  <2>7. doc \in Documents /\ doc.state = f.state /\ doc.value = f.value
    BY <2>1 DEF Documents
  <2> HIDE DEF doc
  <2>8. PageFits(p, acc, With(shown, doc))
    BY <2>3, <2>6, <2>7, WithFits
  <2>9. TakeShared(q, f) \in {shown, With(shown, doc)}
    BY <1>2, <2>3 DEF TakeShared, shown, doc
  <2> QED BY <2>6, <2>8, <2>9
<1> QED BY <1>1, <1>2

LEMMA LoadedFits ==
    ASSUME NEW p, NEW acc, NEW q \in Pages, HasDocument(q), q.load.at = "here", PageFits(p, acc, q)
    PROVE  /\ PageFits(p, acc, [With(q, Reconciled(q)) EXCEPT !.load = NoLoad, !.pending = Nothing])
           /\ PageFits(p, acc, [q EXCEPT !.load = NoLoad])
<1> DEFINE new == [With(q, Reconciled(q)) EXCEPT !.load = NoLoad, !.pending = Nothing]
<1>1. Reconciled(q) \in Documents /\ Fits(p, acc, Reconciled(q).state, Reconciled(q).value)
  BY ReconciledDocument DEF PageFits
<1>2. HostFits(p, acc, Mounted(q, Reconciled(q)))
  BY <1>1, MountedHost DEF HostFits, PageFits
<1>3. /\ new.doc = Reconciled(q) /\ new.host = Mounted(q, Reconciled(q))
      /\ new.load = NoLoad /\ new.pending = Nothing
  BY LoadedPage
<1>4. NoLoad.at # "here"
  BY DEF NoLoad
<1> HIDE DEF new
<1>5. PageFits(p, acc, new)
  BY <1>1, <1>2, <1>3, <1>4 DEF PageFits
<1>6. PageFits(p, acc, [q EXCEPT !.load = NoLoad])
  BY <1>4 DEF PageFits, Pages
<1> QED BY <1>5, <1>6 DEF new

\* A step of the room, which may broadcast a frame that fits.
LEMMA RoomKeeps ==
    ASSUME AppTypes, ViewsFit, Keeps(Publication, accepted, Publication', accepted'),
           UNCHANGED <<page, up>>,
           \/ UNCHANGED down
           \/ \E f \in AppFrames :
                /\ ToAll(f)
                /\ f.kind = "shared" => Fits(Publication', accepted', f.state, f.value)
    PROVE  ViewsFit'
<1> DEFINE p == Publication'
           acc == accepted'
<1>1. ASSUME NEW h \in Humans
      PROVE  PageFits(p, acc, page[h]) /\ UpdatesFit(p, acc, up[h]) /\ FramesFit(p, acc, down[h])
            /\ down[h] \in Seq(AppFrames)
  <2>1. /\ page[h] \in Pages /\ up[h] \in Seq(Shared) /\ down[h] \in Seq(AppFrames)
        /\ PageFits(Publication, accepted, page[h]) /\ UpdatesFit(Publication, accepted, up[h])
        /\ FramesFit(Publication, accepted, down[h])
    BY DEF AppTypes, AppTypeOK, ViewsFit
  <2> HIDE DEF p, acc
  <2>2. Keeps(Publication, accepted, p, acc)
    BY DEF p, acc
  <2> QED BY <2>1, <2>2, KeptPage, KeptFrames
<1>2. CASE UNCHANGED down
  BY <1>1, <1>2 DEF ViewsFit
<1>3. ASSUME NEW f \in AppFrames, ToAll(f),
             f.kind = "shared" => Fits(Publication', accepted', f.state, f.value)
      PROVE  ViewsFit'
  <2>1. ASSUME NEW h \in Humans PROVE FramesFit(p, acc, down'[h])
    <3>1. down'[h] = down[h] \/ down'[h] = Append(down[h], f)
      BY <1>3 DEF ToAll
    <3>2. f.kind = "shared" => Fits(p, acc, f.state, f.value)
      BY <1>3
    <3> HIDE DEF p, acc
    <3>3. FramesFit(p, acc, down[h]) /\ down[h] \in Seq(AppFrames)
      BY <1>1
    <3>4. FramesFit(p, acc, Append(down[h], f))
      BY <1>3, <3>2, <3>3, AppendFits
    <3> QED BY <3>1, <3>3, <3>4
  <2> QED BY <1>1, <2>1 DEF ViewsFit
<1> QED BY <1>2, <1>3

LEMMA ClosedKeeps ==
    ASSUME AppTypes, ViewsFit, Keeps(Publication, accepted, Publication', accepted'), InstanceEnds
    PROVE  ViewsFit'
<1> DEFINE p == Publication'
           acc == accepted'
<1>1. ASSUME NEW h \in Humans
      PROVE  PageFits(p, acc, page'[h])
  <2>1. page[h] \in Pages /\ PageFits(Publication, accepted, page[h])
    BY DEF AppTypes, AppTypeOK, ViewsFit
  <2> HIDE DEF p, acc
  <2>2. Keeps(Publication, accepted, p, acc)
    BY DEF p, acc
  <2>3. PageFits(p, acc, page[h])
    BY <2>1, <2>2, KeptPage
  <2>4. PageFits(p, acc, [page[h] EXCEPT !.open = FALSE])
    BY <2>1, <2>3 DEF PageFits, Pages
  <2> QED BY <2>4 DEF InstanceEnds
<1>2. \A h \in Humans : up'[h] = <<>> /\ down'[h] = <<>>
  BY DEF InstanceEnds
<1> QED BY <1>1, <1>2, EmptyFits DEF ViewsFit

LEMMA PublishKeeps ==
    ASSUME AppTypes, Intact, \E b \in Bundles : Publish(b) \/ PublishRefused(b) \/ PublishDies(b)
    PROVE  Intact'
<1>1. StoreOK(store) /\ Publication \in AppPublications \cup {Nothing} /\ Publication = store[Room]
  BY SameStore, PublicationOfTheRoom DEF Publication
<1>2. ASSUME NEW b \in Bundles, MayPublish(b), NEW n \in 1..Len(PublishWrites(b)),
             store' = Written(PublishWrites(b), n), accepted' = accepted
      PROVE  /\ StoreIntact(store', accepted')
             /\ Keeps(Publication, accepted, Publication', accepted')
  <2>1. /\ StoreIntact(store', accepted)
        /\ store[Room] # Nothing => store'[Room] # Nothing /\ store'[Room].state = store[Room].state
    BY <1>1, <1>2, PublishIntact DEF Intact
  <2> QED BY <1>1, <1>2, <2>1, KeptStates DEF Publication
<1>3. ASSUME NEW b \in Bundles, Publish(b) PROVE Intact'
  <2> DEFINE n == Len(PublishWrites(b))
  <2>1. n \in 1..n
    <3>1. b.size \in Nat /\ b.size >= 1
      BY SizesFit
    <3>2. CASE Publication = Nothing
      BY <3>1, <3>2, FirstWrites
    <3>3. CASE Publication # Nothing
      BY <1>1, <3>1, <3>3, LaterWrites, PublicationFields
    <3> QED BY <3>2, <3>3
  <2>2. MayPublish(b) /\ store' = Written(PublishWrites(b), n) /\ accepted' = accepted
    BY <1>3 DEF Publish
  <2> HIDE DEF n
  <2>3. n \in 1..Len(PublishWrites(b))
    BY <2>1 DEF n
  <2>4. StoreIntact(store', accepted') /\ Keeps(Publication, accepted, Publication', accepted')
    BY <1>2, <2>2, <2>3
  <2>5. RoomFrame(store') \in AppFrames /\ RoomFrame(store').kind = "room"
    <3>1. StoreOK(store')
      BY <1>1, <2>2, <2>3, PublishStores
    <3> QED BY <3>1, FramesOfTheRoom DEF StoreOK, RoomFrame
  <2>6. ToAll(RoomFrame(store')) /\ UNCHANGED <<page, up>>
    BY <1>3 DEF Publish
  <2>7. \E f \in AppFrames :
            /\ ToAll(f)
            /\ f.kind = "shared" => Fits(Publication', accepted', f.state, f.value)
    BY <2>5, <2>6
  <2>8. ViewsFit'
    BY <2>4, <2>6, <2>7, RoomKeeps DEF Intact
  <2> QED BY <2>4, <2>8 DEF Intact
<1>4. ASSUME NEW b \in Bundles, PublishRefused(b) PROVE Intact'
  <2>1. StoreOK(store')
    BY <1>1, <1>4, RefusedStores DEF PublishRefused
  <2>2. Len(RefusedWrites(b)) \in Nat
    BY <1>1, LengthOfRefused
  <2>3. StoreIntact(store', accepted) /\ store'[Room] = store[Room]
    BY <1>1, <1>4, <2>2, RefusedIntact DEF PublishRefused, Intact
  <2>4. UNCHANGED <<page, up, down, accepted>>
    BY <1>4 DEF PublishRefused
  <2>5. Keeps(Publication, accepted, Publication', accepted')
    BY <1>1, <2>3, <2>4 DEF Publication, Keeps
  <2>6. ViewsFit'
    BY <2>4, <2>5, RoomKeeps DEF Intact
  <2> QED BY <2>3, <2>4, <2>6 DEF Intact
<1>5. ASSUME NEW b \in Bundles, PublishDies(b) PROVE Intact'
  <2>1. PICK n \in 1..Len(PublishWrites(b)) : store' = Written(PublishWrites(b), n)
    BY <1>5 DEF PublishDies
  <2>2. MayPublish(b) /\ accepted' = accepted /\ InstanceEnds
    BY <1>5 DEF PublishDies
  <2>3. StoreIntact(store', accepted') /\ Keeps(Publication, accepted, Publication', accepted')
    BY <1>2, <2>1, <2>2
  <2> QED BY <2>2, <2>3, ClosedKeeps DEF Intact
<1> QED BY <1>3, <1>4, <1>5

LEMMA UpdateKeeps ==
    ASSUME AppTypes, Intact, NEW h \in Humans,
           Update(h) \/ Conflict(h) \/ UpdateRefused(h) \/ UpdateDies(h)
    PROVE  Intact'
<1> DEFINE f == Head(up[h])
<1>1. /\ StoreOK(store) /\ Publication \in AppPublications /\ Publication = store[Room]
      /\ Publication # Nothing /\ up[h] # <<>> /\ up[h] \in Seq(Shared) /\ StoreIntact(store, accepted)
  BY SameStore, PublicationOfTheRoom DEF Publication, Update, Conflict, UpdateRefused, UpdateDies,
     AppTypes, AppTypeOK, Intact
<1>2. /\ f \in Shared /\ Fits(Publication, accepted, f.state, f.value)
      /\ UpdatesFit(Publication, accepted, Tail(up[h])) /\ Tail(up[h]) \in Seq(Shared)
  BY <1>1, TailFits, HeadTailProperties DEF Intact, ViewsFit
<1>3. CASE Update(h)
  <2>0. Current(h)
    BY <1>3 DEF Update
  <2>1. PICK n \in 1..2 :
          /\ n = 2 /\ store' = Written(UpdateWrites(h), n)
          /\ accepted' = IF n = 2 THEN accepted \cup f.value ELSE accepted
    BY <1>3 DEF Update
  <2> HIDE DEF f
  <2>2. /\ StoreIntact(store', accepted') /\ store'[Room] # Nothing
        /\ store'[Room].state = Publication.state + 1 /\ accepted' = f.value
    <3> DEFINE now == Written(UpdateWrites(h), n)
               acc == IF n = 2 THEN accepted \cup f.value ELSE accepted
    <3>1. /\ StoreIntact(now, acc) /\ now[Room] # Nothing
          /\ \/ n = 2 /\ now[Room].state = Publication.state + 1 /\ acc = f.value
             \/ n = 1 /\ now[Room] = store[Room] /\ acc = accepted
      BY <1>1, <1>2, <2>0, UpdateIntact DEF f
    <3>2. store' = now /\ accepted' = acc /\ n = 2
      BY <2>1
    <3> HIDE DEF now, acc
    <3> QED BY <3>1, <3>2
  <2>3. Keeps(Publication, accepted, Publication', accepted')
    BY <1>1, <2>2, KeptStates DEF Publication
  <2> DEFINE new == SharedFrame(Publication.state + 1, f.value)
  <2>4. new \in AppFrames /\ new.state = Publication.state + 1 /\ new.value = f.value
    <3>1. Publication.state + 1 \in Nat /\ f.value \in States
      BY <1>1, <1>2, SharedFields, PublicationFields
    <3> QED BY <3>1, FramesOfTheRoom DEF SharedFrame
  <2>5. Fits(Publication', accepted', new.state, new.value)
    BY <1>1, <2>2, <2>4, PublicationFields DEF Fits, Publication
  <2>6. ToAll(new) /\ page' = page /\ up' = [up EXCEPT ![h] = Tail(@)]
    BY <1>3 DEF Update, f
  <2> HIDE DEF new
  <2>7. ASSUME NEW g \in Humans
        PROVE  /\ PageFits(Publication', accepted', page'[g])
               /\ UpdatesFit(Publication', accepted', up'[g])
               /\ FramesFit(Publication', accepted', down'[g])
    <3> DEFINE p == Publication'
               acc == accepted'
    <3>1. /\ page[g] \in Pages /\ up[g] \in Seq(Shared) /\ down[g] \in Seq(AppFrames)
          /\ PageFits(Publication, accepted, page[g]) /\ UpdatesFit(Publication, accepted, up[g])
          /\ FramesFit(Publication, accepted, down[g])
      BY DEF AppTypes, AppTypeOK, Intact, ViewsFit
    <3>2. up'[g] = up[g] \/ up'[g] = Tail(up[h])
      BY <2>6 DEF AppTypes, AppTypeOK
    <3>3. down'[g] = down[g] \/ down'[g] = Append(down[g], new)
      BY <2>6 DEF ToAll
    <3>4. Keeps(Publication, accepted, p, acc) /\ Fits(p, acc, new.state, new.value)
      BY <2>3, <2>5
    <3>5. page'[g] = page[g]
      BY <2>6
    <3> HIDE DEF p, acc
    <3>6. PageFits(p, acc, page[g]) /\ UpdatesFit(p, acc, up[g]) /\ FramesFit(p, acc, down[g])
          /\ UpdatesFit(p, acc, Tail(up[h]))
      BY <1>2, <3>1, <3>4, KeptPage, KeptFrames
    <3>7. FramesFit(p, acc, Append(down[g], new))
      BY <2>4, <3>1, <3>4, <3>6, AppendFits
    <3> QED BY <3>2, <3>3, <3>5, <3>6, <3>7 DEF p, acc
  <2>8. ViewsFit'
    BY <2>7 DEF ViewsFit
  <2> QED BY <2>2, <2>8 DEF Intact
<1>4. CASE Conflict(h)
  <2> DEFINE now == IF store[State] = Nothing THEN {} ELSE store[State]
             new == SharedFrame(Publication.state, now)
  <2>1. store[State] # Nothing /\ accepted \subseteq now
    BY <1>1 DEF StoreIntact
  <2>2. now \in States
    BY <1>1, <2>1 DEF StoreOK
  <2>3. new \in AppFrames /\ new.state = Publication.state /\ new.value = now
    BY <1>1, <2>2, PublicationFields, FramesOfTheRoom DEF SharedFrame
  <2>4. /\ down' = [down EXCEPT ![h] = Append(@, new)] /\ up' = [up EXCEPT ![h] = Tail(@)]
        /\ UNCHANGED <<store, page, accepted>>
    BY <1>4 DEF Conflict
  <2> HIDE DEF now, new
  <2>5. Fits(Publication, accepted, new.state, new.value)
    BY <1>1, <2>1, <2>3, PublicationFields DEF Fits
  <2>6. FramesFit(Publication, accepted, Append(down[h], new))
    BY <2>3, <2>5, AppendFits DEF AppTypes, AppTypeOK, Intact, ViewsFit
  <2>7. ViewsFit'
    BY <1>2, <2>4, <2>6 DEF ViewsFit, Publication, Intact, AppTypes, AppTypeOK
  <2> QED BY <2>4, <2>7 DEF Intact
<1>5. CASE UpdateRefused(h)
  <2>1. up' = [up EXCEPT ![h] = Tail(@)] /\ UNCHANGED <<store, page, down, accepted>>
    BY <1>5 DEF UpdateRefused
  <2>2. ViewsFit'
    BY <1>2, <2>1 DEF ViewsFit, Publication, Intact, AppTypes, AppTypeOK
  <2> QED BY <2>1, <2>2 DEF Intact
<1>6. CASE UpdateDies(h)
  <2>1. PICK n \in 1..2 :
          /\ store' = Written(UpdateWrites(h), n)
          /\ accepted' = IF n = 2 THEN accepted \cup f.value ELSE accepted
    BY <1>6 DEF UpdateDies
  <2>2. Current(h) /\ InstanceEnds
    BY <1>6 DEF UpdateDies
  <2> HIDE DEF f
  <2>3. /\ StoreIntact(store', accepted') /\ store'[Room] # Nothing
        /\ \/ store'[Room].state = Publication.state + 1
           \/ store'[Room] = store[Room] /\ accepted' = accepted
    BY <1>1, <1>2, <2>1, <2>2, UpdateIntact DEF f
  <2>4. Keeps(Publication, accepted, Publication', accepted')
    BY <1>1, <2>3, KeptStates DEF Publication
  <2> QED BY <2>2, <2>3, <2>4, ClosedKeeps DEF Intact
<1> QED BY <1>3, <1>4, <1>5, <1>6

\* A step of the page of h alone.
LEMMA PageKeeps ==
    ASSUME AppTypes, Intact, NEW h \in Humans, NEW q, PageFits(Publication, accepted, q),
           page' = [page EXCEPT ![h] = q], UNCHANGED <<store, accepted>>,
           \A g \in Humans : UpdatesFit(Publication, accepted, up'[g]),
           \A g \in Humans : FramesFit(Publication, accepted, down'[g])
    PROVE  Intact'
<1>1. \A g \in Humans : PageFits(Publication, accepted, page'[g])
  BY DEF AppTypes, AppTypeOK, Intact, ViewsFit
<1>2. Publication' = Publication
  BY DEF Publication
<1> QED BY <1>1, <1>2 DEF Intact, ViewsFit

LEMMA StepsOfPagesKeep ==
    ASSUME AppTypes, Intact, NEW h \in Humans,
           \/ Serve(h) \/ LoseSocket(h) \/ Reconnect(h) \/ TakeFrame(h) \/ Load(h) \/ Loaded(h)
           \/ LoadFails(h) \/ Bootstrap(h) \/ Ready(h) \/ Render(h) \/ Set(h)
    PROVE  Intact'
<1> DEFINE p == page[h]
           Fit(q) == PageFits(Publication, accepted, q)
<1>1. /\ p \in Pages /\ HasDocument(p) /\ page \in [Humans -> Pages]
      /\ up \in [Humans -> Seq(Shared)] /\ down \in [Humans -> Seq(AppFrames)]
      /\ Fit(p) /\ \A g \in Humans : UpdatesFit(Publication, accepted, up[g])
      /\ \A g \in Humans : FramesFit(Publication, accepted, down[g])
  BY DEF AppTypes, AppTypeOK, Intact, ViewsFit
<1>2. \A l : l.at # "here" \/ Fits(Publication, accepted, l.state, l.value) => Fit([p EXCEPT !.load = l])
  BY <1>1 DEF PageFits, Pages
<1>3. \A o : Fit([p EXCEPT !.open = o])
  BY <1>1 DEF PageFits, Pages
<1>4. \A mount : HostFits(Publication, accepted, mount) => Fit([p EXCEPT !.host = mount])
  BY <1>1 DEF PageFits, Pages
<1>5. NoLoad.at # "here" /\ [at |-> "asked"].at # "here"
  BY DEF NoLoad
<1>6. CASE Serve(h)
  <2> DEFINE l == IF Publication = Nothing \/ BundleOf(Publication) = Nothing \/ store[State] = Nothing THEN NoLoad
                  ELSE [at |-> "here", revision |-> Publication.revision, state |-> Publication.state, value |-> store[State]]
  <2>1. l.at # "here" \/ Fits(Publication, accepted, l.state, l.value)
    <3>1. CASE l = NoLoad
      BY <1>5, <3>1
    <3>2. CASE l # NoLoad
      <4>1. Publication # Nothing /\ l.state = Publication.state /\ l.value = store[State]
        BY <3>2
      <4>2. Publication \in AppPublications /\ accepted \subseteq store[State]
        BY <4>1, PublicationOfTheRoom DEF Intact, StoreIntact, Publication
      <4> HIDE DEF l
      <4> QED BY <4>1, <4>2, PublicationFields DEF Fits
    <3> QED BY <3>1, <3>2
  <2> DEFINE q == [p EXCEPT !.load = l]
  <2>2. page' = [page EXCEPT ![h] = q] /\ UNCHANGED <<store, up, down, accepted>>
    BY <1>1, <1>6 DEF Serve
  <2> HIDE DEF l, p
  <2>3. Fit(q)
    BY <1>2, <2>1
  <2> HIDE DEF q
  <2> QED BY <1>1, <2>2, <2>3, PageKeeps
<1>7. CASE LoseSocket(h)
  <2> DEFINE q == [p EXCEPT !.open = FALSE]
  <2>1. page' = [page EXCEPT ![h] = q] /\ UNCHANGED <<store, accepted>>
    BY <1>1, <1>7 DEF LoseSocket
  <2>2. Fit(q)
    BY <1>3
  <2>3. \A g \in Humans : up'[g] \in {up[g], <<>>} /\ down'[g] \in {down[g], <<>>}
    BY <1>1, <1>7 DEF LoseSocket
  <2> HIDE DEF q
  <2> QED BY <1>1, <2>1, <2>2, <2>3, EmptyFits, PageKeeps
<1>8. CASE Reconnect(h)
  <2> DEFINE q == [p EXCEPT !.open = TRUE]
  <2>1. page' = [page EXCEPT ![h] = q] /\ UNCHANGED <<store, up, accepted>>
    BY <1>1, <1>8 DEF Reconnect
  <2>2. Fit(q)
    BY <1>3
  <2>3. \A g \in Humans : down'[g] = down[g] \/ down'[g] = <<RoomFrame(store)>>
    BY <1>1, <1>8 DEF Reconnect
  <2>4. FramesFit(Publication, accepted, <<RoomFrame(store)>>)
    BY DEF FramesFit, RoomFrame
  <2> HIDE DEF q
  <2> QED BY <1>1, <2>1, <2>2, <2>3, <2>4, PageKeeps
<1>9. CASE TakeFrame(h)
  <2> DEFINE f == Head(down[h])
             q == IF f.kind = "room" THEN [p EXCEPT !.apps = f.apps] ELSE TakeShared(p, f)
  <2>1. /\ f \in AppFrames /\ FramesFit(Publication, accepted, Tail(down[h]))
        /\ f.kind = "shared" => Fits(Publication, accepted, f.state, f.value)
    BY <1>1, <1>9, HeadTailProperties, TailFits DEF TakeFrame
  <2>2. Fit(q)
    <3>1. CASE f.kind = "room"
      <4> HIDE DEF f
      <4>1. Fit([p EXCEPT !.apps = f.apps])
        BY <1>1 DEF PageFits, Pages
      <4> QED BY <3>1, <4>1
    <3>2. CASE f.kind # "room"
      <4>1. f.state \in Nat /\ f.value \in States /\ f.kind = "shared"
        BY <2>1, <3>2 DEF AppFrames
      <4> HIDE DEF f, p
      <4> QED BY <1>1, <2>1, <3>2, <4>1, TakenFits
    <3> QED BY <3>1, <3>2
  <2>3. page' = [page EXCEPT ![h] = q] /\ UNCHANGED <<store, up, accepted>>
    BY <1>1, <1>9 DEF TakeFrame
  <2>4. \A g \in Humans : down'[g] = down[g] \/ down'[g] = Tail(down[h])
    BY <1>1, <1>9 DEF TakeFrame
  <2> HIDE DEF q
  <2> QED BY <1>1, <2>1, <2>2, <2>3, <2>4, PageKeeps
<1>10. CASE Load(h)
  <2> DEFINE q == [p EXCEPT !.load = [at |-> "asked"]]
  <2>1. p.load = NoLoad
    BY <1>10 DEF Load
  <2>2. [p EXCEPT !.load.at = "asked"] = q
    BY <2>1 DEF NoLoad
  <2>3. page' = [page EXCEPT ![h] = q] /\ UNCHANGED <<store, up, down, accepted>>
    BY <1>1, <1>10, <2>2 DEF Load
  <2>4. Fit(q)
    BY <1>2, <1>5
  <2> HIDE DEF q
  <2> QED BY <1>1, <2>3, <2>4, PageKeeps
<1>11. CASE Loaded(h)
  <2> DEFINE q == IF Outdated(p) THEN [p EXCEPT !.load = NoLoad]
                  ELSE [With(p, Reconciled(p)) EXCEPT !.load = NoLoad, !.pending = Nothing]
  <2>1. Fit(q)
    <3>1. p.load.at = "here"
      BY <1>11 DEF Loaded
    <3> HIDE DEF p
    <3> QED BY <1>1, <3>1, LoadedFits
  <2>2. page' = [page EXCEPT ![h] = q] /\ UNCHANGED <<store, up, down, accepted>>
    BY <1>1, <1>11 DEF Loaded
  <2> HIDE DEF q
  <2> QED BY <1>1, <2>1, <2>2, PageKeeps
<1>12. CASE LoadFails(h)
  <2> DEFINE q == [p EXCEPT !.load = NoLoad]
  <2>1. page' = [page EXCEPT ![h] = q] /\ UNCHANGED <<store, up, down, accepted>>
    BY <1>1, <1>12 DEF LoadFails
  <2>2. Fit(q)
    BY <1>2, <1>5
  <2> HIDE DEF q
  <2> QED BY <1>1, <2>1, <2>2, PageKeeps
<1>13. CASE Bootstrap(h)
  <2> DEFINE mount == [at |-> "boot", state |-> p.doc.state, value |-> p.doc.value]
             q == [p EXCEPT !.host = mount]
  <2>1. p.doc # Nothing
    BY <1>1, <1>13 DEF Bootstrap, HasDocument
  <2>2. HostFits(Publication, accepted, mount)
    BY <1>1, <2>1 DEF HostFits, PageFits
  <2>3. page' = [page EXCEPT ![h] = q] /\ UNCHANGED <<store, up, down, accepted>>
    BY <1>1, <1>13 DEF Bootstrap
  <2> HIDE DEF mount
  <2>4. Fit(q)
    BY <1>4, <2>2
  <2> HIDE DEF q
  <2> QED BY <1>1, <2>3, <2>4, PageKeeps
<1>14. CASE Ready(h)
  <2> DEFINE mount == [p.host EXCEPT !.at = "ready"]
             q == [p EXCEPT !.host = mount]
  <2>1. p.host \in Hosts /\ p.host.at = "boot" /\ HostFits(Publication, accepted, p.host)
    BY <1>1, <1>14, PageFields DEF Ready, PageFits
  <2>2. mount.state = p.host.state /\ mount.value = p.host.value
    BY <2>1 DEF Hosts
  <2>3. HostFits(Publication, accepted, mount)
    BY <2>1, <2>2 DEF HostFits
  <2>4. page' = [page EXCEPT ![h] = q] /\ UNCHANGED <<store, up, down, accepted>>
    BY <1>1, <1>14 DEF Ready
  <2> HIDE DEF mount
  <2>5. Fit(q)
    BY <1>4, <2>3
  <2> HIDE DEF q
  <2> QED BY <1>1, <2>4, <2>5, PageKeeps
<1>15. CASE Render(h)
  <2> DEFINE mount == ShowsState(p.host, p.doc.state, p.doc.value)
             q == [p EXCEPT !.host = mount]
  <2>1. p.host \in Hosts /\ p.host.at = "ready" /\ HostFits(Publication, accepted, p.host)
    BY <1>1, <1>15, PageFields DEF Render, Missed, PageFits
  <2>2. p.doc \in Documents /\ Fits(Publication, accepted, p.doc.state, p.doc.value)
    BY <1>1, <2>1, PageFields DEF HasDocument, PageFits
  <2>3. HostFits(Publication, accepted, mount)
    BY <2>1, <2>2, DocumentFields, ShownFits
  <2>4. page' = [page EXCEPT ![h] = q] /\ UNCHANGED <<store, up, down, accepted>>
    BY <1>1, <1>15 DEF Render
  <2> HIDE DEF mount
  <2>5. Fit(q)
    BY <1>4, <2>3
  <2> HIDE DEF q
  <2> QED BY <1>1, <2>4, <2>5, PageKeeps
<1>16. CASE Set(h)
  <2> DEFINE new == [state |-> p.host.state, value |-> p.host.value \cup {updates'}]
  <2>1. Fits(Publication, accepted, p.host.state, p.host.value) /\ p.host.state \in Nat /\ p.host.value \in States
    BY <1>1, <1>16, PageFields, HostFields DEF Set, PageFits, HostFits
  <2>2. updates' \in 1..MaxUpdates
    BY <1>16, AppConstantsFit DEF Set, AppTypes, AppTypeOK
  <2>3. new \in Shared /\ Fits(Publication, accepted, new.state, new.value)
    BY <2>1, <2>2 DEF Shared, States, Fits
  <2>4. up' = [up EXCEPT ![h] = Append(@, new)] /\ UNCHANGED <<store, page, down, accepted>>
    BY <1>16 DEF Set
  <2> HIDE DEF new
  <2>5. UpdatesFit(Publication, accepted, Append(up[h], new))
    BY <1>1, <2>3, AppendFits
  <2>6. \A g \in Humans : UpdatesFit(Publication, accepted, up'[g])
    BY <1>1, <2>4, <2>5
  <2> QED BY <2>4, <2>6 DEF Intact, ViewsFit, Publication
<1> QED BY <1>6, <1>7, <1>8, <1>9, <1>10, <1>11, <1>12, <1>13, <1>14, <1>15, <1>16

LEMMA UploadKeeps ==
    ASSUME AppTypes, Intact, UploadBegins \/ UploadSaves
    PROVE  putBack' \/ Intact'
<1>1. CASE UploadBegins
  BY <1>1 DEF UploadBegins, Intact, ViewsFit, StoreIntact, Publication, Whole
<1>2. CASE UploadSaves /\ upload = Publication
  <2>1. StoreOK(store) /\ Publication = store[Room] /\ Publication \in AppPublications \cup {Nothing}
    BY SameStore, PublicationOfTheRoom DEF Publication
  <2>2. /\ store'[Room] = store[Room] /\ store'[State] = store[State]
        /\ \A r \in Revisions, i \in Chunks : store'[Chunk(r, i)] = store[Chunk(r, i)]
    BY <1>2, <2>1, UploadWritten DEF UploadSaves
  <2>3. UNCHANGED <<page, up, accepted>>
    BY <1>2 DEF UploadSaves
  <2>4. StoreIntact(store', accepted')
    <3>1. CASE store[Room] # Nothing
      <4>1. store[Room].revision \in Revisions /\ \A i \in 1..store[Room].size : i \in Chunks
        BY <3>1, <2>1, PublicationFields
      <4>2. Whole(store', store[Room])
        BY <2>2, <3>1, <4>1 DEF Whole, Intact, StoreIntact
      <4> QED BY <2>2, <2>3, <3>1, <4>2 DEF Intact, StoreIntact
    <3>2. CASE store[Room] = Nothing
      BY <2>2, <2>3, <3>2 DEF Intact, StoreIntact
    <3> QED BY <3>1, <3>2
  <2>5. Keeps(Publication, accepted, Publication', accepted')
    BY <2>2, <2>3 DEF Publication, Keeps
  <2>6. RoomFrame(store') \in AppFrames /\ RoomFrame(store').kind = "room"
    BY <2>1, <2>2, FramesOfTheRoom DEF RoomFrame
  <2>7. ToAll(RoomFrame(store')) \/ UNCHANGED down
    BY <1>2 DEF UploadSaves
  <2>8. \/ UNCHANGED down
        \/ \E f \in AppFrames : /\ ToAll(f)
                                /\ f.kind = "shared" => Fits(Publication', accepted', f.state, f.value)
    BY <2>6, <2>7
  <2>9. ViewsFit'
    BY <2>3, <2>5, <2>8, RoomKeeps DEF Intact
  <2> QED BY <2>4, <2>9 DEF Intact
<1>3. CASE UploadSaves /\ upload # Publication
  BY <1>3 DEF UploadSaves
<1> QED BY <1>1, <1>2, <1>3

LEMMA AppStep == AppInv /\ [AppNext]_appvars => AppInv'
<1> SUFFICES ASSUME AppInv, [AppNext]_appvars PROVE AppInv'
  OBVIOUS
<1>1. AppTypes /\ AppTypes'
  BY TypesStep DEF AppInv
<1>2. CASE putBack
  <2>1. putBack'
    BY <1>2 DEF AppNext, AppSteps, AppFaults, Publish, PublishRefused, PublishDies, Update, Conflict,
       UpdateRefused, UpdateDies, UploadBegins, UploadSaves, Serve, LoseSocket, Reconnect, TakeFrame,
       Load, Loaded, LoadFails, Bootstrap, Ready, Render, Set, appvars
  <2> QED BY <1>1, <2>1 DEF AppInv
<1>3. CASE Intact
  <2>1. CASE AppNext
    <3>1. putBack' \/ Intact'
      BY <1>1, <1>3, <2>1, PublishKeeps, UpdateKeeps, StepsOfPagesKeep, UploadKeeps
      DEF AppNext, AppSteps, AppFaults
    <3> QED BY <1>1, <3>1 DEF AppInv
  <2>2. CASE UNCHANGED appvars
    BY <1>1, <1>3, <2>2 DEF appvars, AppInv, Intact, ViewsFit, StoreIntact, Publication
  <2> QED BY <2>1, <2>2
<1> QED BY <1>2, <1>3 DEF AppInv

LEMMA AppStart == AppInit => AppInv
<1> SUFFICES ASSUME AppInit PROVE AppInv
  OBVIOUS
<1>1. AppTypes
  BY TypesInit
<1>2. store[Room] = Nothing /\ accepted = {}
  BY AreKeys DEF AppInit
<1>3. ViewsFit
  <2>1. PageFits(Publication, accepted, NewPage)
    BY DEF PageFits, HostFits, NewPage, NoLoad
  <2> QED BY <2>1, EmptyFits DEF ViewsFit, AppInit
<1> QED BY <1>1, <1>2, <1>3 DEF AppInv, Intact, StoreIntact

\* The publication in the record has all the chunks of one bundle and a state, for any
\* number of Humans, bundles, chunks, revisions and updates, wherever the instance ended
\* and whichever save was refused, unless an upload has put an older publication back.
THEOREM PublicationIsReadable == AppSpec => []BundleReadable
<1>1. AppInv => BundleReadable
  <2> SUFFICES ASSUME AppInv, Publication # Nothing, ~putBack
               PROVE  BundleOf(Publication) # Nothing /\ store[State] # Nothing
    BY DEF BundleReadable
  <2>1. Publication \in AppPublications
    BY PublicationOfTheRoom DEF AppInv
  <2>2. Whole(store, Publication) /\ store[State] # Nothing
    BY DEF AppInv, Intact, StoreIntact, Publication
  <2>3. 1 \in 1..Publication.size
    BY <2>1, PublicationFields, SizesFit
  <2>4. PICK b \in Bundles : /\ b.size = Publication.size
                             /\ \A i \in 1..Publication.size : store[Chunk(Publication.revision, i)] = Piece(b, i)
    BY <2>2 DEF Whole
  <2>5. store[Chunk(Publication.revision, 1)][1] = b
    BY <2>3, <2>4 DEF Piece
  <2>6. BundleOf(Publication) = b
    BY <2>4, <2>5 DEF BundleOf
  <2> QED BY <2>2, <2>6, NothingIsNone
<1> QED BY <1>1, AppStart, AppStep, PTL DEF AppSpec

\* No page, however late, reloaded or reconciled, overwrites an update that the room
\* accepted, for any number of Humans, revisions and updates under way.
THEOREM UpdatesStay == AppSpec => []AcceptedStays
<1>1. AppInv => AcceptedStays
  BY DEF AppInv, Intact, StoreIntact, AcceptedStays, Publication
<1> QED BY <1>1, AppStart, AppStep, PTL DEF AppSpec
-----------------------------------------------------------------------------
(* Part 4.  The curated Apps.                                               *)

\* A page whose connection is closed has no frames on their way.
FramesAreOfOpen == \A h \in People : frames[h] # <<>> => sockets[h].open

\* Announcements and requests are of a connection that there is or was.
WaitsPassed == \A i \in 1..Len(barrier) : barrier[i].nonce <= sockets[barrier[i].human].nonce
CallsPassed == \A r \in InFlight : call[r].nonce <= sockets[call[r].human].nonce

\* Nothing becomes callable on a connection while one of its announcements waits.
SeenIsAll ==
    \A i \in 1..Len(barrier) : Stands(barrier[i]) => sockets[barrier[i].human].active \subseteq barrier[i].seen

LastOf(S, i) == i \in S /\ \A j \in S : j <= i

\* The App that a page announced last is callable, or will be when the last of its
\* announcements that wait has written its attachment.
LatestIsKept ==
    \A h \in People : latest[h] # NoApp =>
        /\ sockets[h].open
        /\ Standing(h) = {} => latest[h] \in sockets[h].active
        /\ \A i \in Standing(h) : LastOf(Standing(h), i) => barrier[i].app = latest[h]

OwedIsLatest == \A x \in owed : latest[x[1]] = x[2]

\* A chat that has passed the barrier and the catalog tells what it owes.
ResumedTells == chat = "resumed" => owed \subseteq Callable

Announced ==
    /\ WaitsPassed /\ SeenIsAll /\ LatestIsKept
    /\ OwedIsLatest /\ ResumedTells /\ ChatSeesItsApp

Requested == CallsPassed /\ InFlightBounded /\ AskedPageHosts

HostInv == HostsTypeOK /\ FramesAreOfOpen /\ Announced /\ Requested

\* The first frame of h
LEMMA HeadOfFrames ==
    ASSUME HostsTypeOK, NEW h \in People, frames[h] # <<>>
    PROVE  /\ Head(frames[h]) \in HostFrames
           /\ Tail(frames[h]) \in Seq(HostFrames)
           /\ Head(frames[h]).kind \in {"ready", "unready"} => Head(frames[h]).app \in Apps
           /\ Head(frames[h]).kind = "answer" => Head(frames[h]).request \in Requests
<1>1. frames[h] \in Seq(HostFrames)
  BY DEF HostsTypeOK
<1>2. Head(frames[h]) \in HostFrames /\ Tail(frames[h]) \in Seq(HostFrames)
  BY <1>1, HeadTailProperties
<1>3. QED BY <1>2 DEF HostFrames

\* A frame that is taken, and one that is sent
LEMMA TakenFrame ==
    ASSUME HostsTypeOK, NEW h \in People, NEW kind, HasFrame(h, kind), TakeOff(h)
    PROVE  /\ frames' \in [People -> Seq(HostFrames)]
           /\ frames[h] # <<>> /\ Head(frames[h]).kind = kind
<1>1. frames[h] # <<>> /\ Head(frames[h]).kind = kind
  BY DEF HasFrame
<1>2. Tail(frames[h]) \in Seq(HostFrames)
  BY <1>1, HeadOfFrames
<1>3. frames' \in [People -> Seq(HostFrames)]
  BY <1>2 DEF HostsTypeOK, TakeOff
<1>4. QED BY <1>1, <1>3

LEMMA SentFrame ==
    ASSUME HostsTypeOK, NEW h \in People, NEW f \in HostFrames, Sends(h, f)
    PROVE  frames' \in [People -> Seq(HostFrames)]
<1>1. frames[h] \in Seq(HostFrames)
  BY DEF HostsTypeOK
<1>2. Append(frames[h], f) \in Seq(HostFrames)
  BY <1>1, AppendProperties
<1>3. QED BY <1>2 DEF HostsTypeOK, Sends

\* Requests that fail are calls.
LEMMA FailedCalls ==
    ASSUME HostsTypeOK, NEW R, FailAll(R)
    PROVE  /\ call' \in [Requests -> Calls]
           /\ \A r \in Requests : call'[r].app = call[r].app
           /\ \A r \in Requests : call'[r].at = "sent" => call'[r] = call[r] /\ r \notin R
<1>1. \A r \in Requests : call[r] \in Calls
  BY DEF HostsTypeOK
<1>2. \A r \in Requests : call[r].app \in Apps
  BY <1>1 DEF Calls
<1>3. \A r \in Requests : [at |-> "failed", app |-> call[r].app] \in Calls
  BY <1>2 DEF Calls
<1>4. call' \in [Requests -> Calls]
  BY <1>1, <1>3 DEF FailAll
<1>5. \A r \in Requests : r \in R => call'[r].app = call[r].app /\ call'[r].at = "failed"
  BY DEF FailAll
<1>6. \A r \in Requests : r \notin R => call'[r] = call[r]
  BY DEF FailAll
<1>7. QED BY <1>4, <1>5, <1>6

\* The host the room chooses for a request
LEMMA TargetIsHost ==
    ASSUME HostsTypeOK, NEW a \in Apps, HostsOf(a) # {}
    PROVE  /\ Target(a) \in People
           /\ sockets[Target(a)].open /\ a \in sockets[Target(a)].active
<1> DEFINE ids == {IdOrder[h] : h \in HostsOf(a)}
<1>1. HostsOf(a) \subseteq People
  BY DEF HostsOf
<1>2. ids \in SUBSET Nat /\ ids # {}
  BY <1>1, HostConstantsFit
<1>3. PICK n \in ids : \A k \in ids : n <= k
  BY <1>2, Smallest
<1>4. PICK h \in HostsOf(a) : n = IdOrder[h]
  BY <1>3
<1>5. \A g \in HostsOf(a) : IdOrder[h] <= IdOrder[g]
  BY <1>3, <1>4
<1>6. Target(a) \in HostsOf(a)
  BY <1>4, <1>5 DEF Target
<1>7. QED BY <1>1, <1>6 DEF HostsOf, Callable, Hosting

\* The announcement that comes last
LEMMA LatestStands ==
    ASSUME HostsTypeOK, NEW h \in People, Standing(h) # {}
    PROVE  /\ LastOf(Standing(h), Latest(h))
           /\ barrier[Latest(h)] \in Waits /\ barrier[Latest(h)].human = h
           /\ Stands(barrier[Latest(h)])
<1>1. barrier \in Seq(Waits)
  BY DEF HostsTypeOK
<1>2. Len(barrier) \in Nat /\ \A i \in 1..Len(barrier) : barrier[i] \in Waits
  BY <1>1
<1>3. Standing(h) \in SUBSET (1..Len(barrier))
  BY DEF Standing
<1>4. PICK i \in Standing(h) : \A j \in Standing(h) : j <= i
  BY <1>2, <1>3, Greatest
<1>5. Latest(h) \in Standing(h) /\ \A j \in Standing(h) : j <= Latest(h)
  BY <1>4 DEF Latest
<1>6. QED BY <1>2, <1>3, <1>5 DEF LastOf, Standing

LEMMA JoinedApps ==
    ASSUME NEW S \in SUBSET Apps, NEW a \in Apps
    PROVE  Joined(S, a) \in SUBSET Apps /\ S \subseteq Joined(S, a) /\ (HasPlace(S, a) => a \in Joined(S, a))
  BY DEF Joined

LEMMA AttachedSockets ==
    ASSUME HostsTypeOK
    PROVE  /\ Attached \in [People -> [open : BOOLEAN, nonce : 1..MaxNonce, active : SUBSET Apps]]
           /\ \A h \in People :
                /\ Attached[h].open = sockets[h].open /\ Attached[h].nonce = sockets[h].nonce
                /\ Standing(h) = {} => Attached[h].active = sockets[h].active
                /\ Standing(h) # {} =>
                     Attached[h].active = Joined(barrier[Latest(h)].seen, barrier[Latest(h)].app)
<1> DEFINE S == [open : BOOLEAN, nonce : 1..MaxNonce, active : SUBSET Apps]
           seen(h) == Joined(barrier[Latest(h)].seen, barrier[Latest(h)].app)
           with(h) == [sockets[h] EXCEPT !.active = seen(h)]
<1>1. \A h \in People : sockets[h] \in S
  BY DEF HostsTypeOK
<1>2. \A h \in People : Standing(h) # {} => seen(h) \in SUBSET Apps
  BY LatestStands, JoinedApps DEF Waits
<1>3. \A h \in People : Standing(h) # {} =>
         /\ with(h) \in S /\ with(h).open = sockets[h].open /\ with(h).nonce = sockets[h].nonce
         /\ with(h).active = seen(h)
  BY <1>1, <1>2
<1>4. \A h \in People : Attached[h] = IF Standing(h) = {} THEN sockets[h] ELSE with(h)
  BY DEF Attached
<1>5. Attached \in [People -> S]
  <2>1. \A h \in People : Attached[h] \in S
    BY <1>1, <1>3, <1>4
  <2>2. QED BY <2>1 DEF Attached
<1>6. QED BY <1>3, <1>4, <1>5

\* The Apps that are ready, in any order, are frames.
LEMMA OrdersAreFrames ==
    ASSUME NEW S \in SUBSET Apps, NEW order \in Orders(S)
    PROVE  [i \in DOMAIN order |-> [kind |-> "ready", app |-> order[i]]] \in Seq(HostFrames)
<1>1. IsFiniteSet(S)
  BY HostConstantsFit, FS_Subset
<1>2. Cardinality(S) \in Nat
  BY <1>1, FS_CardinalityType
<1>3. order \in [1..Cardinality(S) -> S]
  BY DEF Orders
<1>4. \A i \in 1..Cardinality(S) : [kind |-> "ready", app |-> order[i]] \in HostFrames
  BY <1>3 DEF HostFrames
<1>5. [i \in 1..Cardinality(S) |-> [kind |-> "ready", app |-> order[i]]] \in [1..Cardinality(S) -> HostFrames]
  BY <1>4
<1>6. QED BY <1>2, <1>3, <1>5, SeqDef

\* What a request is
LEMMA CallFields ==
    ASSUME HostsTypeOK, NEW r \in Requests
    PROVE  /\ call[r] \in Calls /\ call[r].app \in Apps
           /\ call[r].at \in {"idle", "catalog", "resumed", "answered", "failed", "sent"}
           /\ call[r].at = "sent" => call[r].human \in People /\ call[r].nonce \in 1..MaxNonce
<1>1. call[r] \in Calls
  BY DEF HostsTypeOK
<1>2. QED BY <1>1 DEF Calls

LEMMA MovedCall ==
    ASSUME HostsTypeOK, NEW r \in Requests, call[r].at # "sent",
           NEW at \in {"idle", "catalog", "resumed", "answered", "failed"}
    PROVE  [call[r] EXCEPT !.at = at] \in Calls
<1>1. call[r] \in [at : {"idle", "catalog", "resumed", "answered", "failed"}, app : Apps]
  BY CallFields DEF Calls
<1>2. [call[r] EXCEPT !.at = at] \in [at : {"idle", "catalog", "resumed", "answered", "failed"}, app : Apps]
  BY <1>1
<1>3. QED BY <1>2 DEF Calls

SocketRecords == [open : BOOLEAN, nonce : 1..MaxNonce, active : SUBSET Apps]

\* The attachment of one page is written.
LEMMA WrittenSocket ==
    ASSUME HostsTypeOK, NEW h \in People, NEW S \in SUBSET Apps,
           sockets' = [sockets EXCEPT ![h].active = S]
    PROVE  /\ sockets' \in [People -> SocketRecords]
           /\ \A g \in People : sockets'[g].open = sockets[g].open /\ sockets'[g].nonce = sockets[g].nonce
           /\ sockets'[h].active = S
           /\ \A g \in People : g # h => sockets'[g] = sockets[g]
<1>1. sockets \in [People -> SocketRecords]
  BY DEF HostsTypeOK, SocketRecords
<1>2. QED BY <1>1 DEF SocketRecords

\* A page keeps its record.
LEMMA PagesOfHosts ==
    ASSUME HostsTypeOK, NEW h \in People
    PROVE  /\ host[h] \in [ready : SUBSET Apps, asked : SUBSET Requests]
           /\ host[h].ready \in SUBSET Apps /\ host[h].asked \in SUBSET Requests
           /\ called[h] \in Seq(Requests)
  BY DEF HostsTypeOK

LEMMA PagesKeepTypes ==
    ASSUME HostsTypeOK, NEW h \in People,
           \/ \E a \in Apps : Handshake(h, a) \/ Withdraw(h, a)
           \/ \E r \in Requests : Answer(h, r)
           \/ Asked(h) \/ Say(h)
    PROVE  HostsTypeOK'
<1> DEFINE Page == [ready : SUBSET Apps, asked : SUBSET Requests]
<1>1. /\ host' \in [People -> Page] /\ frames' \in [People -> Seq(HostFrames)]
      /\ called' \in [People -> Seq(Requests)]
      => HostsTypeOK'
  <2>1. UNCHANGED roomside
    BY DEF Handshake, Withdraw, Answer, Asked, Say
  <2>2. QED BY <2>1 DEF HostsTypeOK, roomside
<1>2. host \in [People -> Page] /\ called \in [People -> Seq(Requests)]
  BY DEF HostsTypeOK
<1>3. ASSUME NEW a \in Apps, Handshake(h, a) PROVE HostsTypeOK'
  <2>1. [kind |-> "ready", app |-> a] \in HostFrames
    BY DEF HostFrames
  <2>2. frames' \in [People -> Seq(HostFrames)]
    BY <1>3, <2>1, SentFrame DEF Handshake
  <2>3. host' \in [People -> Page] /\ called' = called
    BY <1>2, <1>3 DEF Handshake
  <2>4. QED BY <1>1, <1>2, <2>2, <2>3
<1>4. ASSUME NEW a \in Apps, Withdraw(h, a) PROVE HostsTypeOK'
  <2>1. [kind |-> "unready", app |-> a] \in HostFrames
    BY DEF HostFrames
  <2>2. frames' \in [People -> Seq(HostFrames)]
    BY <1>4, <2>1, SentFrame DEF Withdraw
  <2>3. [ready |-> host[h].ready \ {a}, asked |-> {r \in host[h].asked : call[r].app # a}] \in Page
    BY PagesOfHosts
  <2>4. host' \in [People -> Page] /\ called' = called
    BY <1>2, <1>4, <2>3 DEF Withdraw
  <2>5. QED BY <1>1, <1>2, <2>2, <2>4
<1>5. ASSUME NEW r \in Requests, Answer(h, r) PROVE HostsTypeOK'
  <2>1. [kind |-> "answer", request |-> r] \in HostFrames
    BY DEF HostFrames
  <2>2. frames' \in [People -> Seq(HostFrames)]
    BY <1>5, <2>1, SentFrame DEF Answer
  <2>3. host' \in [People -> Page] /\ called' = called
    BY <1>2, <1>5 DEF Answer
  <2>4. QED BY <1>1, <1>2, <2>2, <2>3
<1>6. ASSUME Asked(h) PROVE HostsTypeOK'
  <2>1. Head(called[h]) \in Requests /\ Tail(called[h]) \in Seq(Requests)
    BY <1>6, PagesOfHosts, HeadTailProperties DEF Asked
  <2>2. host' \in [People -> Page]
    BY <1>2, <1>6, <2>1 DEF Asked
  <2>3. called' \in [People -> Seq(Requests)] /\ frames' = frames
    BY <1>2, <1>6, <2>1 DEF Asked
  <2>4. QED BY <1>1, <2>2, <2>3 DEF HostsTypeOK
<1>7. ASSUME Say(h) PROVE HostsTypeOK'
  <2>1. [kind |-> "chat"] \in HostFrames
    BY DEF HostFrames
  <2>2. frames' \in [People -> Seq(HostFrames)]
    BY <1>7, <2>1, SentFrame DEF Say
  <2>3. host' = host /\ called' = called
    BY <1>7 DEF Say
  <2>4. QED BY <1>1, <1>2, <2>2, <2>3
<1>8. QED BY <1>3, <1>4, <1>5, <1>6, <1>7

\* What the room receives from a page
LEMMA ReceiptsKeepTypes ==
    ASSUME HostsTypeOK, NEW h \in People,
           Announce(h) \/ Retire(h) \/ TakeAnswer(h) \/ TakeChat(h)
    PROVE  HostsTypeOK'
<1>1. sockets[h].active \in SUBSET Apps /\ sockets[h].nonce \in 1..MaxNonce
  BY DEF HostsTypeOK
<1>2. ASSUME Announce(h) PROVE HostsTypeOK'
  <2> DEFINE a == Head(frames[h]).app
  <2>1. a \in Apps /\ frames' \in [People -> Seq(HostFrames)]
    BY <1>2, TakenFrame, HeadOfFrames DEF Announce
  <2>2. CASE fresh
    <3>1. sockets' = [sockets EXCEPT ![h].active = Joined(sockets[h].active, a)]
      BY <1>2, <2>2 DEF Announce
    <3>2. Joined(sockets[h].active, a) \in SUBSET Apps
      BY <1>1, <2>1, JoinedApps
    <3>3. sockets' \in [People -> SocketRecords]
      BY <3>1, <3>2, WrittenSocket
    <3>4. QED BY <1>2, <2>1, <2>2, <3>3 DEF HostsTypeOK, Announce, SocketRecords
  <2>3. CASE ~fresh
    <3> DEFINE w == [human |-> h, nonce |-> sockets[h].nonce, seen |-> sockets[h].active, app |-> a]
    <3>1. w \in Waits
      BY <1>1, <2>1 DEF Waits
    <3>2. barrier' = Append(barrier, w)
      BY <1>2, <2>3 DEF Announce
    <3> HIDE DEF w
    <3>3. barrier' \in Seq(Waits)
      BY <3>1, <3>2, AppendProperties DEF HostsTypeOK
    <3>4. QED BY <1>2, <2>1, <2>3, <3>3 DEF HostsTypeOK, Announce
  <2>4. QED BY <2>2, <2>3
<1>3. ASSUME Retire(h) PROVE HostsTypeOK'
  <2>1. frames' \in [People -> Seq(HostFrames)]
    BY <1>3, TakenFrame DEF Retire
  <2>2. call' \in [Requests -> Calls]
    BY <1>3, FailedCalls DEF Retire
  <2>3. sockets' \in [People -> SocketRecords]
    BY <1>1, <1>3, WrittenSocket DEF Retire
  <2>4. QED BY <1>3, <2>1, <2>2, <2>3 DEF HostsTypeOK, Retire, SocketRecords
<1>4. ASSUME TakeAnswer(h) PROVE HostsTypeOK'
  <2> DEFINE r == Head(frames[h]).request
  <2>1. r \in Requests /\ frames' \in [People -> Seq(HostFrames)]
    BY <1>4, TakenFrame, HeadOfFrames DEF TakeAnswer
  <2>2. [at |-> "answered", app |-> call[r].app] \in Calls
    BY <2>1, CallFields DEF Calls
  <2>3. call' \in [Requests -> Calls]
    BY <1>4, <2>1, <2>2 DEF HostsTypeOK, TakeAnswer
  <2>4. QED BY <1>4, <2>1, <2>3 DEF HostsTypeOK, TakeAnswer
<1>5. ASSUME TakeChat(h) PROVE HostsTypeOK'
  <2>1. frames' \in [People -> Seq(HostFrames)]
    BY <1>5, TakenFrame DEF TakeChat
  <2>2. QED BY <1>5, <2>1 DEF HostsTypeOK, TakeChat
<1>6. QED BY <1>2, <1>3, <1>4, <1>5

\* What the room does by itself
LEMMA RequestsKeepTypes ==
    ASSUME HostsTypeOK, NEW r \in Requests, CallApp(r) \/ SendOut(r) \/ Timeout(r)
    PROVE  HostsTypeOK'
<1>1. call[r].app \in Apps
  BY CallFields
<1>2. ASSUME CallApp(r) PROVE HostsTypeOK'
  <2>1. [call[r] EXCEPT !.at = IF fresh THEN "resumed" ELSE "catalog"] \in Calls
    BY <1>2, MovedCall DEF CallApp
  <2>2. call' \in [Requests -> Calls]
    BY <1>2, <2>1 DEF HostsTypeOK, CallApp
  <2>3. QED BY <1>2, <2>2 DEF HostsTypeOK, CallApp
<1>3. ASSUME SendOut(r), MayDispatch(r) PROVE HostsTypeOK'
  <2> DEFINE g == Target(call[r].app)
             sent == [at |-> "sent", app |-> call[r].app, human |-> g, nonce |-> sockets[g].nonce]
  <2>1. g \in People
    BY <1>1, <1>3, TargetIsHost DEF MayDispatch
  <2> HIDE DEF g
  <2>2. sockets[g].nonce \in 1..MaxNonce /\ called[g] \in Seq(Requests)
    BY <2>1 DEF HostsTypeOK
  <2>3. sent \in Calls
    BY <1>1, <2>1, <2>2 DEF Calls
  <2>4. Append(called[g], r) \in Seq(Requests)
    BY <2>2, AppendProperties
  <2>5. call' = [call EXCEPT ![r] = sent] /\ called' = [called EXCEPT ![g] = Append(@, r)]
    BY <1>3 DEF SendOut, g
  <2> HIDE DEF sent
  <2>6. call' \in [Requests -> Calls] /\ called' \in [People -> Seq(Requests)]
    BY <2>1, <2>3, <2>4, <2>5 DEF HostsTypeOK
  <2>7. QED BY <1>3, <2>6 DEF HostsTypeOK, SendOut
<1>4. ASSUME SendOut(r), ~MayDispatch(r) PROVE HostsTypeOK'
  <2>1. [call[r] EXCEPT !.at = "failed"] \in Calls
    BY <1>4, MovedCall DEF SendOut
  <2>2. call' \in [Requests -> Calls]
    BY <1>4, <2>1 DEF HostsTypeOK, SendOut
  <2>3. QED BY <1>4, <2>2 DEF HostsTypeOK, SendOut
<1>5. ASSUME Timeout(r) PROVE HostsTypeOK'
  <2>1. call' \in [Requests -> Calls]
    BY <1>5, FailedCalls DEF Timeout
  <2>2. QED BY <1>5, <2>1 DEF HostsTypeOK, Timeout
<1>6. QED BY <1>2, <1>3, <1>4, <1>5

LEMMA FetchKeepsTypes ==
    ASSUME HostsTypeOK, Fetched
    PROVE  /\ HostsTypeOK'
           /\ \A r \in Requests : /\ call'[r].app = call[r].app
                                  /\ call'[r].at = "sent" => call'[r] = call[r]
<1> DEFINE moved(r) == [call[r] EXCEPT !.at = "resumed"]
<1>1. \A r \in Requests : call[r].at = "catalog" => moved(r) \in Calls
  BY MovedCall
<1>2. \A r \in Requests : call[r] \in Calls /\ moved(r).app = call[r].app /\ moved(r).at = "resumed"
  <2> TAKE r \in Requests
  <2>1. call[r] \in Calls
    BY CallFields
  <2>2. QED BY <2>1 DEF Calls
<1>3. call' = [r \in Requests |-> IF call[r].at = "catalog" THEN moved(r) ELSE call[r]]
  BY DEF Fetched
<1> HIDE DEF moved
<1>4. call' \in [Requests -> Calls]
  BY <1>1, <1>2, <1>3
<1>5. sockets' \in [People -> SocketRecords]
  BY AttachedSockets DEF Fetched, SocketRecords
<1>6. HostsTypeOK'
  BY <1>4, <1>5 DEF HostsTypeOK, Fetched, SocketRecords
<1>7. QED BY <1>2, <1>3, <1>6

LEMMA RoomKeepsTypes ==
    ASSUME HostsTypeOK, PassBarrier \/ AcceptChat \/ Expire \/ AgentLeaves \/ AgentReturns
    PROVE  HostsTypeOK'
<1>1. ASSUME PassBarrier PROVE HostsTypeOK'
  BY <1>1 DEF HostsTypeOK, PassBarrier
<1>2. ASSUME AcceptChat PROVE HostsTypeOK'
  BY <1>2 DEF HostsTypeOK, AcceptChat
<1>3. ASSUME Expire PROVE HostsTypeOK'
  BY <1>3 DEF HostsTypeOK, Expire
<1>4. ASSUME AgentLeaves PROVE HostsTypeOK'
  <2>1. call' \in [Requests -> Calls]
    BY <1>4, FailedCalls DEF AgentLeaves
  <2>2. QED BY <1>4, <2>1 DEF HostsTypeOK, AgentLeaves
<1>5. ASSUME AgentReturns PROVE HostsTypeOK'
  BY <1>5 DEF HostsTypeOK, AgentReturns
<1>6. QED BY <1>1, <1>2, <1>3, <1>4, <1>5

LEMMA ConnectionsKeepTypes ==
    ASSUME HostsTypeOK, NEW h \in People, CloseSocket(h) \/ OpenSocket(h)
    PROVE  HostsTypeOK'
<1>1. sockets \in [People -> SocketRecords] /\ frames \in [People -> Seq(HostFrames)]
  BY DEF HostsTypeOK, SocketRecords
<1>2. Gone(h) => /\ latest' \in [People -> Apps \cup {NoApp}] /\ owed' \subseteq Hosting
                 /\ called' \in [People -> Seq(Requests)]
  BY DEF HostsTypeOK, Gone
<1>3. ASSUME CloseSocket(h) PROVE HostsTypeOK'
  <2>1. call' \in [Requests -> Calls]
    BY <1>3, FailedCalls DEF CloseSocket
  <2>2. sockets' \in [People -> SocketRecords]
    BY <1>1, <1>3 DEF CloseSocket, SocketRecords
  <2>3. frames' \in [People -> Seq(HostFrames)]
    BY <1>1, <1>3 DEF CloseSocket
  <2>4. QED BY <1>2, <1>3, <2>1, <2>2, <2>3 DEF HostsTypeOK, CloseSocket, SocketRecords
<1>4. ASSUME OpenSocket(h) PROVE HostsTypeOK'
  <2>1. sockets[h].nonce + 1 \in 1..MaxNonce
    BY <1>1, <1>4, HostConstantsFit DEF OpenSocket, SocketRecords
  <2>2. [open |-> TRUE, nonce |-> sockets[h].nonce + 1, active |-> {}] \in SocketRecords
    BY <2>1 DEF SocketRecords
  <2>3. sockets' \in [People -> SocketRecords]
    BY <1>1, <1>4, <2>2 DEF OpenSocket
  <2>4. PICK order \in Orders(host[h].ready) :
          frames' = [frames EXCEPT ![h] = [i \in DOMAIN order |-> [kind |-> "ready", app |-> order[i]]]]
    BY <1>4 DEF OpenSocket
  <2>5. [i \in DOMAIN order |-> [kind |-> "ready", app |-> order[i]]] \in Seq(HostFrames)
    BY PagesOfHosts, OrdersAreFrames
  <2>6. frames' \in [People -> Seq(HostFrames)]
    BY <1>1, <2>4, <2>5
  <2>7. QED BY <1>2, <1>4, <2>3, <2>6 DEF HostsTypeOK, OpenSocket, SocketRecords
<1>5. QED BY <1>3, <1>4

LEMMA HostTypesStep == HostsTypeOK /\ [HostsNext]_hostvars => HostsTypeOK'
<1> SUFFICES ASSUME HostsTypeOK, [HostsNext]_hostvars PROVE HostsTypeOK'
  OBVIOUS
<1>1. CASE UNCHANGED hostvars
  BY <1>1 DEF HostsTypeOK, hostvars
<1>2. CASE HostSteps
  BY <1>2, PagesKeepTypes, ReceiptsKeepTypes, RequestsKeepTypes, FetchKeepsTypes, RoomKeepsTypes DEF HostSteps
<1>3. CASE HostEnds
  BY <1>3, PagesKeepTypes, ConnectionsKeepTypes, RequestsKeepTypes, RoomKeepsTypes DEF HostEnds
<1>4. QED BY <1>1, <1>2, <1>3 DEF HostsNext

LEMMA HostTypesInit == HostsInit => HostsTypeOK
<1> SUFFICES ASSUME HostsInit PROVE HostsTypeOK
  OBVIOUS
<1>1. [ready |-> {}, asked |-> {}] \in [ready : SUBSET Apps, asked : SUBSET Requests]
  OBVIOUS
<1>2. [open |-> TRUE, nonce |-> 1, active |-> {}] \in SocketRecords
  BY HostConstantsFit DEF SocketRecords
<1>3. \A S : <<>> \in Seq(S)
  BY EmptySeq
<1>4. [at : {"idle"}, app : Apps] \subseteq Calls
  BY DEF Calls
<1>5. call \in [Requests -> Calls]
  BY <1>4 DEF HostsInit
<1>6. sockets \in [People -> SocketRecords] /\ host \in [People -> [ready : SUBSET Apps, asked : SUBSET Requests]]
  BY <1>1, <1>2 DEF HostsInit
<1>7. QED BY <1>3, <1>5, <1>6 DEF HostsInit, HostsTypeOK, SocketRecords

\* The pages, the attachments, the announcements that wait, the frames and the requests
\* keep their types for any number of Humans, Apps, requests and connections.
THEOREM HostTypesCorrect == HostsSpec => []HostsTypeOK
<1>1. QED BY HostTypesInit, HostTypesStep, PTL DEF HostsSpec

LEMMA Waiting ==
    ASSUME HostsTypeOK
    PROVE  /\ Len(barrier) \in Nat
           /\ \A i \in 1..Len(barrier) :
                /\ barrier[i] \in Waits /\ barrier[i].human \in People /\ barrier[i].nonce \in 1..MaxNonce
                /\ barrier[i].seen \in SUBSET Apps /\ barrier[i].app \in Apps
<1>1. barrier \in Seq(Waits)
  BY DEF HostsTypeOK
<1>2. Len(barrier) \in Nat /\ \A i \in 1..Len(barrier) : barrier[i] \in Waits
  BY <1>1
<1>3. QED BY <1>2 DEF Waits

LEMMA SocketFields ==
    ASSUME HostsTypeOK
    PROVE  \A h \in People : /\ sockets[h].open \in BOOLEAN /\ sockets[h].nonce \in 1..MaxNonce
                             /\ sockets[h].active \in SUBSET Apps
  BY DEF HostsTypeOK

\* When nothing waits, what a chat owes is callable.
LEMMA OwedIsCallable ==
    ASSUME HostsTypeOK, LatestIsKept, OwedIsLatest, barrier = <<>>
    PROVE  owed \subseteq Callable
<1>1. \A h \in People : Standing(h) = {}
  BY DEF Standing
<1>2. ASSUME NEW x \in owed PROVE x \in Callable
  <2>1. x \in Hosting
    BY DEF HostsTypeOK
  <2>2. x[1] \in People /\ x[2] \in Apps
    BY <2>1 DEF Hosting
  <2>3. latest[x[1]] = x[2] /\ x[2] # NoApp
    BY <2>2, HostConstantsFit DEF OwedIsLatest
  <2>4. sockets[x[1]].open /\ x[2] \in sockets[x[1]].active
    BY <1>1, <2>2, <2>3 DEF LatestIsKept
  <2>5. QED BY <2>1, <2>4 DEF Callable
<1>3. QED BY <1>2

\* The announcements of g stay when its connection does.
LEMMA StandingStays ==
    ASSUME HostsTypeOK, NEW g \in People, barrier' = barrier,
           sockets'[g].open = sockets[g].open, sockets'[g].nonce = sockets[g].nonce
    PROVE  Standing(g)' = Standing(g)
  BY Waiting DEF Standing, Stands

LEMMA KeptAnnouncements ==
    ASSUME Announced, UNCHANGED <<sockets, barrier, chat, latest, owed, missed>>
    PROVE  Announced'
<1>1. WaitsPassed' /\ SeenIsAll'
  BY DEF Announced, WaitsPassed, SeenIsAll, Stands
<1>2. LatestIsKept'
  BY DEF Announced, LatestIsKept, Standing, Stands
<1>3. OwedIsLatest' /\ ResumedTells' /\ ChatSeesItsApp'
  BY DEF Announced, OwedIsLatest, ResumedTells, ChatSeesItsApp, Callable
<1>4. QED BY <1>1, <1>2, <1>3 DEF Announced

\* Requests that go on are still out to a page that hosts their App.
LEMMA KeptRequests ==
    ASSUME HostsTypeOK, HostsTypeOK', Requested,
           \A r \in Requests : call'[r].at = "sent" => call'[r] = call[r],
           \A h \in People : sockets[h].nonce <= sockets'[h].nonce,
           \A h \in People : \A r \in OutTo(h) :
              /\ call'[r].at = "sent" /\ sockets'[h].nonce = sockets[h].nonce
              /\ sockets[h].open /\ call[r].app \in sockets[h].active
              => sockets'[h].open /\ call[r].app \in sockets'[h].active
    PROVE  Requested'
<1>1. InFlight' \subseteq InFlight /\ \A r \in InFlight' : call'[r] = call[r]
  BY DEF InFlight
<1>2. \A r \in InFlight : r \in Requests /\ call[r].human \in People /\ call[r].nonce \in Nat /\ call[r].app \in Apps
  BY CallFields DEF InFlight
<1>3. \A h \in People : sockets[h].nonce \in Nat /\ sockets'[h].nonce \in Nat
  BY DEF HostsTypeOK
<1>4. CallsPassed'
  <2>1. ASSUME NEW r \in InFlight' PROVE call'[r].nonce <= sockets'[call'[r].human].nonce
    <3>1. call'[r] = call[r] /\ r \in InFlight
      BY <1>1
    <3>2. call[r].nonce <= sockets[call[r].human].nonce
      BY <3>1 DEF Requested, CallsPassed
    <3>3. QED BY <1>2, <1>3, <3>1, <3>2
  <2>2. QED BY <2>1 DEF CallsPassed
<1>5. InFlightBounded'
  <2>1. IsFiniteSet(InFlight)
    BY HostConstantsFit, FS_Subset DEF InFlight
  <2>2. /\ Cardinality(InFlight') <= Cardinality(InFlight)
        /\ Cardinality(InFlight') \in Nat /\ Cardinality(InFlight) \in Nat
    BY <1>1, <2>1, FS_Subset, FS_CardinalityType
  <2>3. QED BY <2>2, HostConstantsFit DEF InFlightBounded, Requested
<1>6. AskedPageHosts'
  <2>1. ASSUME NEW h \in People, NEW r \in OutTo(h)' PROVE <<h, call'[r].app>> \in Callable'
    <3>1. r \in InFlight' /\ call'[r].human = h /\ call'[r].nonce = sockets'[h].nonce
      BY <2>1 DEF OutTo
    <3>2. call'[r] = call[r] /\ r \in InFlight /\ call'[r].at = "sent"
      BY <1>1, <3>1 DEF InFlight
    <3>3. call[r].nonce <= sockets[h].nonce
      BY <3>1, <3>2 DEF Requested, CallsPassed
    <3>4. sockets'[h].nonce = sockets[h].nonce
      BY <1>2, <1>3, <3>1, <3>2, <3>3
    <3>5. r \in OutTo(h)
      BY <3>1, <3>2, <3>4 DEF OutTo
    <3>6. <<h, call[r].app>> \in Callable
      BY <3>5 DEF Requested, AskedPageHosts
    <3>7. sockets[h].open /\ call[r].app \in sockets[h].active
      BY <3>6 DEF Callable
    <3>8. sockets'[h].open /\ call[r].app \in sockets'[h].active
      BY <3>2, <3>4, <3>5, <3>7
    <3>9. <<h, call[r].app>> \in Hosting
      BY <1>2, <3>2 DEF Hosting
    <3>10. QED BY <3>2, <3>8, <3>9 DEF Callable
  <2>2. QED BY <2>1 DEF AskedPageHosts
<1>7. QED BY <1>4, <1>5, <1>6 DEF Requested

\* Requests go on, end or begin, and no attachment changes.
LEMMA SameHosts ==
    ASSUME HostsTypeOK, HostsTypeOK', Requested, sockets' = sockets,
           \A r \in Requests : call'[r].at = "sent" => call'[r] = call[r]
    PROVE  Requested'
<1>1. \A h \in People : sockets[h].nonce <= sockets'[h].nonce
  BY SocketFields
<1>2. QED BY <1>1, KeptRequests

\* A page has frames on their way only while its connection is open.
LEMMA FramesStayOfOpen ==
    ASSUME HostsTypeOK, FramesAreOfOpen, [HostsNext]_hostvars
    PROVE  FramesAreOfOpen'
<1> DEFINE Same == \A g \in People : sockets'[g].open = sockets[g].open
<1>1. ASSUME NEW h \in People, NEW f, Sends(h, f), sockets' = sockets PROVE FramesAreOfOpen'
  BY <1>1 DEF FramesAreOfOpen, Sends, HostsTypeOK
<1>2. ASSUME NEW h \in People, NEW kind, HasFrame(h, kind), TakeOff(h), Same PROVE FramesAreOfOpen'
  BY <1>2 DEF FramesAreOfOpen, HasFrame, TakeOff, HostsTypeOK
<1>3. ASSUME frames' = frames, Same PROVE FramesAreOfOpen'
  BY <1>3 DEF FramesAreOfOpen
<1>4. ASSUME NEW h \in People,
             \/ \E a \in Apps : Handshake(h, a) \/ Withdraw(h, a)
             \/ \E r \in Requests : Answer(h, r)
             \/ Asked(h) \/ Say(h)
      PROVE  FramesAreOfOpen'
  <2>1. sockets' = sockets
    BY <1>4 DEF Handshake, Withdraw, Answer, Asked, Say, roomside
  <2>2. frames' = frames \/ \E f : Sends(h, f)
    BY <1>4 DEF Handshake, Withdraw, Answer, Asked, Say
  <2>3. QED BY <1>1, <1>3, <2>1, <2>2
<1>5. ASSUME NEW h \in People, Announce(h) \/ Retire(h) \/ TakeAnswer(h) \/ TakeChat(h)
      PROVE  FramesAreOfOpen'
  <2>1. (\E kind : HasFrame(h, kind)) /\ TakeOff(h)
    BY <1>5 DEF Announce, Retire, TakeAnswer, TakeChat
  <2>2. ASSUME NEW S, sockets' = [sockets EXCEPT ![h].active = S] PROVE Same
    BY <2>2 DEF HostsTypeOK
  <2>3. Same
    <3>1. CASE Announce(h)
      BY <2>2, <3>1 DEF Announce
    <3>2. CASE Retire(h)
      BY <2>2, <3>2 DEF Retire
    <3>3. CASE TakeAnswer(h) \/ TakeChat(h)
      BY <3>3 DEF TakeAnswer, TakeChat
    <3>4. QED BY <1>5, <3>1, <3>2, <3>3
  <2>4. QED BY <1>2, <2>1, <2>3
<1>6. ASSUME NEW r \in Requests, CallApp(r) \/ SendOut(r) \/ Timeout(r) PROVE FramesAreOfOpen'
  BY <1>3, <1>6 DEF CallApp, SendOut, Timeout
<1>7. ASSUME PassBarrier \/ AcceptChat \/ Expire \/ AgentLeaves \/ AgentReturns \/ UNCHANGED hostvars
      PROVE  FramesAreOfOpen'
  BY <1>3, <1>7 DEF PassBarrier, AcceptChat, Expire, AgentLeaves, AgentReturns, hostvars
<1>8. ASSUME Fetched PROVE FramesAreOfOpen'
  BY <1>3, <1>8, AttachedSockets DEF Fetched
<1>9. ASSUME NEW h \in People, CloseSocket(h) \/ OpenSocket(h) PROVE FramesAreOfOpen'
  <2>1. \A g \in People : g # h => frames'[g] = frames[g] /\ sockets'[g] = sockets[g]
    BY <1>9 DEF CloseSocket, OpenSocket, HostsTypeOK
  <2>2. frames'[h] = <<>> \/ sockets'[h].open
    BY <1>9 DEF CloseSocket, OpenSocket, HostsTypeOK
  <2>3. QED BY <2>1, <2>2 DEF FramesAreOfOpen
<1>10. QED BY <1>4, <1>5, <1>6, <1>7, <1>8, <1>9 DEF HostsNext, HostSteps, HostEnds

\* An announcement that the catalog lets in at once
LEMMA AnnouncedAtOnce ==
    ASSUME HostsTypeOK, HostsTypeOK', Announced, NEW h \in People, sockets[h].open, Announce(h), fresh
    PROVE  Announced' /\ (Requested => Requested')
<1> DEFINE a == Head(frames[h]).app
<1>1. a \in Apps
  BY TakenFrame, HeadOfFrames DEF Announce
<1>2. barrier = <<>> /\ barrier' = <<>>
  BY DEF HostsTypeOK, Announce
<1>3. sockets' = [sockets EXCEPT ![h].active = Joined(sockets[h].active, a)]
  BY DEF Announce
<1>4. /\ Joined(sockets[h].active, a) \in SUBSET Apps /\ sockets[h].active \subseteq Joined(sockets[h].active, a)
      /\ HasPlace(sockets[h].active, a) => a \in Joined(sockets[h].active, a)
  BY <1>1, SocketFields, JoinedApps
<1>5. latest' = [latest EXCEPT ![h] = IF HasPlace(sockets[h].active, a) THEN a ELSE NoApp]
  BY DEF Announce
<1>6. UNCHANGED <<call, chat, missed>> /\ owed' = {x \in owed : x[1] # h}
  BY DEF Announce
<1> HIDE DEF a
<1>7. /\ \A g \in People : sockets'[g].open = sockets[g].open /\ sockets'[g].nonce = sockets[g].nonce
      /\ sockets'[h].active = Joined(sockets[h].active, a)
      /\ \A g \in People : g # h => sockets'[g] = sockets[g]
  BY <1>3, <1>4, WrittenSocket
<1>8. \A g \in People : Standing(g) = {} /\ Standing(g)' = {}
  BY <1>2 DEF Standing
<1>9. WaitsPassed' /\ SeenIsAll'
  BY <1>2 DEF WaitsPassed, SeenIsAll
<1>10. LatestIsKept'
  <2>1. ASSUME NEW g \in People, latest'[g] # NoApp
        PROVE  sockets'[g].open /\ latest'[g] \in sockets'[g].active
    <3>1. CASE g = h
      BY <1>4, <1>5, <1>7, <2>1, <3>1 DEF HostsTypeOK
    <3>2. CASE g # h
      BY <1>5, <1>7, <1>8, <2>1, <3>2 DEF HostsTypeOK, Announced, LatestIsKept
    <3>3. QED BY <3>1, <3>2
  <2>2. QED BY <1>8, <2>1 DEF LatestIsKept
<1>11. OwedIsLatest'
  BY <1>5, <1>6 DEF Announced, OwedIsLatest, HostsTypeOK, Hosting
<1>12. Callable \subseteq Callable'
  BY <1>4, <1>7 DEF Callable, Hosting
<1>13. ResumedTells' /\ ChatSeesItsApp'
  BY <1>6, <1>12 DEF Announced, ResumedTells, ChatSeesItsApp
<1>14. Requested => Requested'
  <2>1. \A g \in People : sockets[g].nonce <= sockets'[g].nonce
    BY <1>7, SocketFields
  <2>2. \A g \in People : sockets[g].active \subseteq sockets'[g].active
    BY <1>4, <1>7
  <2>3. QED BY <1>6, <1>7, <2>1, <2>2, KeptRequests
<1>15. QED BY <1>9, <1>10, <1>11, <1>13, <1>14 DEF Announced

\* An announcement that waits for the catalog
LEMMA AnnouncedLater ==
    ASSUME HostsTypeOK, HostsTypeOK', Announced, NEW h \in People, sockets[h].open, Announce(h), ~fresh
    PROVE  Announced' /\ (Requested => Requested')
<1> DEFINE a == Head(frames[h]).app
           w == [human |-> h, nonce |-> sockets[h].nonce, seen |-> sockets[h].active, app |-> a]
           n == Len(barrier)
<1>1. a \in Apps
  BY TakenFrame, HeadOfFrames DEF Announce
<1>2. barrier' = Append(barrier, w)
  BY DEF Announce
<1>3. UNCHANGED <<sockets, call, chat, missed>>
  BY DEF Announce
<1>4. latest' = [latest EXCEPT ![h] = a] /\ owed' = {x \in owed : x[1] # h}
  BY DEF Announce
<1>5. w.human = h /\ w.nonce = sockets[h].nonce /\ w.seen = sockets[h].active /\ w.app = a
  OBVIOUS
<1> HIDE DEF w, a
<1>6. /\ Len(barrier') = n + 1 /\ n \in Nat
      /\ \A i \in 1..n : barrier'[i] = barrier[i]
      /\ barrier'[n + 1] = w
  BY <1>2, Waiting DEF HostsTypeOK
<1> HIDE DEF n
<1>7. \A i \in 1..Len(barrier') : i \in 1..n \/ i = n + 1
  BY <1>6
<1>8. sockets[h].nonce \in Nat
  BY SocketFields
<1>9. WaitsPassed'
  BY <1>3, <1>5, <1>6, <1>7, <1>8 DEF WaitsPassed, Announced, n
<1>10. SeenIsAll'
  BY <1>3, <1>5, <1>6, <1>7 DEF SeenIsAll, Announced, Stands, n
<1>11. \A g \in People : g # h => Standing(g)' = Standing(g)
  <2> TAKE g \in People
  <2>1. g # h => \A i \in 1..Len(barrier') : barrier'[i].human = g => i \in 1..n
    BY <1>5, <1>6, <1>7
  <2>2. \A i \in 1..n : i \in 1..Len(barrier')
    BY <1>6
  <2>3. QED BY <1>3, <1>6, <2>1, <2>2 DEF Standing, Stands, n
<1>12. n + 1 \in Standing(h)'
  BY <1>3, <1>5, <1>6 DEF Standing, Stands
<1>13. LatestIsKept'
  <2>1. ASSUME NEW g \in People, latest'[g] # NoApp
        PROVE  /\ sockets'[g].open
               /\ Standing(g)' = {} => latest'[g] \in sockets'[g].active
               /\ \A i \in Standing(g)' : LastOf(Standing(g)', i) => barrier'[i].app = latest'[g]
    <3>1. CASE g = h
      <4>1. latest'[g] = a /\ sockets'[g].open
        BY <1>3, <1>4, <3>1 DEF HostsTypeOK
      <4>2. ASSUME NEW i \in Standing(g)', LastOf(Standing(g)', i) PROVE barrier'[i].app = a
        <5>1. n + 1 <= i /\ i \in 1..Len(barrier')
          BY <1>12, <3>1, <4>2 DEF LastOf, Standing
        <5>2. i = n + 1
          BY <1>6, <5>1
        <5>3. QED BY <1>5, <1>6, <5>2
      <4>3. QED BY <1>12, <3>1, <4>1, <4>2
    <3>2. CASE g # h
      <4>1. latest'[g] = latest[g] /\ sockets'[g] = sockets[g] /\ Standing(g)' = Standing(g)
        BY <1>3, <1>4, <1>11, <3>2 DEF HostsTypeOK
      <4>2. \A i \in Standing(g) : barrier'[i] = barrier[i]
        BY <1>6 DEF Standing, n
      <4>3. QED BY <2>1, <4>1, <4>2 DEF Announced, LatestIsKept
    <3>3. QED BY <3>1, <3>2
  <2>2. QED BY <2>1 DEF LatestIsKept, LastOf
<1>14. OwedIsLatest'
  BY <1>4 DEF Announced, OwedIsLatest, HostsTypeOK, Hosting
<1>15. ResumedTells' /\ ChatSeesItsApp'
  BY <1>3, <1>4 DEF Announced, ResumedTells, ChatSeesItsApp, Callable
<1>16. Requested => Requested'
  BY <1>3, SameHosts
<1>17. QED BY <1>9, <1>10, <1>13, <1>14, <1>15, <1>16 DEF Announced

LEMMA RetireKeeps ==
    ASSUME HostsTypeOK, HostsTypeOK', Announced, NEW h \in People, Retire(h)
    PROVE  Announced' /\ (Requested => Requested')
<1> DEFINE a == Head(frames[h]).app
           R == {r \in OutTo(h) : call[r].app = a}
<1>1. sockets' = [sockets EXCEPT ![h].active = sockets[h].active \ {a}]
  BY DEF Retire
<1>2. latest' = [latest EXCEPT ![h] = IF latest[h] = a THEN NoApp ELSE latest[h]] /\ owed' = owed \ {<<h, a>>}
  BY DEF Retire
<1>3. FailAll(R) /\ UNCHANGED <<barrier, chat, missed>>
  BY DEF Retire
<1> HIDE DEF a
<1>4. sockets[h].active \ {a} \in SUBSET Apps
  BY SocketFields
<1>5. /\ \A g \in People : sockets'[g].open = sockets[g].open /\ sockets'[g].nonce = sockets[g].nonce
      /\ sockets'[h].active = sockets[h].active \ {a}
      /\ \A g \in People : g # h => sockets'[g] = sockets[g]
  BY <1>1, <1>4, WrittenSocket
<1>6. \A g \in People : Standing(g)' = Standing(g)
  BY <1>3, <1>5, StandingStays
<1>7. WaitsPassed'
  BY <1>3, <1>5, Waiting DEF WaitsPassed, Announced
<1>8. SeenIsAll'
  <2>1. \A g \in People : sockets'[g].active \subseteq sockets[g].active
    BY <1>5
  <2>2. ASSUME NEW i \in 1..Len(barrier), Stands(barrier[i])'
        PROVE  sockets'[barrier[i].human].active \subseteq barrier[i].seen
    <3>1. barrier[i].human \in People
      BY Waiting
    <3>2. Stands(barrier[i])
      BY <1>3, <1>5, <2>2, <3>1 DEF Stands
    <3>3. QED BY <2>1, <3>1, <3>2 DEF Announced, SeenIsAll
  <2>3. QED BY <1>3, <2>2 DEF SeenIsAll, Stands
<1>9. LatestIsKept'
  <2>1. ASSUME NEW g \in People, latest'[g] # NoApp
        PROVE  /\ latest'[g] = latest[g] /\ (g = h => latest[g] # a)
    BY <1>2, <2>1 DEF HostsTypeOK
  <2>2. ASSUME NEW g \in People, latest'[g] # NoApp
        PROVE  /\ sockets'[g].open
               /\ Standing(g)' = {} => latest'[g] \in sockets'[g].active
               /\ \A i \in Standing(g)' : LastOf(Standing(g)', i) => barrier'[i].app = latest'[g]
    <3>1. latest'[g] = latest[g] /\ latest[g] # NoApp /\ (g = h => latest[g] # a)
      BY <2>1, <2>2
    <3>2. sockets[g].open /\ (Standing(g) = {} => latest[g] \in sockets[g].active)
      BY <3>1 DEF Announced, LatestIsKept
    <3>3. latest[g] \in sockets[g].active => latest[g] \in sockets'[g].active
      BY <1>5, <3>1
    <3>4. \A i \in Standing(g) : LastOf(Standing(g), i) => barrier[i].app = latest[g]
      BY <3>1 DEF Announced, LatestIsKept
    <3>5. QED BY <1>3, <1>5, <1>6, <3>1, <3>2, <3>3, <3>4
  <2>3. QED BY <2>2 DEF LatestIsKept, LastOf
<1>10. OwedIsLatest'
  <2>1. ASSUME NEW x \in owed' PROVE latest'[x[1]] = x[2]
    <3>1. x \in owed /\ x # <<h, a>> /\ x \in Hosting
      BY <1>2 DEF HostsTypeOK
    <3>2. latest[x[1]] = x[2] /\ x[1] \in People
      BY <3>1 DEF Announced, OwedIsLatest, Hosting
    <3>3. x[1] = h => x[2] # a
      BY <3>1 DEF Hosting
    <3>4. QED BY <1>2, <3>2, <3>3 DEF HostsTypeOK
  <2>2. QED BY <2>1 DEF OwedIsLatest
<1>11. ResumedTells'
  <2>1. ASSUME NEW x \in owed', x \in Callable PROVE x \in Callable'
    <3>1. x # <<h, a>> /\ x \in Hosting /\ x[1] \in People
      BY <1>2, <2>1 DEF Callable, Hosting
    <3>2. x[1] = h => x[2] # a
      BY <3>1 DEF Hosting
    <3>3. sockets[x[1]].open /\ x[2] \in sockets[x[1]].active
      BY <2>1 DEF Callable
    <3>4. sockets'[x[1]].open /\ x[2] \in sockets'[x[1]].active
      BY <1>5, <3>1, <3>2, <3>3
    <3>5. QED BY <3>1, <3>4 DEF Callable
  <2>2. QED BY <1>2, <1>3, <2>1 DEF ResumedTells, Announced
<1>12. ChatSeesItsApp'
  BY <1>3 DEF Announced, ChatSeesItsApp
<1>13. Requested => Requested'
  <2>1. \A r \in Requests : call'[r].at = "sent" => call'[r] = call[r] /\ r \notin R
    BY <1>3, FailedCalls
  <2>2. \A g \in People : sockets[g].nonce <= sockets'[g].nonce
    BY <1>5, SocketFields
  <2>3. ASSUME NEW g \in People, NEW r \in OutTo(g), call'[r].at = "sent",
               sockets[g].open, call[r].app \in sockets[g].active
        PROVE  sockets'[g].open /\ call[r].app \in sockets'[g].active
    <3>1. r \in Requests
      BY DEF OutTo, InFlight
    <3>2. g = h => call[r].app # a
      BY <2>1, <2>3, <3>1
    <3>3. QED BY <1>5, <2>3, <3>2
  <2>4. QED BY <2>1, <2>2, <2>3, KeptRequests
<1>14. QED BY <1>7, <1>8, <1>9, <1>10, <1>11, <1>12, <1>13 DEF Announced

\* The catalog is there: the announcements that waited are written.
LEMMA FetchedKeeps ==
    ASSUME HostsTypeOK, HostsTypeOK', Announced, Fetched
    PROVE  Announced' /\ (Requested => Requested')
<1>1. /\ sockets' = Attached /\ barrier' = <<>> /\ missed' = missed
      /\ latest' = [g \in People |-> IF CutOff(g) THEN NoApp ELSE latest[g]]
      /\ owed' = {x \in owed : ~CutOff(x[1])}
  BY DEF Fetched
<1>2. \A g \in People : sockets'[g].open = sockets[g].open /\ sockets'[g].nonce = sockets[g].nonce
  BY <1>1, AttachedSockets
<1>3. \A g \in People : Standing(g)' = {}
  BY <1>1 DEF Standing
<1>4. WaitsPassed' /\ SeenIsAll'
  BY <1>1 DEF WaitsPassed, SeenIsAll
<1>5. ASSUME NEW g \in People PROVE sockets[g].active \subseteq sockets'[g].active
  <2>1. CASE Standing(g) = {}
    BY <1>1, <2>1, AttachedSockets
  <2>2. CASE Standing(g) # {}
    <3>1. /\ Latest(g) \in 1..Len(barrier) /\ barrier[Latest(g)].human = g
          /\ Stands(barrier[Latest(g)]) /\ barrier[Latest(g)] \in Waits
      BY <2>2, LatestStands DEF LastOf, Standing
    <3>2. sockets[g].active \subseteq barrier[Latest(g)].seen
      BY <3>1 DEF Announced, SeenIsAll
    <3>3. barrier[Latest(g)].seen \subseteq Joined(barrier[Latest(g)].seen, barrier[Latest(g)].app)
      BY <3>1, JoinedApps DEF Waits
    <3>4. QED BY <1>1, <2>2, <3>2, <3>3, AttachedSockets
  <2>3. QED BY <2>1, <2>2
<1>6. LatestIsKept'
  <2>1. ASSUME NEW g \in People, latest'[g] # NoApp
        PROVE  sockets'[g].open /\ latest'[g] \in sockets'[g].active
    <3>1. sockets'[g].open /\ latest'[g] = latest[g] /\ ~CutOff(g)
      BY <1>1, <1>2, <2>1 DEF Announced, LatestIsKept
    <3>2. CASE Standing(g) = {}
      BY <1>1, <2>1, <3>1, <3>2, AttachedSockets DEF Announced, LatestIsKept
    <3>3. CASE Standing(g) # {}
      <4>1. barrier[Latest(g)].app = latest[g]
        <5>1. LastOf(Standing(g), Latest(g)) /\ Latest(g) \in Standing(g)
          BY <3>3, LatestStands DEF LastOf
        <5>2. QED BY <2>1, <3>1, <5>1 DEF Announced, LatestIsKept
      <4>2. barrier[Latest(g)].app \in Joined(barrier[Latest(g)].seen, barrier[Latest(g)].app)
        BY <3>1, <3>3 DEF CutOff, Joined
      <4>3. QED BY <1>1, <3>1, <3>3, <4>1, <4>2, AttachedSockets
    <3>4. QED BY <3>1, <3>2, <3>3
  <2>2. QED BY <1>3, <2>1 DEF LatestIsKept
<1>7. OwedIsLatest'
  BY <1>1 DEF Announced, OwedIsLatest, HostsTypeOK, Hosting
<1>8. ResumedTells'
  <2>1. \A x \in owed' : x \in Hosting /\ x[1] \in People /\ x[2] \in Apps
    BY DEF HostsTypeOK, Hosting
  <2>2. \A x \in owed' : latest'[x[1]] = x[2] /\ x[2] # NoApp
    BY <1>7, <2>1, HostConstantsFit DEF OwedIsLatest
  <2>3. \A x \in owed' : sockets'[x[1]].open /\ x[2] \in sockets'[x[1]].active
    BY <1>3, <1>6, <2>1, <2>2 DEF LatestIsKept
  <2>4. QED BY <2>1, <2>3 DEF ResumedTells, Callable
<1>9. ChatSeesItsApp'
  BY <1>1 DEF Announced, ChatSeesItsApp
<1>10. Requested => Requested'
  <2>1. \A r \in Requests : call'[r].at = "sent" => call'[r] = call[r]
    BY FetchKeepsTypes
  <2>2. \A g \in People : sockets[g].nonce <= sockets'[g].nonce
    BY <1>2, SocketFields
  <2>3. QED BY <1>2, <1>5, <2>1, <2>2, KeptRequests
<1>11. QED BY <1>4, <1>6, <1>7, <1>8, <1>9, <1>10 DEF Announced

\* The chat
LEMMA ChatKeeps ==
    ASSUME HostsTypeOK, Announced, PassBarrier \/ AcceptChat \/ \E h \in People : TakeChat(h)
    PROVE  Announced'
<1>1. UNCHANGED <<sockets, barrier, latest>>
  BY DEF PassBarrier, AcceptChat, TakeChat
<1>2. WaitsPassed' /\ SeenIsAll'
  BY <1>1 DEF Announced, WaitsPassed, SeenIsAll, Stands
<1>3. LatestIsKept'
  BY <1>1 DEF Announced, LatestIsKept, Standing, Stands
<1>4. CASE PassBarrier
  <2>1. owed \subseteq Callable
    BY <1>4, OwedIsCallable DEF Announced, PassBarrier
  <2>2. OwedIsLatest' /\ ResumedTells' /\ ChatSeesItsApp'
    BY <1>4, <2>1 DEF Announced, OwedIsLatest, ResumedTells, ChatSeesItsApp, PassBarrier, Callable
  <2>3. QED BY <1>2, <1>3, <2>2 DEF Announced
<1>5. CASE AcceptChat
  <2>1. OwedIsLatest' /\ ResumedTells' /\ ChatSeesItsApp'
    BY <1>5 DEF Announced, OwedIsLatest, ResumedTells, ChatSeesItsApp, AcceptChat
  <2>2. QED BY <1>2, <1>3, <2>1 DEF Announced
<1>6. ASSUME NEW h \in People, TakeChat(h) PROVE Announced'
  <2>1. OwedIsLatest' /\ ResumedTells' /\ ChatSeesItsApp'
    BY <1>6 DEF Announced, OwedIsLatest, ResumedTells, ChatSeesItsApp, TakeChat
  <2>2. QED BY <1>2, <1>3, <2>1 DEF Announced
<1>7. QED BY <1>4, <1>5, <1>6

\* A connection that ends, or is replaced
LEMMA ConnectionKeeps ==
    ASSUME HostsTypeOK, HostsTypeOK', Announced, NEW h \in People, CloseSocket(h) \/ OpenSocket(h)
    PROVE  Announced' /\ (Requested => Requested')
<1>1. UNCHANGED <<barrier, chat, missed>>
  BY DEF CloseSocket, OpenSocket
<1>2. latest' = [latest EXCEPT ![h] = NoApp] /\ owed' = {x \in owed : x[1] # h}
  BY DEF CloseSocket, OpenSocket, Gone
<1>3. \A g \in People : g # h => sockets'[g] = sockets[g]
  BY DEF CloseSocket, OpenSocket, HostsTypeOK
<1>4. /\ ~sockets'[h].open /\ sockets'[h].nonce = sockets[h].nonce
      \/ sockets'[h].nonce = sockets[h].nonce + 1
  BY DEF CloseSocket, OpenSocket, HostsTypeOK
<1>5. \A g \in People : sockets[g].nonce \in Nat /\ sockets'[g].nonce \in Nat /\ sockets[g].nonce <= sockets'[g].nonce
  <2>1. \A g \in People : sockets[g].nonce \in Nat
    BY SocketFields
  <2>2. \A g \in People : sockets'[g].nonce \in Nat
    BY DEF HostsTypeOK
  <2>3. QED BY <1>3, <1>4, <2>1, <2>2
<1>6. ASSUME NEW i \in 1..Len(barrier), barrier[i].human = h PROVE ~Stands(barrier[i])'
  <2>1. barrier[i].nonce \in Nat /\ barrier[i].nonce <= sockets[h].nonce
    BY <1>6, Waiting DEF Announced, WaitsPassed
  <2>2. QED BY <1>1, <1>4, <1>5, <1>6, <2>1 DEF Stands
<1>7. \A g \in People : g # h => Standing(g)' = Standing(g)
  BY <1>1, <1>3, StandingStays
<1>8. WaitsPassed'
  <2>1. ASSUME NEW i \in 1..Len(barrier)
        PROVE  barrier[i].nonce <= sockets'[barrier[i].human].nonce
    <3>1. barrier[i].nonce \in Nat /\ barrier[i].human \in People
          /\ barrier[i].nonce <= sockets[barrier[i].human].nonce
      BY Waiting DEF Announced, WaitsPassed
    <3>2. QED BY <1>5, <3>1
  <2>2. QED BY <1>1, <2>1 DEF WaitsPassed
<1>9. SeenIsAll'
  <2>1. ASSUME NEW i \in 1..Len(barrier), Stands(barrier[i])'
        PROVE  sockets'[barrier[i].human].active \subseteq barrier[i].seen
    <3>1. barrier[i].human \in People /\ barrier[i].human # h
      BY <1>6, <2>1, Waiting
    <3>2. sockets'[barrier[i].human] = sockets[barrier[i].human]
      BY <1>3, <3>1
    <3>3. Stands(barrier[i])
      BY <1>1, <2>1, <3>2 DEF Stands
    <3>4. QED BY <3>2, <3>3 DEF Announced, SeenIsAll
  <2>2. QED BY <1>1, <2>1 DEF SeenIsAll, Stands
<1>10. LatestIsKept'
  <2>1. ASSUME NEW g \in People, latest'[g] # NoApp
        PROVE  /\ sockets'[g].open
               /\ Standing(g)' = {} => latest'[g] \in sockets'[g].active
               /\ \A i \in Standing(g)' : LastOf(Standing(g)', i) => barrier'[i].app = latest'[g]
    <3>1. g # h
      BY <1>2, <2>1 DEF HostsTypeOK
    <3>2. latest'[g] = latest[g] /\ sockets'[g] = sockets[g] /\ Standing(g)' = Standing(g)
      BY <1>2, <1>3, <1>7, <3>1 DEF HostsTypeOK
    <3>3. QED BY <1>1, <2>1, <3>2 DEF Announced, LatestIsKept
  <2>2. QED BY <2>1 DEF LatestIsKept, LastOf
<1>11. OwedIsLatest'
  BY <1>2 DEF Announced, OwedIsLatest, HostsTypeOK, Hosting
<1>12. ResumedTells' /\ ChatSeesItsApp'
  <2>1. \A x \in owed' : x \in Callable => x \in Callable'
    BY <1>2, <1>3 DEF Callable, Hosting
  <2>2. QED BY <1>1, <1>2, <2>1 DEF Announced, ResumedTells, ChatSeesItsApp
<1>13. Requested => Requested'
  <2>1. CASE CloseSocket(h)
    <3>1. \A r \in Requests : call'[r].at = "sent" => call'[r] = call[r] /\ r \notin OutTo(h)
      BY <2>1, FailedCalls DEF CloseSocket
    <3>2. ASSUME NEW g \in People, NEW r \in OutTo(g), call'[r].at = "sent", sockets'[g].nonce = sockets[g].nonce,
                 sockets[g].open, call[r].app \in sockets[g].active
          PROVE  sockets'[g].open /\ call[r].app \in sockets'[g].active
      <4>1. g # h
        BY <3>1, <3>2 DEF OutTo, InFlight
      <4>2. QED BY <1>3, <3>2, <4>1
    <3>3. QED BY <1>5, <3>1, <3>2, KeptRequests
  <2>2. CASE OpenSocket(h)
    <3>1. call' = call /\ sockets'[h].nonce # sockets[h].nonce
      BY <2>2, SocketFields DEF OpenSocket, HostsTypeOK
    <3>2. QED BY <1>3, <1>5, <3>1, KeptRequests
  <2>3. QED BY <2>1, <2>2
<1>14. QED BY <1>8, <1>9, <1>10, <1>11, <1>12, <1>13 DEF Announced

\* One request more is out, and its page hosts its App.
LEMMA SentKeeps ==
    ASSUME HostsTypeOK, HostsTypeOK', Requested, NEW r \in Requests, SendOut(r), MayDispatch(r)
    PROVE  Requested'
<1> DEFINE g == Target(call[r].app)
           sent == [at |-> "sent", app |-> call[r].app, human |-> g, nonce |-> sockets[g].nonce]
<1>1. call[r].app \in Apps
  BY CallFields
<1>2. g \in People /\ sockets[g].open /\ call[r].app \in sockets[g].active
  BY <1>1, TargetIsHost DEF MayDispatch
<1>3. call' = [call EXCEPT ![r] = sent] /\ sockets' = sockets /\ call[r].at = "resumed"
  BY DEF SendOut
<1>4. sent.at = "sent" /\ sent.app = call[r].app /\ sent.human = g /\ sent.nonce = sockets[g].nonce
  OBVIOUS
<1> HIDE DEF sent, g
<1>5. call'[r] = sent /\ \A q \in Requests : q # r => call'[q] = call[q]
  BY <1>3 DEF HostsTypeOK
<1>6. InFlight' = InFlight \cup {r} /\ r \notin InFlight
  BY <1>3, <1>4, <1>5 DEF InFlight
<1>7. CallsPassed'
  <2>1. sockets[g].nonce \in Nat
    BY <1>2, SocketFields
  <2>2. ASSUME NEW q \in InFlight' PROVE call'[q].nonce <= sockets'[call'[q].human].nonce
    <3>1. CASE q = r
      BY <1>3, <1>4, <1>5, <2>1, <3>1
    <3>2. CASE q # r
      <4>1. q \in InFlight /\ q \in Requests
        BY <1>6, <3>2 DEF InFlight
      <4>2. QED BY <1>3, <1>5, <3>2, <4>1 DEF Requested, CallsPassed
    <3>3. QED BY <3>1, <3>2
  <2>3. QED BY <2>2 DEF CallsPassed
<1>8. InFlightBounded'
  <2>1. IsFiniteSet(InFlight)
    BY HostConstantsFit, FS_Subset DEF InFlight
  <2>2. Cardinality(InFlight') = Cardinality(InFlight) + 1 /\ Cardinality(InFlight) \in Nat
    BY <1>6, <2>1, FS_AddElement, FS_CardinalityType
  <2>3. Cardinality(InFlight) < MaxInFlight
    BY DEF MayDispatch
  <2>4. QED BY <2>2, <2>3, HostConstantsFit DEF InFlightBounded
<1>9. AskedPageHosts'
  <2>1. ASSUME NEW h \in People, NEW q \in OutTo(h)' PROVE <<h, call'[q].app>> \in Callable'
    <3>1. q \in InFlight' /\ call'[q].human = h /\ call'[q].nonce = sockets'[h].nonce
      BY <2>1 DEF OutTo
    <3>2. CASE q = r
      <4>1. h = g /\ call'[q].app = call[r].app
        BY <1>4, <1>5, <3>1, <3>2
      <4>2. QED BY <1>1, <1>2, <1>3, <4>1 DEF Callable, Hosting
    <3>3. CASE q # r
      <4>1. q \in InFlight /\ q \in Requests /\ call'[q] = call[q]
        BY <1>5, <1>6, <3>1, <3>3 DEF InFlight
      <4>2. q \in OutTo(h)
        BY <1>3, <3>1, <4>1 DEF OutTo
      <4>3. QED BY <1>3, <4>1, <4>2 DEF Requested, AskedPageHosts, Callable
    <3>4. QED BY <3>2, <3>3
  <2>2. QED BY <2>1 DEF AskedPageHosts
<1>10. QED BY <1>7, <1>8, <1>9 DEF Requested

\* A step of the requests alone
LEMMA CallsKeep ==
    ASSUME HostsTypeOK, HostsTypeOK', Requested, NEW r \in Requests,
           CallApp(r) \/ SendOut(r) \/ Timeout(r)
    PROVE  Requested'
<1>1. sockets' = sockets
  BY DEF CallApp, SendOut, Timeout
<1>2. CASE SendOut(r) /\ MayDispatch(r)
  BY <1>2, SentKeeps
<1>3. CASE CallApp(r) \/ (SendOut(r) /\ ~MayDispatch(r))
  <2>1. \E at \in {"resumed", "catalog", "failed"} : call' = [call EXCEPT ![r].at = at]
    BY <1>3 DEF CallApp, SendOut
  <2>2. call[r].at # "sent"
    BY <1>3 DEF CallApp, SendOut
  <2>3. \A q \in Requests : call'[q].at = "sent" => call'[q] = call[q]
    <3> TAKE q \in Requests
    <3>1. q # r => call'[q] = call[q]
      BY <2>1 DEF HostsTypeOK
    <3>2. call'[r].at # "sent"
      <4>1. call[r] \in [at : {"idle", "catalog", "resumed", "answered", "failed"}, app : Apps]
        BY <2>2, CallFields DEF Calls
      <4>2. QED BY <2>1, <4>1 DEF HostsTypeOK
    <3>3. QED BY <3>1, <3>2
  <2>4. QED BY <1>1, <2>3, SameHosts
<1>4. CASE Timeout(r)
  <2>1. \A q \in Requests : call'[q].at = "sent" => call'[q] = call[q]
    BY <1>4, FailedCalls DEF Timeout
  <2>2. QED BY <1>1, <2>1, SameHosts
<1>5. QED BY <1>2, <1>3, <1>4

LEMMA HostStep == HostInv /\ [HostsNext]_hostvars => HostInv'
<1> SUFFICES ASSUME HostInv, [HostsNext]_hostvars PROVE Announced' /\ Requested'
  BY HostTypesStep, FramesStayOfOpen DEF HostInv
<1>1. HostsTypeOK /\ HostsTypeOK' /\ FramesAreOfOpen /\ Announced /\ Requested
  BY HostTypesStep DEF HostInv
<1>2. ASSUME UNCHANGED <<sockets, call, barrier, chat, latest, owed, missed>>
      PROVE  Announced' /\ Requested'
  BY <1>1, <1>2, KeptAnnouncements, SameHosts
<1>3. ASSUME NEW h \in People,
             \/ \E a \in Apps : Handshake(h, a) \/ Withdraw(h, a)
             \/ \E r \in Requests : Answer(h, r)
             \/ Asked(h) \/ Say(h)
      PROVE  Announced' /\ Requested'
  <2>1. UNCHANGED <<sockets, call, barrier, chat, latest, owed, missed>>
    BY <1>3 DEF Handshake, Withdraw, Answer, Asked, Say, roomside
  <2>2. QED BY <1>2, <2>1
<1>4. ASSUME NEW h \in People, Announce(h) PROVE Announced' /\ Requested'
  <2>1. sockets[h].open
    BY <1>1, <1>4, TakenFrame DEF FramesAreOfOpen, Announce
  <2>2. CASE fresh
    BY <1>1, <1>4, <2>1, <2>2, AnnouncedAtOnce
  <2>3. CASE ~fresh
    BY <1>1, <1>4, <2>1, <2>3, AnnouncedLater
  <2>4. QED BY <2>2, <2>3
<1>5. ASSUME NEW h \in People, Retire(h) PROVE Announced' /\ Requested'
  BY <1>1, <1>5, RetireKeeps
<1>6. ASSUME NEW h \in People, TakeAnswer(h) PROVE Announced' /\ Requested'
  <2> DEFINE r == Head(frames[h]).request
  <2>1. r \in Requests
    BY <1>1, <1>6, TakenFrame, HeadOfFrames DEF TakeAnswer
  <2>2. UNCHANGED <<sockets, barrier, chat, latest, owed, missed>>
    BY <1>6 DEF TakeAnswer
  <2>3. call' = call \/ call' = [call EXCEPT ![r] = [at |-> "answered", app |-> call[r].app]]
    BY <1>6 DEF TakeAnswer
  <2>4. \A q \in Requests : call'[q].at = "sent" => call'[q] = call[q]
    BY <1>1, <2>1, <2>3 DEF HostsTypeOK
  <2>5. QED BY <1>1, <2>2, <2>4, KeptAnnouncements, SameHosts
<1>7. ASSUME PassBarrier \/ AcceptChat \/ \E h \in People : TakeChat(h) PROVE Announced' /\ Requested'
  <2>1. UNCHANGED <<sockets, call>>
    BY <1>7 DEF PassBarrier, AcceptChat, TakeChat
  <2>2. QED BY <1>1, <1>7, <2>1, ChatKeeps, SameHosts
<1>8. ASSUME NEW r \in Requests, CallApp(r) \/ SendOut(r) \/ Timeout(r) PROVE Announced' /\ Requested'
  <2>1. UNCHANGED <<sockets, barrier, chat, latest, owed, missed>>
    BY <1>8 DEF CallApp, SendOut, Timeout
  <2>2. QED BY <1>1, <1>8, <2>1, KeptAnnouncements, CallsKeep
<1>9. ASSUME Fetched PROVE Announced' /\ Requested'
  BY <1>1, <1>9, FetchedKeeps
<1>10. ASSUME NEW h \in People, CloseSocket(h) \/ OpenSocket(h) PROVE Announced' /\ Requested'
  BY <1>1, <1>10, ConnectionKeeps
<1>11. ASSUME AgentLeaves PROVE Announced' /\ Requested'
  <2>1. UNCHANGED <<sockets, barrier, chat, latest, owed, missed>>
    BY <1>11 DEF AgentLeaves
  <2>2. \A r \in Requests : call'[r].at = "sent" => call'[r] = call[r]
    BY <1>1, <1>11, FailedCalls DEF AgentLeaves
  <2>3. QED BY <1>1, <2>1, <2>2, KeptAnnouncements, SameHosts
<1>12. ASSUME Expire \/ AgentReturns \/ UNCHANGED hostvars PROVE Announced' /\ Requested'
  <2>1. UNCHANGED <<sockets, call, barrier, chat, latest, owed, missed>>
    BY <1>12 DEF Expire, AgentReturns, hostvars
  <2>2. QED BY <1>2, <2>1
<1>13. QED
  BY <1>3, <1>4, <1>5, <1>6, <1>7, <1>8, <1>9, <1>10, <1>11, <1>12 DEF HostsNext, HostSteps, HostEnds

LEMMA HostStart == HostsInit => HostInv
<1> SUFFICES ASSUME HostsInit PROVE HostInv
  OBVIOUS
<1>1. HostsTypeOK
  BY HostTypesInit
<1>2. FramesAreOfOpen
  BY DEF HostsInit, FramesAreOfOpen
<1>3. WaitsPassed /\ SeenIsAll
  BY DEF HostsInit, WaitsPassed, SeenIsAll
<1>4. LatestIsKept /\ OwedIsLatest /\ ResumedTells /\ ChatSeesItsApp
  BY DEF HostsInit, LatestIsKept, OwedIsLatest, ResumedTells, ChatSeesItsApp
<1>5. InFlight = {}
  BY DEF HostsInit, InFlight
<1>6. CallsPassed /\ AskedPageHosts
  BY <1>5 DEF CallsPassed, AskedPageHosts, OutTo
<1>7. InFlightBounded
  BY <1>5, FS_EmptySet, HostConstantsFit DEF InFlightBounded
<1>8. QED BY <1>1, <1>2, <1>3, <1>4, <1>6, <1>7 DEF HostInv, Announced, Requested

\* The projection with which a chat wakes the Agent has the App that a page announced
\* last before it, for any number of pages, Apps and announcements that wait for the
\* catalog: the barrier of webSocketMessage.
THEOREM ChatsAreTold == HostsSpec => []ChatSeesItsApp
<1>1. HostInv => ChatSeesItsApp
  BY DEF HostInv, Announced
<1>2. QED BY <1>1, HostStart, HostStep, PTL DEF HostsSpec

\* Requests of the Agent are out within the bound of handleAgentRoomAppRequest, and on a
\* present connection only to a page whose App the room has as callable: a withdrawal or
\* a close fails the others at once.
THEOREM RequestsAreHosted == HostsSpec => []AskedHosts
<1>1. HostInv => AskedHosts
  BY DEF HostInv, Requested, AskedHosts
<1>2. QED BY <1>1, HostStart, HostStep, PTL DEF HostsSpec

-----------------------------------------------------------------------------
(* Part 5.  The workspace snapshots of Agents *)

(* A record b that is in force or that an upload has loaded, when n images were taken,
   the chunks S are stored and the images R are given up: its images were taken and are
   whole or given up, and no more Agents than the bound have one. *)

Complete(s, S) == ChunksOf({s}, Pieces) \subseteq S

RecordFits(b, n, S, R) ==
    /\ b \in Boards
    /\ \A a \in Publishers : b[a].surface <= n
    /\ \A a \in Showing(b) : Complete(b[a].surface, S) \/ b[a].surface \in R
    /\ Cardinality(Showing(b)) <= MaxSurfaces

BodiesFit(n, S, R) == \A u \in Bodies : body[u].at = "body" => RecordFits(body[u].seen, n, S, R)

SurfaceChunks == Snapshots \X (1..Pieces)

Records ==
    /\ taken \in 0..MaxSnapshots /\ entered \subseteq Publishers
    /\ stored \subseteq SurfaceChunks /\ retired \subseteq Snapshots /\ undone \in BOOLEAN
    /\ body \in [Bodies -> Awaiting]
    /\ RecordFits(board, taken, stored, retired) /\ BodiesFit(taken, stored, retired)

LEMMA BodyFields ==
    ASSUME NEW u \in Bodies, body \in [Bodies -> Awaiting], body[u].at = "body"
    PROVE  body[u].by \in Publishers \cup {Visitor} /\ body[u].seen \in Boards
BY DEF Awaiting

LEMMA SurfaceOf ==
    ASSUME NEW b \in Boards, NEW a \in Publishers
    PROVE  /\ b[a].here \in BOOLEAN /\ b[a].surface \in 0..MaxSnapshots
           /\ b[a] = [here |-> b[a].here, surface |-> b[a].surface]
BY DEF Boards

LEMMA ShowingIsFinite ==
    ASSUME NEW b
    PROVE  /\ IsFiniteSet(Showing(b)) /\ Cardinality(Showing(b)) \in Nat
           /\ \A S \in SUBSET Showing(b) : IsFiniteSet(S) /\ Cardinality(S) \in Nat
<1>1. IsFiniteSet(Showing(b))
  BY SurfaceConstantsFit, FS_Subset DEF Showing
<1>2. QED BY <1>1, FS_Subset, FS_CardinalityType

\* What is kept when images are taken, and none but those that are given up lose chunks
LEMMA StaysFit ==
    ASSUME NEW b, NEW n \in Nat, NEW m \in Nat, NEW S, NEW T, NEW R, NEW Q,
           RecordFits(b, n, S, R), n <= m, R \subseteq Q,
           \A s : Complete(s, S) /\ s \notin Q => Complete(s, T)
    PROVE  RecordFits(b, m, T, Q)
<1>1. ASSUME NEW a \in Publishers PROVE b[a].surface <= m
  <2>1. b[a].surface \in 0..MaxSnapshots /\ b[a].surface <= n
    BY SurfaceOf DEF RecordFits
  <2>2. QED BY <2>1, SurfaceConstantsFit
<1>2. QED BY <1>1 DEF RecordFits

\* The record without the surface of a
LEMMA FitWithout ==
    ASSUME NEW b, NEW c \in Boards, NEW a \in Publishers, NEW n \in Nat, NEW S, NEW R,
           RecordFits(b, n, S, R),
           c[a].surface = NoImage, \A x \in Publishers \ {a} : c[x] = b[x]
    PROVE  RecordFits(c, n, S, R)
<1>1. Showing(c) \subseteq Showing(b)
  BY DEF Showing, HasSurface
<1>2. Cardinality(Showing(c)) <= MaxSurfaces
  <2>1. Cardinality(Showing(c)) <= Cardinality(Showing(b))
    BY <1>1, ShowingIsFinite, FS_Subset
  <2>2. QED BY <2>1, ShowingIsFinite, SurfaceConstantsFit DEF RecordFits
<1>3. \A x \in Publishers : c[x].surface <= n
  BY DEF RecordFits, NoImage
<1>4. \A x \in Showing(c) : x \in Publishers \ {a} /\ c[x] = b[x]
  BY DEF Showing, HasSurface
<1>5. QED BY <1>1, <1>2, <1>3, <1>4 DEF RecordFits

\* The surfaces of a record that has a new one for a
LEMMA OneMore ==
    ASSUME NEW b, NEW c, NEW a \in Publishers, Cardinality(Showing(b)) <= MaxSurfaces, MayShow(b, a),
           Showing(c) = Showing(b) \cup {a}
    PROVE  Cardinality(Showing(c)) <= MaxSurfaces
<1>1. CASE a \in Showing(b)
  <2>1. Showing(c) = Showing(b)
    BY <1>1
  <2>2. QED BY <2>1
<1>2. CASE a \notin Showing(b)
  <2>1. Showing(b) \ {a} = Showing(b)
    BY <1>2
  <2>2. Cardinality(Showing(b)) < MaxSurfaces
    BY <1>2, <2>1 DEF MayShow, Showing
  <2>3. Cardinality(Showing(b) \cup {a}) = Cardinality(Showing(b)) + 1
    BY <1>2, ShowingIsFinite, FS_AddElement
  <2>4. QED BY <2>2, <2>3, ShowingIsFinite, SurfaceConstantsFit
<1>3. QED BY <1>1, <1>2

\* The record b with a new image m for a, which has its chunks
LEMMA FitWith ==
    ASSUME NEW b, NEW a \in Publishers, NEW n \in Nat, NEW m \in Snapshots, NEW S, NEW R,
           RecordFits(b, n, S, R), MayShow(b, a), m = n + 1, Complete(m, S)
    PROVE  RecordFits([b EXCEPT ![a].surface = m], m, S, R)
<1> DEFINE c == [b EXCEPT ![a].surface = m]
<1>1. b \in Boards /\ c \in Boards
  BY SurfaceOf DEF RecordFits, Boards, Snapshots
<1>2. c[a].surface = m /\ \A x \in Publishers \ {a} : c[x] = b[x]
  BY <1>1, SurfaceOf DEF Boards
<1>3. Showing(c) = Showing(b) \cup {a}
  BY <1>1, <1>2 DEF Showing, HasSurface, NoImage, Snapshots
<1>4. Cardinality(Showing(c)) <= MaxSurfaces
  BY <1>3, OneMore DEF RecordFits
<1>5. ASSUME NEW x \in Publishers PROVE c[x].surface <= m
  <2>1. CASE x = a
    BY <1>2, <2>1, SurfaceConstantsFit DEF Snapshots
  <2>2. CASE x # a
    <3>1. c[x].surface = b[x].surface /\ b[x].surface <= n /\ b[x].surface \in 0..MaxSnapshots
      BY <1>1, <1>2, <2>2, SurfaceOf DEF RecordFits
    <3>2. QED BY <3>1, SurfaceConstantsFit DEF Snapshots
  <2>3. QED BY <2>1, <2>2
<1>6. ASSUME NEW x \in Showing(c) PROVE Complete(c[x].surface, S) \/ c[x].surface \in R
  <2>1. CASE x = a
    BY <1>2, <2>1
  <2>2. CASE x # a
    BY <1>2, <1>3, <2>2 DEF RecordFits, Showing
  <2>3. QED BY <2>1, <2>2
<1> HIDE DEF c
<1>7. RecordFits(c, m, S, R)
  BY <1>1, <1>4, <1>5, <1>6 DEF RecordFits
<1>8. QED BY <1>7 DEF c

-----------------------------------------------------------------------------
(* The steps of the room *)

\* The uploads that go on waiting, when images are taken or given up
LEMMA BodiesStayFit ==
    ASSUME Records, taken' \in Nat, taken <= taken', retired \subseteq retired',
           \A u \in Bodies : body'[u].at = "body" => body'[u] = body[u],
           \A s : Complete(s, stored) /\ s \notin retired' => Complete(s, stored')
    PROVE  BodiesFit(taken, stored, retired)'
<1>1. taken \in Nat
  BY SurfaceConstantsFit DEF Records
<1>2. ASSUME NEW u \in Bodies, body'[u].at = "body"
      PROVE  RecordFits(body[u].seen, taken', stored', retired')
  <2>1. RecordFits(body[u].seen, taken, stored, retired)
    BY <1>2 DEF Records, BodiesFit
  <2>2. QED BY <1>1, <2>1, StaysFit
<1>3. QED BY <1>2 DEF BodiesFit

\* The new image is none of those before.
LEMMA NewImage ==
    ASSUME NEW u \in Bodies, Records, Proceeds(u)
    PROVE  /\ taken \in Nat /\ taken' \in Snapshots /\ taken' = taken + 1
           /\ Before(u) \in 0..MaxSnapshots /\ Before(u) # taken'
           /\ body[u].by \in Publishers /\ MayShow(body[u].seen, body[u].by)
           /\ RecordFits(body[u].seen, taken, stored, retired)
<1>1. body[u].by \in Publishers /\ body[u].seen \in Boards /\ RecordFits(body[u].seen, taken, stored, retired)
  BY BodyFields DEF Proceeds, Records, BodiesFit
<1>2. Before(u) \in 0..MaxSnapshots /\ Before(u) <= taken
  BY <1>1, SurfaceOf DEF Before, RecordFits
<1>3. QED BY <1>1, <1>2, SurfaceConstantsFit DEF Proceeds, Records, Snapshots

\* Only the chunks of the image before may go.
LEMMA ChunksKept ==
    ASSUME NEW s, NEW t \in 0..MaxSnapshots, NEW S \in SUBSET SurfaceChunks, NEW T,
           NEW gone \in {{}, ChunksOf({t}, Pieces)},
           Complete(s, S), s # t \/ t = NoImage, S \subseteq T
    PROVE  Complete(s, T \ gone)
<1>1. CASE gone = {}
  BY <1>1 DEF Complete
<1>2. CASE gone = ChunksOf({t}, Pieces)
  <2>1. <<s, 1>> \in SurfaceChunks
    BY SurfaceConstantsFit DEF ChunksOf, Complete
  <2>2. s # t
    BY <2>1 DEF SurfaceChunks, NoImage, Snapshots
  <2>3. QED BY <1>2, <2>2 DEF Complete, ChunksOf
<1>3. QED BY <1>1, <1>2

LEMMA PublishSaves ==
    ASSUME NEW u \in Bodies, Records, PublishSurface(u)
    PROVE  Records'
<1> DEFINE new == ChunksOf({taken'}, Pieces)
<1>1. Proceeds(u) /\ Ends(u) /\ board' = Swapped(u) /\ UNCHANGED <<entered, undone>>
      /\ retired' = retired \cup ({Before(u)} \ {NoImage})
  BY DEF PublishSurface
<1>2. PICK gone \in {{}, ChunksOf({Before(u)}, Pieces)} : stored' = (stored \cup new) \ gone
  BY DEF PublishSurface
<1>3. /\ taken \in Nat /\ taken' \in Snapshots /\ taken' = taken + 1
      /\ Before(u) \in 0..MaxSnapshots /\ Before(u) # taken'
      /\ body[u].by \in Publishers /\ MayShow(body[u].seen, body[u].by)
      /\ RecordFits(body[u].seen, taken, stored, retired)
  BY <1>1, NewImage
<1>4. taken' \in Nat /\ taken <= taken' /\ taken <= taken
  BY <1>3 DEF Snapshots
<1>5. Complete(taken', stored')
  BY <1>2, <1>3 DEF ChunksOf, Complete
<1>6. ASSUME NEW s, Complete(s, stored), s \notin retired' PROVE Complete(s, stored')
  <2>1. s # Before(u) \/ Before(u) = NoImage
    BY <1>1, <1>6
  <2>2. stored \in SUBSET SurfaceChunks
    BY DEF Records
  <2>3. QED BY <1>2, <1>3, <1>6, <2>1, <2>2, ChunksKept
<1>7. RecordFits(body[u].seen, taken, stored', retired')
  BY <1>1, <1>3, <1>4, <1>6, StaysFit
<1>8. RecordFits(board, taken, stored, retired)'
  BY <1>1, <1>3, <1>5, <1>7, FitWith DEF Swapped
<1>9. \A v \in Bodies : body'[v].at = "body" => body'[v] = body[v]
  BY <1>1 DEF Ends, Records
<1>10. BodiesFit(taken, stored, retired)'
  BY <1>1, <1>4, <1>6, <1>9, BodiesStayFit
<1>11. taken' \in 0..MaxSnapshots /\ entered' \subseteq Publishers /\ undone' \in BOOLEAN
  BY <1>1, <1>3, SurfaceConstantsFit DEF Records, Snapshots
<1>12. stored' \subseteq SurfaceChunks
  BY <1>2, <1>3 DEF Records, ChunksOf, SurfaceChunks
<1>13. retired' \subseteq Snapshots
  <2>1. Before(u) # NoImage => Before(u) \in Snapshots
    BY <1>3, SurfaceConstantsFit DEF Snapshots, NoImage
  <2>2. QED BY <1>1, <2>1 DEF Records
<1>14. body' \in [Bodies -> Awaiting]
  BY <1>1 DEF Ends, Records, Awaiting
<1>15. QED BY <1>8, <1>10, <1>11, <1>12, <1>13, <1>14 DEF Records

LEMMA FailedSaves ==
    ASSUME NEW u \in Bodies, Records, PublishFails(u)
    PROVE  Records'
<1>1. Proceeds(u) /\ Ends(u) /\ UNCHANGED <<board, entered, retired, undone>>
  BY DEF PublishFails
<1>2. PICK k \in 0..Pieces : stored' = stored \cup ChunksOf({taken'}, k)
  BY DEF PublishFails
<1>3. taken \in Nat /\ taken' \in Snapshots /\ taken' \in Nat /\ taken <= taken'
  BY <1>1, NewImage DEF Snapshots
<1>4. \A s : Complete(s, stored) => Complete(s, stored')
  BY <1>2 DEF Complete
<1>5. RecordFits(board, taken, stored, retired)'
  BY <1>1, <1>3, <1>4, StaysFit DEF Records
<1>6. \A v \in Bodies : body'[v].at = "body" => body'[v] = body[v]
  BY <1>1 DEF Ends, Records
<1>7. BodiesFit(taken, stored, retired)'
  BY <1>1, <1>3, <1>4, <1>6, BodiesStayFit
<1>8. ChunksOf({taken'}, k) \subseteq SurfaceChunks
  BY <1>2, <1>3, SurfaceConstantsFit DEF ChunksOf, SurfaceChunks
<1>9. taken' \in 0..MaxSnapshots
  BY <1>3, SurfaceConstantsFit DEF Snapshots
<1>10. body' \in [Bodies -> Awaiting]
  BY <1>1 DEF Ends, Records, Awaiting
<1>11. QED BY <1>1, <1>2, <1>5, <1>7, <1>8, <1>9, <1>10 DEF Records

\* An upload begins, is refused, or was of an attachment.
LEMMA BodySaves ==
    ASSUME NEW u \in Bodies, Records,
           Refused(u) \/ Attach(u) \/ \E who \in Publishers \cup {Visitor} : BeginBody(u, who)
    PROVE  Records'
<1>1. UNCHANGED <<entered, stored, taken, retired>> /\ undone' \in BOOLEAN
  BY DEF Refused, Attach, BeginBody, Records
<1>2. board' = board \/ (body[u].at = "body" /\ board' = body[u].seen)
  BY DEF Refused, Attach, BeginBody
<1>3. RecordFits(board, taken, stored, retired)'
  BY <1>1, <1>2 DEF Records, BodiesFit
<1>4. ASSUME NEW who \in Publishers \cup {Visitor}, BeginBody(u, who)
      PROVE  body' \in [Bodies -> Awaiting] /\ BodiesFit(taken, stored, retired)'
  <2>1. body' = [body EXCEPT ![u] = [at |-> "body", by |-> who, seen |-> board]]
    BY <1>4 DEF BeginBody
  <2>2. board \in Boards
    BY DEF Records, RecordFits
  <2>3. [at |-> "body", by |-> who, seen |-> board] \in Awaiting
    BY <2>2 DEF Awaiting
  <2>4. body' \in [Bodies -> Awaiting]
    BY <2>1, <2>3 DEF Records
  <2>5. ASSUME NEW v \in Bodies, body'[v].at = "body"
        PROVE  RecordFits(body'[v].seen, taken', stored', retired')
    <3>1. CASE v = u
      BY <1>1, <2>1, <3>1 DEF Records
    <3>2. CASE v # u
      BY <1>1, <2>1, <2>5, <3>2 DEF Records, BodiesFit
    <3>3. QED BY <3>1, <3>2
  <2>6. QED BY <2>4, <2>5 DEF BodiesFit
<1>5. ASSUME Refused(u) \/ Attach(u)
      PROVE  body' \in [Bodies -> Awaiting] /\ BodiesFit(taken, stored, retired)'
  <2>1. Ends(u)
    BY <1>5 DEF Refused, Attach
  <2>2. body' \in [Bodies -> Awaiting]
    BY <2>1 DEF Ends, Records, Awaiting
  <2>3. \A v \in Bodies : body'[v].at = "body" => body'[v] = body[v]
    BY <2>1 DEF Ends, Records
  <2>4. taken' \in Nat /\ taken <= taken'
    BY <1>1, SurfaceConstantsFit DEF Records
  <2>5. BodiesFit(taken, stored, retired)'
    BY <1>1, <2>3, <2>4, BodiesStayFit
  <2>6. QED BY <2>2, <2>5
<1>6. QED BY <1>1, <1>3, <1>4, <1>5 DEF Records

\* A surface is cleared or goes with its Agent.
LEMMA WithdrawnSaves ==
    ASSUME NEW a \in Publishers, Records, ClearSurface(a) \/ Leave(a)
    PROVE  Records'
<1>1. Withdraws(a) /\ UNCHANGED <<entered, taken, body, undone>>
  BY DEF ClearSurface, Leave
<1>2. PICK gone \in {{}, ChunksOf({board[a].surface}, Pieces)} : stored' = stored \ gone
  BY <1>1 DEF Withdraws
<1>3. retired' = retired \cup ({board[a].surface} \ {NoImage})
  BY <1>1 DEF Withdraws
<1>4. board \in Boards /\ stored \in SUBSET SurfaceChunks /\ taken \in Nat
  BY SurfaceConstantsFit DEF Records, RecordFits
<1>5. board[a].surface \in 0..MaxSnapshots
  BY <1>4, SurfaceOf
<1>6. board' \in Boards /\ board'[a].surface = NoImage /\ \A x \in Publishers \ {a} : board'[x] = board[x]
  <2>1. CASE ClearSurface(a)
    BY <1>4, <2>1, SurfaceOf, SurfaceConstantsFit DEF ClearSurface, Boards, NoImage
  <2>2. CASE Leave(a)
    BY <1>4, <2>2, SurfaceOf, SurfaceConstantsFit DEF Leave, Boards, NoImage
  <2>3. QED BY <2>1, <2>2
<1>7. ASSUME NEW s, Complete(s, stored), s \notin retired' PROVE Complete(s, stored')
  BY <1>2, <1>3, <1>4, <1>5, <1>7, ChunksKept
<1>8. RecordFits(board, taken, stored, retired)'
  <2>1. RecordFits(board, taken, stored', retired')
    BY <1>3, <1>4, <1>7, StaysFit DEF Records
  <2>2. QED BY <1>1, <1>4, <1>6, <2>1, FitWithout
<1>9. BodiesFit(taken, stored, retired)'
  BY <1>1, <1>3, <1>4, <1>7, BodiesStayFit
<1>10. retired' \subseteq Snapshots
  <2>1. board[a].surface # NoImage => board[a].surface \in Snapshots
    BY <1>5, SurfaceConstantsFit DEF Snapshots, NoImage
  <2>2. QED BY <1>3, <2>1 DEF Records
<1>11. QED BY <1>1, <1>2, <1>4, <1>8, <1>9, <1>10 DEF Records

LEMMA EnterSaves ==
    ASSUME NEW a \in Publishers, Records, Enter(a)
    PROVE  Records'
<1>1. UNCHANGED <<stored, taken, body, retired, undone>> /\ entered' = entered \cup {a}
      /\ board' = [board EXCEPT ![a] = [here |-> TRUE, surface |-> NoImage]]
  BY DEF Enter
<1>2. board \in Boards /\ taken \in Nat
  BY SurfaceConstantsFit DEF Records, RecordFits
<1>3. board' \in Boards /\ board'[a].surface = NoImage /\ \A x \in Publishers \ {a} : board'[x] = board[x]
  BY <1>1, <1>2, SurfaceConstantsFit DEF Boards, NoImage
<1>4. RecordFits(board', taken, stored, retired)
  BY <1>2, <1>3, FitWithout DEF Records
<1>5. QED BY <1>1, <1>4 DEF Records, BodiesFit

LEMMA ExpirySaves ==
    ASSUME Records, ExpireSurfaces
    PROVE  Records'
<1>1. UNCHANGED <<board, entered, taken, body, undone>> /\ stored' = {} /\ retired' = retired \cup 1..taken
  BY DEF ExpireSurfaces
<1>2. taken \in Nat /\ taken <= taken
  BY SurfaceConstantsFit DEF Records
<1>3. retired' \subseteq Snapshots
  BY <1>1, SurfaceConstantsFit DEF Records, Snapshots
<1>4. ASSUME NEW b, RecordFits(b, taken, stored, retired) PROVE RecordFits(b, taken, {}, retired')
  <2>1. ASSUME NEW a \in Showing(b) PROVE b[a].surface \in retired'
    <3>1. a \in Publishers /\ b[a].surface # NoImage
      BY DEF Showing, HasSurface
    <3>2. b[a].surface \in 0..MaxSnapshots /\ b[a].surface <= taken
      BY <1>4, <3>1, SurfaceOf DEF RecordFits
    <3>3. QED BY <1>1, <1>2, <3>1, <3>2, SurfaceConstantsFit DEF NoImage
  <2>2. QED BY <1>4, <2>1 DEF RecordFits
<1>5. RecordFits(board, taken, stored, retired)' /\ BodiesFit(taken, stored, retired)'
  BY <1>1, <1>4 DEF Records, BodiesFit
<1>6. QED BY <1>1, <1>3, <1>5 DEF Records

LEMMA RecordsStep == Records /\ [SurfacesNext]_surfacevars => Records'
<1> SUFFICES ASSUME Records, [SurfacesNext]_surfacevars PROVE Records'
  OBVIOUS
<1>1. ASSUME RoomKept PROVE Records'
  BY <1>1 DEF RoomKept, Records, BodiesFit
<1>2. ASSUME InstanceDies PROVE Records'
  <2>1. UNCHANGED <<board, entered, stored, taken, retired, undone>>
        /\ body' = [u \in Bodies |-> [at |-> "idle"]]
    BY <1>2 DEF InstanceDies
  <2>2. body' \in [Bodies -> Awaiting] /\ \A u \in Bodies : body'[u].at # "body"
    BY <2>1 DEF Awaiting
  <2>3. QED BY <2>1, <2>2 DEF Records, BodiesFit
<1>3. ASSUME TakeNotice \/ PageReturns \/ PageLeaves \/ UNCHANGED surfacevars
             \/ \E x \in reads : Answered(x) \/ TakeImage(x) \/ ReadLost(x)
      PROVE  RoomKept
  BY <1>3 DEF TakeNotice, PageReturns, PageLeaves, Answered, TakeImage, ReadLost, surfacevars, RoomKept
<1>4. QED
  BY <1>1, <1>2, <1>3, PublishSaves, FailedSaves, BodySaves, WithdrawnSaves, EnterSaves, ExpirySaves
     DEF SurfacesNext, SurfaceSteps, SurfaceFaults

LEMMA RecordsInit == SurfacesInit => Records
<1> SUFFICES ASSUME SurfacesInit PROVE Records
  OBVIOUS
<1>1. board \in Boards /\ \A a \in Publishers : board[a].surface = NoImage
  BY SurfaceConstantsFit DEF SurfacesInit, Boards, NoImage
<1>2. Showing(board) = {}
  BY <1>1 DEF Showing, HasSurface
<1>3. Cardinality(Showing(board)) <= MaxSurfaces
  BY <1>2, FS_EmptySet, SurfaceConstantsFit
<1>4. RecordFits(board, taken, stored, retired)
  <2>1. taken = 0
    BY DEF SurfacesInit
  <2>2. \A a \in Publishers : board[a].surface <= taken
    BY <1>1, <2>1 DEF NoImage
  <2>3. QED BY <1>1, <1>2, <1>3, <2>2 DEF RecordFits
<1>5. body \in [Bodies -> Awaiting] /\ BodiesFit(taken, stored, retired)
  BY DEF SurfacesInit, Awaiting, BodiesFit
<1>6. taken \in 0..MaxSnapshots
  BY SurfaceConstantsFit DEF SurfacesInit
<1>7. QED BY <1>4, <1>5, <1>6 DEF SurfacesInit, Records

\* Wherever a publication fails or the instance ends between its writes, a surface in the
\* record has all its chunks unless its Agent had given it up: the order of the writes of
\* handleSurfaceUpload, for any number of Agents, chunks and uploads.
THEOREM SurfacesStayWhole == SurfacesSpec => []SurfacesAreWhole
<1>1. Records => SurfacesAreWhole
  BY DEF Records, RecordFits, SurfacesAreWhole, HasChunks, Complete
<1>2. QED BY <1>1, RecordsInit, RecordsStep, PTL DEF SurfacesSpec

\* No more Agents than MAX_ACTIVE_AGENT_SURFACES have a surface: the record in which
\* handleSurfaceUpload counts them is the one it saves.
THEOREM SurfacesStayBounded == SurfacesSpec => []SurfacesBounded
<1>1. Records => SurfacesBounded
  BY DEF Records, RecordFits, SurfacesBounded
<1>2. QED BY <1>1, RecordsInit, RecordsStep, PTL DEF SurfacesSpec

-----------------------------------------------------------------------------
(* The page *)

Images == Publishers \X Snapshots \X (0..MaxSnapshots)

\* What the page shows and asks for is of the surfaces it knows, and what it has got is
\* the image of the very snapshot.
PageIsRight ==
    /\ notices \in Seq(Boards) /\ (~screen.open => notices = <<>>)
    /\ screen.open \in BOOLEAN /\ screen.board \in Boards /\ screen.shown \subseteq Images
    /\ screen = [open |-> screen.open, board |-> screen.board, shown |-> screen.shown]
    /\ reads \subseteq Images /\ unread \subseteq Publishers \X Snapshots
    /\ \A x \in screen.shown : x[3] = x[2] /\ KeyOf(x) \in SurfaceKeys(screen.board)
    /\ \A x \in reads : x[3] \in {NoImage, x[2]} /\ KeyOf(x) \in SurfaceKeys(screen.board)

\* A surface the page knows is on show or asked for, or it has lost its image.
Given(k) ==
    \/ k[2] \in retired \/ k \in unread
    \/ \E x \in screen.shown : KeyOf(x) = k
    \/ \E x \in reads : KeyOf(x) = k

LastTold == IF notices = <<>> THEN screen.board ELSE notices[Len(notices)]

\* An open page will know the record; what it was refused is in a state to come no more.
Told ==
    screen.open /\ ~undone =>
        /\ LastTold = board
        /\ \A k \in SurfaceKeys(screen.board) :
            Given(k) \/ \E i \in 1..Len(notices) : k \notin SurfaceKeys(notices[i])

LEMMA ImageFields ==
    ASSUME NEW x \in Images
    PROVE  /\ x[1] \in Publishers /\ x[2] \in Snapshots /\ x[3] \in 0..MaxSnapshots
           /\ x = <<x[1], x[2], x[3]>> /\ KeyOf(x) \in Publishers \X Snapshots
BY DEF Images, KeyOf

LEMMA KeysOfRecord ==
    ASSUME NEW b \in Boards
    PROVE  /\ SurfaceKeys(b) \subseteq Publishers \X Snapshots
           /\ \A a, s : <<a, s>> \in SurfaceKeys(b) <=> a \in Publishers /\ s = b[a].surface /\ s # NoImage
<1>1. ASSUME NEW a \in Publishers, b[a].surface # NoImage PROVE b[a].surface \in Snapshots
  <2>1. b[a].surface \in 0..MaxSnapshots
    BY SurfaceOf
  <2>2. QED BY <1>1, <2>1, SurfaceConstantsFit DEF NoImage, Snapshots
<1>2. \A a, s : <<a, s>> \in SurfaceKeys(b) <=> a \in Publishers /\ s = b[a].surface /\ s # NoImage
  BY DEF SurfaceKeys, Showing, HasSurface
<1>3. QED BY <1>1, <1>2 DEF SurfaceKeys, Showing, HasSurface

LEMMA HeadOfNotices ==
    ASSUME NEW q \in Seq(Boards), q # <<>>
    PROVE  /\ Head(q) = q[1] /\ Head(q) \in Boards /\ Tail(q) \in Seq(Boards)
           /\ Len(q) \in Nat \ {0} /\ Len(Tail(q)) = Len(q) - 1
           /\ \A i \in 1..Len(Tail(q)) : Tail(q)[i] = q[i + 1]
           /\ (Tail(q) = <<>> <=> Len(q) = 1)
<1>1. Head(q) \in Boards /\ Tail(q) \in Seq(Boards) /\ Len(Tail(q)) = Len(q) - 1
      /\ \A i \in 1..Len(Tail(q)) : Tail(q)[i] = q[i + 1]
  BY HeadTailProperties
<1>2. Len(q) \in Nat /\ Len(Tail(q)) \in Nat /\ Len(q) # 0
  BY <1>1, LenProperties, EmptySeq
<1>3. Tail(q) = <<>> <=> Len(Tail(q)) = 0
  BY <1>1, EmptySeq
<1>4. Head(q) = q[1]
  OBVIOUS
<1>5. QED BY <1>1, <1>2, <1>3, <1>4

LEMMA ToldNotices ==
    ASSUME NEW q \in Seq(Boards), NEW b \in Boards
    PROVE  /\ Append(q, b) \in Seq(Boards) /\ Append(q, b) # <<>>
           /\ Len(Append(q, b)) = Len(q) + 1 /\ Append(q, b)[Len(q) + 1] = b
           /\ Len(q) \in Nat /\ \A i \in 1..Len(q) : Append(q, b)[i] = q[i]
BY AppendProperties, LenProperties

\* A step of the room, which tells the page of the record
LEMMA RoomTells ==
    ASSUME PageIsRight, Told, UNCHANGED <<screen, reads, unread, undone>>, board' \in Boards,
           retired \subseteq retired', Tell(board')
    PROVE  PageIsRight' /\ Told'
<1>1. CASE screen.open
  <2>1. notices' = Append(notices, board') /\ notices \in Seq(Boards)
    BY <1>1 DEF Tell, PageIsRight
  <2>2. PageIsRight'
    BY <1>1, <2>1, ToldNotices DEF PageIsRight
  <2>3. LastTold' = board'
    BY <2>1, ToldNotices DEF LastTold
  <2>4. ASSUME NEW k \in SurfaceKeys(screen.board), ~undone
        PROVE  Given(k)' \/ \E i \in 1..Len(notices') : k \notin SurfaceKeys(notices'[i])
    <3>1. Given(k) => Given(k)'
      BY DEF Given
    <3>2. ASSUME NEW i \in 1..Len(notices), k \notin SurfaceKeys(notices[i])
          PROVE  i \in 1..Len(notices') /\ k \notin SurfaceKeys(notices'[i])
      BY <2>1, <3>2, ToldNotices
    <3>3. QED BY <1>1, <2>4, <3>1, <3>2 DEF Told
  <2>5. QED BY <2>2, <2>3, <2>4 DEF Told
<1>2. CASE ~screen.open
  BY <1>2 DEF Tell, PageIsRight, Told
<1>3. QED BY <1>1, <1>2

\* A step of the room that tells nothing
LEMMA RoomIsQuiet ==
    ASSUME PageIsRight, Told, PageKept, retired \subseteq retired', undone' \in BOOLEAN,
           board' = board \/ undone', undone => undone'
    PROVE  PageIsRight' /\ Told'
<1>1. PageIsRight'
  BY DEF PageIsRight, PageKept
<1>2. \A k : Given(k) => Given(k)'
  BY DEF Given, PageKept
<1>3. LastTold' = LastTold
  BY DEF LastTold, PageKept
<1>4. QED BY <1>1, <1>2, <1>3 DEF Told, PageKept

\* The page closes.
LEMMA PageCloses ==
    ASSUME PageIsRight, notices' = <<>>, screen' = [screen EXCEPT !.open = FALSE], UNCHANGED <<reads, unread>>
    PROVE  PageIsRight' /\ Told'
<1>1. screen'.open = FALSE /\ screen'.board = screen.board /\ screen'.shown = screen.shown
      /\ screen' = [open |-> FALSE, board |-> screen.board, shown |-> screen.shown]
  BY DEF PageIsRight
<1>2. UNCHANGED <<reads, unread>> /\ notices' = <<>> /\ notices' \in Seq(Boards)
  OBVIOUS
<1>3. PageIsRight'
  BY <1>1, <1>2 DEF PageIsRight
<1>4. QED BY <1>1, <1>3 DEF Told

\* The page takes a state b, which it is told of or finds when its socket opens.
LEMMA RendersImages ==
    ASSUME PageIsRight, NEW b \in Boards, NEW missing \in SUBSET (Publishers \X Snapshots),
           Renders(b, missing), notices' \in Seq(Boards)
    PROVE  PageIsRight' /\ screen'.open /\ screen'.board = b
<1> DEFINE shown == {x \in screen.shown : KeyOf(x) \in SurfaceKeys(b)}
           asked == {<<k[1], k[2], NoImage>> : k \in SurfaceKeys(b) \ {KeyOf(x) : x \in shown}}
<1>1. screen'.open = TRUE /\ screen'.board = b /\ screen'.shown = shown
      /\ screen' = [open |-> TRUE, board |-> b, shown |-> shown]
  BY DEF Renders
<1>2. shown \subseteq Images /\ \A x \in shown : x[3] = x[2] /\ KeyOf(x) \in SurfaceKeys(b)
  BY DEF PageIsRight
<1>3. reads' \subseteq Images /\ unread' \subseteq Publishers \X Snapshots
      /\ \A x \in reads' : x[3] \in {NoImage, x[2]} /\ KeyOf(x) \in SurfaceKeys(b)
  <2>1. CASE SurfaceKeys(b) = SurfaceKeys(screen.board)
    BY <2>1 DEF Renders, PageIsRight
  <2>2. CASE SurfaceKeys(b) # SurfaceKeys(screen.board)
    <3>1. reads' = asked /\ unread' = {}
      BY <2>2 DEF Renders
    <3>2. ASSUME NEW k \in SurfaceKeys(b)
          PROVE  <<k[1], k[2], NoImage>> \in Images /\ KeyOf(<<k[1], k[2], NoImage>>) = k
      <4>1. k \in Publishers \X Snapshots
        BY KeysOfRecord
      <4>2. NoImage \in 0..MaxSnapshots
        BY SurfaceConstantsFit DEF NoImage
      <4>3. QED BY <4>1, <4>2 DEF Images, KeyOf
    <3>3. QED BY <3>1, <3>2
  <2>3. QED BY <2>1, <2>2
<1>4. QED BY <1>1, <1>2, <1>3 DEF PageIsRight

\* Whatever was refused before, the page has or asks for each surface of a state that
\* changes its surfaces.
LEMMA RendersGives ==
    ASSUME PageIsRight, NEW b \in Boards, NEW missing, Renders(b, missing), retired' = retired,
           NEW k \in SurfaceKeys(b),
           SurfaceKeys(b) = SurfaceKeys(screen.board) => Given(k) \/ k \in missing
    PROVE  Given(k)'
<1> DEFINE shown == {x \in screen.shown : KeyOf(x) \in SurfaceKeys(b)}
<1>1. screen'.shown = shown
  BY DEF Renders
<1>2. CASE SurfaceKeys(b) = SurfaceKeys(screen.board)
  <2>1. UNCHANGED reads /\ unread' = unread \cup missing /\ shown = screen.shown
    BY <1>2 DEF Renders, PageIsRight
  <2>2. QED BY <1>1, <1>2, <2>1 DEF Given
<1>3. CASE SurfaceKeys(b) # SurfaceKeys(screen.board)
  <2>1. reads' = {<<l[1], l[2], NoImage>> : l \in SurfaceKeys(b) \ {KeyOf(x) : x \in shown}}
    BY <1>3 DEF Renders
  <2>2. CASE \E x \in shown : KeyOf(x) = k
    BY <1>1, <2>2 DEF Given
  <2>3. CASE ~\E x \in shown : KeyOf(x) = k
    <3>1. <<k[1], k[2], NoImage>> \in reads'
      BY <2>1, <2>3
    <3>2. KeyOf(<<k[1], k[2], NoImage>>) = k
      BY KeysOfRecord DEF KeyOf
    <3>3. QED BY <3>1, <3>2 DEF Given
  <2>4. QED BY <2>2, <2>3
<1>4. QED BY <1>2, <1>3

LEMMA NoticeTaken ==
    ASSUME PageIsRight, Told, TakeNotice
    PROVE  PageIsRight' /\ Told'
<1> DEFINE b == Head(notices)
<1>1. notices \in Seq(Boards) /\ notices # <<>> /\ notices' = Tail(notices) /\ Renders(b, {})
      /\ UNCHANGED <<board, retired, undone>>
  BY DEF TakeNotice, RoomKept, PageIsRight
<1>2. b \in Boards /\ notices' \in Seq(Boards) /\ b = notices[1]
      /\ Len(notices) \in Nat \ {0} /\ Len(notices') = Len(notices) - 1
      /\ \A i \in 1..Len(notices') : notices'[i] = notices[i + 1]
      /\ (notices' = <<>> <=> Len(notices) = 1)
  BY <1>1, HeadOfNotices
<1>3. PageIsRight' /\ screen'.open /\ screen'.board = b
  BY <1>1, <1>2, RendersImages
<1>4. screen.open
  BY <1>1 DEF PageIsRight
<1>5. LastTold' = LastTold
  <2>1. LastTold = notices[Len(notices)]
    BY <1>1 DEF LastTold
  <2>2. CASE notices' = <<>>
    <3>1. LastTold' = screen'.board
      BY <2>2 DEF LastTold
    <3>2. Len(notices) = 1
      BY <1>2, <2>2
    <3>3. QED BY <1>2, <1>3, <2>1, <3>1, <3>2
  <2>3. CASE notices' # <<>>
    <3>1. Len(notices') \in 1..Len(notices') /\ Len(notices') + 1 = Len(notices)
      BY <1>2, <2>3
    <3>2. QED BY <1>2, <2>1, <2>3, <3>1 DEF LastTold
  <2>4. QED BY <2>2, <2>3
<1>6. ASSUME ~undone, NEW k \in SurfaceKeys(b)
      PROVE  Given(k)' \/ \E i \in 1..Len(notices') : k \notin SurfaceKeys(notices'[i])
  <2>1. CASE SurfaceKeys(b) = SurfaceKeys(screen.board) /\ ~Given(k)
    <3>1. PICK i \in 1..Len(notices) : k \notin SurfaceKeys(notices[i])
      BY <1>4, <1>6, <2>1 DEF Told
    <3>2. i # 1
      BY <1>2, <1>6, <3>1
    <3>3. i - 1 \in 1..Len(notices') /\ (i - 1) + 1 = i
      BY <1>2, <3>1, <3>2
    <3>4. notices'[i - 1] = notices[i]
      BY <1>2, <3>3
    <3>5. QED BY <3>1, <3>3, <3>4
  <2>2. CASE SurfaceKeys(b) # SurfaceKeys(screen.board) \/ Given(k)
    BY <1>1, <1>2, <2>2, RendersGives
  <2>3. QED BY <2>1, <2>2
<1>7. QED BY <1>1, <1>3, <1>4, <1>5, <1>6 DEF Told

LEMMA PageOpens ==
    ASSUME PageIsRight, board \in Boards, PageReturns
    PROVE  PageIsRight' /\ Told'
<1>1. notices' = <<>> /\ Renders(board, Missing) /\ UNCHANGED <<board, retired, undone>>
  BY DEF PageReturns, RoomKept
<1>2. Missing \subseteq Publishers \X Snapshots
  BY KeysOfRecord DEF Missing, PageIsRight
<1>3. PageIsRight' /\ screen'.open /\ screen'.board = board
  BY <1>1, <1>2, RendersImages
<1>4. LastTold' = board'
  BY <1>1, <1>3 DEF LastTold
<1>5. ASSUME NEW k \in SurfaceKeys(board) PROVE Given(k)'
  <2>1. SurfaceKeys(board) = SurfaceKeys(screen.board) => Given(k) \/ k \in Missing
    BY DEF Missing, Given
  <2>2. QED BY <1>1, <2>1, RendersGives
<1>6. QED BY <1>3, <1>4, <1>5 DEF Told

\* The room answers.  What it refuses is not in the record, and so in the last state it
\* told not either; or its chunks are gone.
LEMMA AnswerGiven ==
    ASSUME Records, PageIsRight, Told, NEW x \in reads, Answered(x)
    PROVE  PageIsRight' /\ Told'
<1>1. UNCHANGED <<notices, screen, unread, board, retired, undone>> /\ x[3] = NoImage
      /\ reads' = (reads \ {x}) \cup (IF Served(x) = NoImage THEN {} ELSE {<<x[1], x[2], Served(x)>>})
  BY DEF Answered, RoomKept
<1>2. x \in Images /\ KeyOf(x) \in SurfaceKeys(screen.board)
  BY DEF PageIsRight
<1>3. Served(x) \in {NoImage, x[2]}
  BY DEF Served
<1>4. Served(x) # NoImage => <<x[1], x[2], Served(x)>> \in Images /\ KeyOf(<<x[1], x[2], Served(x)>>) = KeyOf(x)
  <2>1. x[2] \in 0..MaxSnapshots
    BY <1>2, ImageFields, SurfaceConstantsFit DEF Snapshots
  <2>2. QED BY <1>2, <1>3, <2>1, ImageFields DEF Images, KeyOf
<1>5. PageIsRight'
  <2>1. reads' \subseteq Images
    BY <1>1, <1>4 DEF PageIsRight
  <2>2. \A y \in reads' : y[3] \in {NoImage, y[2]} /\ KeyOf(y) \in SurfaceKeys(screen.board)
    BY <1>1, <1>2, <1>3, <1>4 DEF PageIsRight
  <2>3. QED BY <1>1, <2>1, <2>2 DEF PageIsRight
<1>6. \A k : k # KeyOf(x) \/ Served(x) # NoImage => (Given(k) => Given(k)')
  BY <1>1, <1>4 DEF Given
<1>7. ASSUME screen.open, ~undone, Served(x) = NoImage
      PROVE  Given(KeyOf(x))' \/ \E i \in 1..Len(notices) : KeyOf(x) \notin SurfaceKeys(notices[i])
  <2>1. CASE board[x[1]].surface = x[2]
    <3>1. board \in Boards /\ x[1] \in Publishers /\ x[2] \in Snapshots /\ KeyOf(x)[2] = x[2]
      BY <1>2, ImageFields DEF Records, RecordFits, KeyOf
    <3>2. x[2] # NoImage
      BY <3>1 DEF Snapshots, NoImage
    <3>3. ~HasChunks(x[2])
      BY <1>7, <2>1, <3>2 DEF Served
    <3>4. x[2] \in retired
      BY <2>1, <3>1, <3>2, <3>3 DEF Records, RecordFits, Showing, HasSurface, Complete, HasChunks
    <3>5. QED BY <1>1, <3>1, <3>4 DEF Given
  <2>2. CASE board[x[1]].surface # x[2]
    <3>1. KeyOf(x) \notin SurfaceKeys(board)
      <4>1. board \in Boards
        BY DEF Records, RecordFits
      <4>2. QED BY <2>2, <4>1, KeysOfRecord DEF KeyOf
    <3>2. notices # <<>> /\ notices[Len(notices)] = board
      BY <1>2, <1>7, <3>1 DEF Told, LastTold
    <3>3. Len(notices) \in 1..Len(notices)
      BY <3>2, HeadOfNotices DEF PageIsRight
    <3>4. QED BY <3>1, <3>2, <3>3
  <2>3. QED BY <2>1, <2>2
<1>8. ASSUME screen.open, ~undone, NEW k \in SurfaceKeys(screen.board)
      PROVE  Given(k)' \/ \E i \in 1..Len(notices) : k \notin SurfaceKeys(notices[i])
  <2>1. CASE k = KeyOf(x) /\ Served(x) = NoImage
    BY <1>7, <1>8, <2>1
  <2>2. CASE k # KeyOf(x) \/ Served(x) # NoImage
    BY <1>6, <1>8, <2>2 DEF Told
  <2>3. QED BY <2>1, <2>2
<1>9. LastTold' = LastTold
  BY <1>1 DEF LastTold
<1>10. QED BY <1>1, <1>5, <1>8, <1>9 DEF Told

\* An answer is lost, or reaches the page.
LEMMA AnswerComes ==
    ASSUME PageIsRight, Told, NEW x \in reads, ReadLost(x) \/ TakeImage(x)
    PROVE  PageIsRight' /\ Told'
<1>1. UNCHANGED <<notices, board, retired, undone>> /\ reads' = reads \ {x}
  BY DEF ReadLost, TakeImage, RoomKept
<1>2. x \in Images /\ KeyOf(x) \in SurfaceKeys(screen.board) /\ KeyOf(x) \in Publishers \X Snapshots
  BY ImageFields DEF PageIsRight
<1>3. screen'.open = screen.open /\ screen'.board = screen.board
      /\ screen' = [open |-> screen.open, board |-> screen.board, shown |-> screen'.shown]
  BY DEF ReadLost, TakeImage, PageIsRight
<1>4. \/ UNCHANGED screen /\ unread' = unread \cup {KeyOf(x)}
      \/ UNCHANGED unread /\ screen'.shown = screen.shown \cup {x} /\ x[3] = x[2]
  <2>1. CASE ReadLost(x)
    BY <2>1 DEF ReadLost
  <2>2. CASE TakeImage(x)
    BY <2>2 DEF TakeImage, PageIsRight
  <2>3. QED BY <2>1, <2>2
<1>5. PageIsRight'
  BY <1>1, <1>2, <1>3, <1>4 DEF PageIsRight
<1>6. ASSUME NEW k, Given(k) PROVE Given(k)'
  BY <1>1, <1>4, <1>6 DEF Given
<1>7. LastTold' = LastTold
  BY <1>1, <1>3 DEF LastTold
<1>8. QED BY <1>1, <1>3, <1>5, <1>6, <1>7 DEF Told

LEMMA PagesStep == Records /\ PageIsRight /\ Told /\ [SurfacesNext]_surfacevars => PageIsRight' /\ Told'
<1> SUFFICES ASSUME Records, PageIsRight, Told, [SurfacesNext]_surfacevars PROVE PageIsRight' /\ Told'
  OBVIOUS
<1>1. Records'
  BY RecordsStep
<1>2. board' \in Boards /\ board \in Boards /\ undone \in BOOLEAN /\ undone' \in BOOLEAN
  BY <1>1 DEF Records, RecordFits
<1>3. ASSUME NEW a \in Publishers, Enter(a) \/ ClearSurface(a) \/ Leave(a) PROVE PageIsRight' /\ Told'
  <2>1. UNCHANGED <<screen, reads, unread, undone>> /\ Tell(board') /\ retired \subseteq retired'
    BY <1>3 DEF Enter, ClearSurface, Leave, Withdraws
  <2>2. QED BY <1>2, <2>1, RoomTells
<1>4. ASSUME NEW u \in Bodies, PublishSurface(u) PROVE PageIsRight' /\ Told'
  <2>1. UNCHANGED <<screen, reads, unread, undone>> /\ Tell(board') /\ retired \subseteq retired'
    BY <1>4 DEF PublishSurface
  <2>2. QED BY <1>2, <2>1, RoomTells
<1>5. ASSUME NEW u \in Bodies,
             \/ Refused(u) \/ Attach(u) \/ PublishFails(u)
             \/ \E who \in Publishers \cup {Visitor} : BeginBody(u, who)
      PROVE  PageIsRight' /\ Told'
  <2>1. PageKept /\ retired \subseteq retired' /\ (board' = board \/ undone') /\ (undone => undone')
    <3>1. CASE Attach(u)
      BY <1>2, <3>1 DEF Attach
    <3>2. CASE ~Attach(u)
      BY <1>5, <3>2 DEF Refused, PublishFails, BeginBody
    <3>3. QED BY <3>1, <3>2
  <2>2. QED BY <1>2, <2>1, RoomIsQuiet
<1>6. ASSUME ExpireSurfaces PROVE PageIsRight' /\ Told'
  <2>1. PageKept /\ retired \subseteq retired' /\ UNCHANGED <<board, undone>>
    BY <1>6 DEF ExpireSurfaces
  <2>2. QED BY <1>2, <2>1, RoomIsQuiet
<1>7. ASSUME InstanceDies \/ PageLeaves PROVE PageIsRight' /\ Told'
  BY <1>7, PageCloses DEF InstanceDies, PageLeaves
<1>8. ASSUME UNCHANGED surfacevars PROVE PageIsRight' /\ Told'
  BY <1>8, <1>2, RoomIsQuiet DEF surfacevars, PageKept
<1>9. QED
  BY <1>2, <1>3, <1>4, <1>5, <1>6, <1>7, <1>8, NoticeTaken, PageOpens, AnswerGiven, AnswerComes
     DEF SurfacesNext, SurfaceSteps, SurfaceFaults

LEMMA PagesInit == SurfacesInit => PageIsRight /\ Told
<1> SUFFICES ASSUME SurfacesInit PROVE PageIsRight /\ Told
  OBVIOUS
<1>1. board \in Boards
  BY RecordsInit DEF Records, RecordFits
<1>2. screen = [open |-> TRUE, board |-> board, shown |-> {}] /\ notices = <<>> /\ reads = {} /\ unread = {}
  BY DEF SurfacesInit
<1>3. PageIsRight
  BY <1>1, <1>2 DEF PageIsRight
<1>4. SurfaceKeys(board) = {}
  BY DEF SurfacesInit, SurfaceKeys, Showing, HasSurface
<1>5. QED BY <1>2, <1>3, <1>4 DEF Told, LastTold

LEMMA ShownWhenTold == Records /\ PageIsRight /\ Told => SurfacesAreShown
<1> SUFFICES ASSUME Records, PageIsRight, Told PROVE SurfacesAreShown
  OBVIOUS
<1>1. ASSUME screen.open, notices = <<>>, reads = {}, ~undone, NEW k \in SurfaceKeys(board)
      PROVE  k[2] \in retired \/ k \in unread \/ \E x \in screen.shown : KeyOf(x) = k
  <2>1. screen.board = board
    BY <1>1 DEF Told, LastTold
  <2>2. Len(notices) = 0
    BY <1>1, EmptySeq
  <2>3. Given(k)
    BY <1>1, <2>1, <2>2 DEF Told
  <2>4. QED BY <1>1, <2>3 DEF Given
<1>2. QED BY <1>1 DEF SurfacesAreShown, PageIsRight

\* The record, the chunks, the uploads and the page keep their types: do/RoomSession.ts
\* and components/WorkspaceSnapshots.tsx.
THEOREM SurfaceTypesCorrect == SurfacesSpec => []SurfacesTypeOK
<1>1. Records /\ PageIsRight => SurfacesTypeOK
  <2> SUFFICES ASSUME Records, PageIsRight PROVE SurfacesTypeOK
    OBVIOUS
  <2>1. screen.shown \subseteq Publishers \X Snapshots \X Snapshots
    BY ImageFields DEF PageIsRight
  <2>2. screen \in [open : BOOLEAN, board : Boards, shown : SUBSET (Publishers \X Snapshots \X Snapshots)]
    BY <2>1 DEF PageIsRight
  <2>3. QED BY <2>2 DEF SurfacesTypeOK, Records, RecordFits, PageIsRight, Images, SurfaceChunks
<1>2. QED BY <1>1, RecordsInit, RecordsStep, PagesInit, PagesStep, PTL DEF SurfacesSpec

\* The page shows no other image than the one it names, and when nothing is on its way it
\* shows each surface of the record that it can: WorkspaceSnapshots asks again whenever a
\* surface is another, and agent-read-surface answers with the very snapshot or not at all.
THEOREM SurfacesReachThePage == SurfacesSpec => []SurfacesAreShown
BY ShownWhenTold, RecordsInit, RecordsStep, PagesInit, PagesStep, PTL DEF SurfacesSpec

\* Whatever publications, uploads, clears, departures, evictions and reconnects overlap, the
\* record names surfaces that can be read and are within the bound, and the page shows them.
THEOREM SurfacesAlwaysHold == SurfacesSpec => []SurfacesHold
BY SurfacesStayWhole, SurfacesStayBounded, SurfacesReachThePage, PTL DEF SurfacesHold

-----------------------------------------------------------------------------
(* Part 6.  What a browser receives of another participant *)

(* What a browser tells the room on its sockets: of a negotiation only one of R, those
   that were completed *)

Said(R) == [kind : {"resync", "close"}] \cup [kind : {"voice-ready"}, session : R]

InRoom == [session : Nat, connected : BOOLEAN, booked : BOOLEAN, shown : BOOLEAN, ready : BOOLEAN]

TracksAcked ==
    /\ media \in InRoom
    /\ served \subseteq acked
    /\ media.ready => media.session \in acked
    /\ toRoom \in [Tracks!Numbers -> Seq(Said(acked))]

\* The bookkeeping t of a browser, of whose tracks none but R are ready
Book(t, R) == "ready" \in DOMAIN t /\ t.ready \subseteq R

LEMMA Unmarked ==
    ASSUME NEW t, NEW R, Book(t, R), NEW key, NEW mid
    PROVE  Book(Tracks!Unmark(t, key), R) /\ Book(Tracks!Unbind(t, mid), R)
BY DEF Book, Tracks!Unmark, Tracks!Unbind

LEMMA ResetBook ==
    ASSUME NEW t, NEW R, Book(t, R), NEW key
    PROVE  Book(Tracks!ResetParticipant(t), R) /\ Book(Tracks!ResetTrack(t, key), R)
BY DEF Book, Tracks!ResetParticipant, Tracks!ResetTrack, Tracks!Unmark

LEMMA SubscribedBook ==
    ASSUME NEW t, NEW R, Book(t, R), NEW key, NEW attempt
    PROVE  Book(Tracks!Subscribe(t, key, attempt), R)
BY DEF Book, Tracks!Subscribe

LEMMA AppliedBook ==
    ASSUME NEW t, NEW R, Book(t, R), NEW state, NEW key
    PROVE  Book(Tracks!Apply(t, state), R) /\ Book(Tracks!ApplyPublished(t, key), R)
BY ResetBook DEF Tracks!Apply, Tracks!ApplyPublished

LEMMA BookNow ==
    ASSUME served \subseteq acked
    PROVE  Book(Tracks!Now, acked)
BY DEF Book, Tracks!Now

LEMMA BookKept ==
    ASSUME NEW t, NEW R, Book(t, R), NEW op
    PROVE  /\ Book(Tracks!Done(t), R) /\ Book(Tracks!Schedule(t, op), R)
           /\ Book(Tracks!OnTrack(t, op), R) /\ Book([t EXCEPT !.queue[1].step = "renegotiating"], R)
BY DEF Book, Tracks!Done, Tracks!Schedule, Tracks!OnTrack

LEMMA BookOfOp ==
    ASSUME served \subseteq acked, NEW op
    PROVE  /\ Book(Tracks!Step(op), acked) /\ Book(Tracks!Cancelled(op), acked)
           /\ Book(Tracks!Failed(op), acked)
<1>1. Book(Tracks!Now, acked)
  BY BookNow
<1>2. Book(Tracks!Step(op), acked)
  BY <1>1 DEF Book, Tracks!Step
<1>3. Book(Tracks!Cancelled(op), acked)
  BY <1>1, Unmarked DEF Tracks!Cancelled
<1>4. Book(Tracks!Failed(op), acked)
  <2> DEFINE t == Tracks!Unbind(Tracks!Now, op.mid)
  <2>1. Book(t, acked) /\ Book(Tracks!Unmark(t, op.key), acked)
    BY <1>1, Unmarked
  <2>2. Book([t EXCEPT !.marked = @ \cup {op.key}, !.ready = @ \ {op.key}], acked)
    BY <2>1 DEF Book
  <2>3. QED BY <1>1, <2>1, <2>2 DEF Tracks!Failed
<1> QED BY <1>2, <1>3, <1>4

LEMMA BecomesBook ==
    ASSUME NEW t, NEW R, Book(t, R), Tracks!Becomes(t)
    PROVE  served' \subseteq R
BY DEF Book, Tracks!Becomes

Tells(R) == [Tracks!Numbers -> Seq(Said(R))]

LEMMA SaidMore ==
    ASSUME NEW R, NEW Q, R \subseteq Q
    PROVE  Tells(R) \subseteq Tells(Q)
<1>1. Said(R) \subseteq Said(Q)
  BY DEF Said
<1>2. Seq(Said(R)) \subseteq Seq(Said(Q))
  BY <1>1
<1> QED BY <1>2 DEF Tells

LEMMA Told1 ==
    ASSUME NEW R, toRoom \in Tells(R), NEW frame \in Said(R), Tracks!Tell(frame)
    PROVE  toRoom' \in Tells(R)
<1>1. CASE ~control.open
  BY <1>1 DEF Tracks!Tell
<1>2. CASE control.open
  <2>1. toRoom' = [toRoom EXCEPT ![control.last] = Append(@, frame)]
    BY <1>2 DEF Tracks!Tell
  <2>2. ASSUME NEW n \in Tracks!Numbers PROVE toRoom'[n] \in Seq(Said(R))
    <3>1. toRoom[n] \in Seq(Said(R))
      BY DEF Tells
    <3>2. Append(toRoom[n], frame) \in Seq(Said(R))
      BY <3>1, AppendProperties
    <3>3. QED BY <2>1, <3>1, <3>2 DEF Tells
  <2>3. toRoom' = [n \in Tracks!Numbers |-> toRoom'[n]]
    BY <2>1 DEF Tells
  <2> QED BY <2>2, <2>3 DEF Tells
<1> QED BY <1>1, <1>2

LEMMA ClosedSocket ==
    ASSUME NEW R, toRoom \in Tells(R), NEW left, left \in {<<>>, toRoom[control.last]},
           Tracks!Closes(left)
    PROVE  toRoom' \in Tells(R)
<1>1. toRoom' = [toRoom EXCEPT ![control.last] = left \o <<[kind |-> "close"]>>]
  BY DEF Tracks!Closes
<1>2. <<[kind |-> "close"]>> \in Seq(Said(R)) /\ <<>> \in Seq(Said(R))
  BY DEF Said
<1>3. ASSUME NEW n \in Tracks!Numbers PROVE toRoom'[n] \in Seq(Said(R))
  <2>1. toRoom[n] \in Seq(Said(R))
    BY DEF Tells
  <2>2. CASE n = control.last
    <3>1. left \in Seq(Said(R))
      BY <1>2, <2>1, <2>2
    <3>2. QED BY <1>1, <1>2, <2>2, <3>1, ConcatProperties DEF Tells
  <2>3. CASE n # control.last
    BY <1>1, <2>1, <2>3 DEF Tells
  <2> QED BY <2>2, <2>3
<1>4. toRoom' = [n \in Tracks!Numbers |-> toRoom'[n]]
  BY <1>1 DEF Tells
<1> QED BY <1>3, <1>4 DEF Tells

LEMMA ReconnectTells ==
    ASSUME NEW R, toRoom \in Tells(R), Tracks!RequestReconnect
    PROVE  toRoom' \in Tells(R)
BY ClosedSocket DEF Tracks!RequestReconnect

LEMMA ResubscribedAcked ==
    ASSUME NEW t, Book(t, acked), toRoom \in Tells(acked), NEW v, NEW connected,
           Tracks!Resubscribe(t, v, connected)
    PROVE  served' \subseteq acked /\ toRoom' \in Tells(acked)
<1>1. Book(Tracks!Subscribe(t, v.session, 1), acked)
  BY SubscribedBook
<1>2. served' \subseteq acked
  BY <1>1, BecomesBook DEF Tracks!Resubscribe
<1>3. ASSUME v.session \in t.marked \cap t.ready, Tracks!Tell(Tracks!VoiceReady(v.session))
      PROVE  toRoom' \in Tells(acked)
  <2>1. Tracks!VoiceReady(v.session) \in Said(acked)
    BY <1>3 DEF Book, Said, Tracks!VoiceReady
  <2>2. QED BY <1>3, <2>1, Told1
<1> QED BY <1>2, <1>3 DEF Tracks!Resubscribe

LEMMA RoomStepsAcked ==
    ASSUME TracksAcked, Tracks!RoomStep
    PROVE  TracksAcked'
<1> USE DEF TracksAcked, InRoom, Tracks!RoomOnly, Tracks!Others, Tracks!tracks, Tracks!NoMedia
<1>1. CASE Tracks!NextSession
  <2>1. /\ media' = [session |-> media.session + 1, connected |-> what = "agent",
                     booked |-> FALSE, shown |-> FALSE, ready |-> FALSE]
        /\ served' = served /\ acked' = acked /\ toRoom' = toRoom
    BY <1>1 DEF Tracks!NextSession
  <2>2. media' \in InRoom /\ ~media'.ready
    BY <2>1
  <2> QED BY <2>1, <2>2
<1>2. CASE Tracks!Returns
  BY <1>2 DEF Tracks!Returns
<1>3. CASE Tracks!Disconnects
  BY <1>3 DEF Tracks!Disconnects
<1>4. CASE Tracks!Publishes
  BY <1>4 DEF Tracks!Publishes
<1>5. CASE Tracks!Announces
  BY <1>5 DEF Tracks!Announces
<1>6. CASE Tracks!StopsPublishing
  BY <1>6 DEF Tracks!StopsPublishing
<1>7. CASE Tracks!Unpublishes
  BY <1>7 DEF Tracks!Unpublishes
<1>8. CASE Tracks!Revoked
  BY <1>8 DEF Tracks!Revoked
<1>9. CASE Tracks!OtherLeaves
  BY <1>9 DEF Tracks!OtherLeaves
<1> QED BY <1>1, <1>2, <1>3, <1>4, <1>5, <1>6, <1>7, <1>8, <1>9 DEF Tracks!RoomStep

LEMMA RoomHearsAcked ==
    ASSUME TracksAcked, NEW n \in Tracks!Numbers, Tracks!RoomHears(n)
    PROVE  TracksAcked'
<1> DEFINE frame == Head(toRoom[n])
<1>1. toRoom[n] \in Seq(Said(acked)) /\ toRoom[n] # <<>>
  BY DEF TracksAcked, Tracks!RoomHears
<1>2. frame \in Said(acked) /\ Tail(toRoom[n]) \in Seq(Said(acked))
  BY <1>1, HeadTailProperties
<1>3. /\ toRoom' = [toRoom EXCEPT ![n] = Tail(@)]
      /\ served' = served /\ acked' = acked
  BY DEF Tracks!RoomHears, Tracks!tracks, Tracks!history
<1>4. toRoom' \in Tells(acked)
  BY <1>2, <1>3 DEF TracksAcked, Tells
<1>5. media' \in InRoom /\ (media'.ready => media'.session \in acked)
  <2>1. CASE frame.kind = "resync" /\ UNCHANGED media
    BY <2>1 DEF TracksAcked
  <2>2. CASE frame.kind = "voice-ready" /\ Tracks!HearOfReady(frame.session)
    <3>1. frame.session \in acked
      BY <1>2, <2>2 DEF Said
    <3>2. QED BY <2>2, <3>1 DEF TracksAcked, InRoom, Tracks!HearOfReady
  <2>3. CASE frame.kind = "close" /\ Tracks!HearOfClose(n)
    BY <2>3 DEF TracksAcked, InRoom, Tracks!HearOfClose
  <2> QED BY <2>1, <2>2, <2>3 DEF Tracks!RoomHears
<1> QED BY <1>3, <1>4, <1>5 DEF TracksAcked, Tells

\* The steps of a browser that leave the room and the acknowledgements alone
LEMMA BrowserAcked ==
    ASSUME TracksAcked, UNCHANGED <<media, acked>>, served' \subseteq acked, toRoom' \in Tells(acked)
    PROVE  TracksAcked'
BY DEF TracksAcked, Tells

LEMMA SocketStepsAcked ==
    ASSUME TracksAcked,
           \/ Tracks!BrowserHears \/ Tracks!Connects \/ Tracks!Opens \/ Tracks!ReplacePc
           \/ Tracks!RoomReconnects \/ Tracks!ReconnectStep
    PROVE  TracksAcked'
<1>1. Book(Tracks!Now, acked) /\ toRoom \in Tells(acked) /\ served \subseteq acked
  BY BookNow DEF TracksAcked, Tells
<1> USE DEF Tracks!roomvars, Tracks!tracks, Tracks!history
<1>2. CASE Tracks!BrowserHears
  <2>1. media' = media /\ acked' = acked
    BY <1>2 DEF Tracks!BrowserHears
  <2>2. PICK t : Book(t, acked) /\ \E v, c : Tracks!Resubscribe(t, v, c)
    <3>1. \A s, k : Book(Tracks!Apply(Tracks!Now, s), acked) /\ Book(Tracks!ApplyPublished(Tracks!Now, k), acked)
      BY <1>1, AppliedBook
    <3>2. QED BY <1>2, <3>1 DEF Tracks!BrowserHears
  <2>3. QED BY <1>1, <2>1, <2>2, ResubscribedAcked, BrowserAcked
<1>3. CASE Tracks!Connects
  <2>1. Tracks!Resubscribe(Tracks!Now, view, TRUE) /\ media' = media /\ acked' = acked
    BY <1>3 DEF Tracks!Connects
  <2>2. QED BY <1>1, <2>1, ResubscribedAcked, BrowserAcked
<1>4. CASE Tracks!Opens
  <2>1. /\ toRoom' = [toRoom EXCEPT ![control.last + 1] = <<[kind |-> "resync"]>>]
        /\ media' = media /\ acked' = acked /\ served' = served
    BY <1>4 DEF Tracks!Opens
  <2>2. <<[kind |-> "resync"]>> \in Seq(Said(acked))
    BY DEF Said
  <2>3. toRoom' \in Tells(acked)
    BY <1>1, <2>1, <2>2 DEF Tells
  <2> QED BY <1>1, <2>1, <2>3, BrowserAcked
<1>5. CASE Tracks!ReplacePc
  <2>1. media' = media /\ acked' = acked /\ toRoom' = toRoom /\ Tracks!Becomes(Tracks!ResetParticipant(Tracks!Now))
    BY <1>5 DEF Tracks!ReplacePc
  <2>2. QED BY <1>1, <2>1, ResetBook, BecomesBook, BrowserAcked
<1>6. CASE Tracks!RoomReconnects \/ Tracks!ReconnectStep
  BY <1>1, <1>6, BrowserAcked DEF Tracks!RoomReconnects, Tracks!ReconnectStep
<1> QED BY <1>2, <1>3, <1>4, <1>5, <1>6

LEMMA OperationStepsAcked ==
    ASSUME TracksAcked,
           \/ Tracks!Begin \/ Tracks!TracksNew \/ Tracks!Describe \/ Tracks!Renegotiate
           \/ Tracks!TracksNewFails \/ Tracks!DescribeSilently \/ Tracks!RenegotiateFails
           \/ \E r \in retries : Tracks!RetryFires(r)
    PROVE  TracksAcked'
<1>1. Book(Tracks!Now, acked) /\ toRoom \in Tells(acked) /\ served \subseteq acked
  BY BookNow DEF TracksAcked, Tells
<1>2. media' = media /\ acked' = acked /\ toRoom' = toRoom
  BY DEF Tracks!Begin, Tracks!TracksNew, Tracks!Describe, Tracks!Renegotiate, Tracks!TracksNewFails,
         Tracks!DescribeSilently, Tracks!RenegotiateFails, Tracks!RetryFires, Tracks!InBrowser,
         Tracks!AtSfu, Tracks!roomvars, Tracks!history
<1>3. \E t : Book(t, acked) /\ Tracks!Becomes(t)
  <2>1. CASE \E op : Tracks!Give(op)
    BY <1>1, <2>1, BookOfOp DEF Tracks!Give
  <2>2. CASE Tracks!Begin
    <3>1. CASE Tracks!Current(Tracks!Op)
      BY <2>1, <2>2, <3>1 DEF Tracks!Begin
    <3>2. CASE ~Tracks!Current(Tracks!Op)
      <4>1. Book(Tracks!Cancelled(Tracks!Op), acked) /\ Book(Tracks!Unmark(Tracks!Now, Tracks!Op.key), acked)
        BY <1>1, BookOfOp, Unmarked
      <4>2. QED BY <2>2, <3>2, <4>1, BookKept DEF Tracks!Begin
    <3> QED BY <3>1, <3>2
  <2>3. CASE Tracks!TracksNew \/ Tracks!Renegotiate
    BY <2>1, <2>3 DEF Tracks!TracksNew, Tracks!Renegotiate
  <2>4. CASE Tracks!TracksNewFails \/ Tracks!DescribeSilently \/ Tracks!RenegotiateFails
    BY <2>1, <2>4 DEF Tracks!TracksNewFails, Tracks!DescribeSilently, Tracks!RenegotiateFails
  <2>5. CASE Tracks!Describe
    <3> DEFINE t == Tracks!OnTrack(Tracks!Now, Tracks!Op)
    <3>1. Book([t EXCEPT !.queue[1].step = "renegotiating"], acked)
      BY <1>1, BookKept
    <3>2. Book(Tracks!Done(Tracks!Cancelled(Tracks!Op)), acked)
      BY <1>1, BookOfOp, BookKept
    <3>3. QED BY <2>5, <3>1, <3>2 DEF Tracks!Describe
  <2>6. CASE \E r \in retries : Tracks!RetryFires(r)
    <3>1. PICK r \in retries : Tracks!RetryFires(r)
      BY <2>6
    <3> DEFINE t == [Tracks!Now EXCEPT !.retries = @ \ {r}]
               unmarked == Tracks!Unmark(t, r.key)
    <3>2. Book(t, acked)
      BY <1>1 DEF Book
    <3>3. Book(unmarked, acked) /\ Book(Tracks!Subscribe(unmarked, r.key, r.attempt), acked)
      BY <3>2, Unmarked, SubscribedBook
    <3>4. QED BY <3>1, <3>2, <3>3 DEF Tracks!RetryFires
  <2> QED BY <2>2, <2>3, <2>4, <2>5, <2>6
<1>4. QED BY <1>1, <1>2, <1>3, BecomesBook, BrowserAcked

LEMMA EndsAcked ==
    ASSUME TracksAcked,
           \/ Tracks!Drops \/ Tracks!PcFails \/ Tracks!ReconnectFails \/ Tracks!TakeAnswer
           \/ \E b \in bindings : Tracks!Timeout(b)
    PROVE  TracksAcked'
<1>1. Book(Tracks!Now, acked) /\ toRoom \in Tells(acked) /\ served \subseteq acked
  BY BookNow DEF TracksAcked, Tells
<1> USE DEF Tracks!roomvars, Tracks!tracks, Tracks!history
<1>2. media' = media /\ acked' = acked
  BY DEF Tracks!Drops, Tracks!PcFails, Tracks!ReconnectFails, Tracks!TakeAnswer, Tracks!Timeout
<1>3. toRoom' \in Tells(acked)
  <2>1. CASE toRoom' = toRoom
    BY <1>1, <2>1
  <2>2. CASE Tracks!RequestReconnect
    BY <1>1, <2>2, ReconnectTells
  <2>3. CASE Tracks!Drops
    BY <1>1, <2>3, ClosedSocket DEF Tracks!Drops
  <2> QED BY <2>1, <2>2, <2>3 DEF Tracks!PcFails, Tracks!ReconnectFails, Tracks!TakeAnswer, Tracks!Timeout
<1>4. served' \subseteq acked
  <2>1. CASE Tracks!Drops \/ Tracks!PcFails \/ Tracks!ReconnectFails
    BY <1>1, <2>1 DEF Tracks!Drops, Tracks!PcFails, Tracks!ReconnectFails
  <2>2. CASE Tracks!TakeAnswer
    <3> DEFINE op == Tracks!Op
               marks == [Tracks!Now EXCEPT !.marked = @ \cup {op.key}, !.ready = @ \ {op.key}]
               binds == [Tracks!Step([op EXCEPT !.step = "describing"]) EXCEPT
                            !.bindings = @ \cup {[mid |-> op.mid, key |-> op.key]}]
    <3>1. Book(marks, acked)
      BY <1>1 DEF Book
    <3>2. Book(binds, acked)
      BY <1>1, BookOfOp DEF Book
    <3>3. /\ Book(Tracks!Failed(op), acked) /\ Book(Tracks!Cancelled(op), acked)
          /\ Book(Tracks!Schedule(Tracks!Now, op), acked) /\ Book(Tracks!Unmark(Tracks!Now, op.key), acked)
      BY <1>1, BookOfOp, BookKept, Unmarked
    <3>4. \E t : Book(t, acked) /\ Tracks!Becomes(t)
      <4> DEFINE ends == IF Tracks!Retriable(op) THEN Tracks!Schedule(Tracks!Now, op)
                         ELSE Tracks!Unmark(Tracks!Now, op.key)
      <4>1. /\ Book(Tracks!Done(marks), acked) /\ Book(Tracks!Done(Tracks!Failed(op)), acked)
            /\ Book(Tracks!Done(Tracks!Cancelled(op)), acked) /\ Book(Tracks!Done(ends), acked)
        BY <3>1, <3>3, BookKept
      <4>2. \/ Tracks!Becomes(Tracks!Done(marks)) \/ Tracks!Becomes(Tracks!Done(Tracks!Failed(op)))
            \/ Tracks!Becomes(Tracks!Done(Tracks!Cancelled(op))) \/ Tracks!Becomes(binds)
            \/ Tracks!Becomes(Tracks!Done(ends))
        BY <2>2 DEF Tracks!TakeAnswer
      <4> QED BY <3>2, <4>1, <4>2
    <3> QED BY <3>4, BecomesBook
  <2>3. CASE \E b \in bindings : Tracks!Timeout(b)
    <3>1. PICK b \in bindings : Tracks!Timeout(b)
      BY <2>3
    <3>2. Book(Tracks!Unbind(Tracks!Now, b.mid), acked)
      BY <1>1, Unmarked
    <3>3. Book([Tracks!Unbind(Tracks!Now, b.mid) EXCEPT !.marked = @ \cup {b.key}, !.ready = @ \ {b.key}], acked)
      BY <3>2 DEF Book
    <3>4. QED BY <3>1, <3>2, <3>3, BecomesBook DEF Tracks!Timeout
  <2> QED BY <2>1, <2>2, <2>3
<1> QED BY <1>2, <1>3, <1>4, BrowserAcked

LEMMA RenegotiatedAcked ==
    ASSUME TracksAcked, Tracks!Renegotiated
    PROVE  TracksAcked'
<1> DEFINE op == Tracks!Op
<1>1. Book(Tracks!Now, acked) /\ toRoom \in Tells(acked) /\ served \subseteq acked
  BY BookNow DEF TracksAcked, Tells
<1>2. media' = media
  BY DEF Tracks!Renegotiated, Tracks!InBrowser, Tracks!roomvars
<1>3. CASE acked' = acked /\ toRoom' = toRoom /\ \E t : Book(t, acked) /\ Tracks!Becomes(Tracks!Done(t))
  BY <1>1, <1>2, <1>3, BookKept, BecomesBook, BrowserAcked
<1>4. CASE /\ acked' = acked \cup {op.key} /\ Tracks!Tell(Tracks!VoiceReady(op.key))
           /\ Tracks!Becomes(Tracks!Done([Tracks!Now EXCEPT !.ready = @ \cup {op.key}]))
  <2>1. toRoom \in Tells(acked')
    BY <1>1, <1>4, SaidMore
  <2>2. Tracks!VoiceReady(op.key) \in Said(acked')
    BY <1>4 DEF Said, Tracks!VoiceReady
  <2>3. toRoom' \in Tells(acked')
    BY <1>4, <2>1, <2>2, Told1
  <2>4. Book([Tracks!Now EXCEPT !.ready = @ \cup {op.key}], acked')
    BY <1>1, <1>4 DEF Book
  <2>5. served' \subseteq acked'
    BY <1>4, <2>4, BookKept, BecomesBook
  <2> QED BY <1>2, <1>4, <2>3, <2>5 DEF TracksAcked, Tells
<1>5. Book(Tracks!Failed(op), acked) /\ Book(Tracks!Cancelled(op), acked)
  BY <1>1, BookOfOp
<1> QED BY <1>1, <1>3, <1>4, <1>5 DEF Tracks!Renegotiated, Tracks!history

LEMMA TracksAckedStep ==
    ASSUME TracksAcked, Tracks!Next
    PROVE  TracksAcked'
<1>1. CASE Tracks!RoomStep
  BY <1>1, RoomStepsAcked
<1>2. CASE Tracks!Failure
  BY <1>2, EndsAcked, OperationStepsAcked DEF Tracks!Failure
<1>3. CASE Tracks!Progress
  BY <1>3, RoomHearsAcked, SocketStepsAcked, OperationStepsAcked, EndsAcked, RenegotiatedAcked
     DEF Tracks!Progress
<1> QED BY <1>1, <1>2, <1>3 DEF Tracks!Next

-----------------------------------------------------------------------------
(* One lane *)

Lane == {"ops", "owner", "ready", "retry", "givenUp", "overtaken"}
Holds(t, n, steps) ==
    t.ops[n].step \in steps /\ ~t.ops[n].closed /\ t.ops[n].session # 0

\* The bookkeeping t of a lane: what is open is of the attempt that owns the lane or of the
\* channel that serves it.
LaneFits(t) ==
    /\ Lane \subseteq DOMAIN t
    /\ t.ops = [n \in Channels!Slots |-> t.ops[n]]
    /\ \A n \in Channels!Slots : {"session", "media", "step", "closed"} \subseteq DOMAIN t.ops[n]
    /\ t.owner \in Channels!Slots \cup {0} /\ t.ready \in Channels!Slots \cup {0}
    /\ t.owner = 0 \/ t.ready = 0
    /\ t.owner # 0 => Holds(t, t.owner, {"asked", "answered", "refused", "opening"})
    /\ t.ready # 0 => Holds(t, t.ready, {"ready"})
    /\ \A n \in Channels!Slots :
        /\ t.ops[n].step = "opening" /\ ~t.ops[n].closed => n = t.owner
        /\ t.ops[n].step = "ready" => n = t.ready

IsOf(op, v, p) == p.session = op.media /\ p.phase # "asking" /\ v.session = op.session

\* With the session v that is known of the publisher and the page p
LaneCurrent(t, v, p) ==
    t.overtaken
    \/ /\ t.owner # 0 /\ t.ops[t.owner].step = "opening" => IsOf(t.ops[t.owner], v, p)
       /\ t.ready # 0 => IsOf(t.ops[t.ready], v, p)

Idle(t) == t.owner = 0 /\ t.ready = 0
HasSlot(t) == \E n \in Channels!Slots : t.ops[n] = Channels!Free

LaneInv ==
    /\ {"phase", "session", "pc", "enabled"} \subseteq DOMAIN browser
    /\ LaneFits(Channels!Now) /\ LaneCurrent(Channels!Now, view, browser)
    /\ browser.phase = "asking" => ~browser.pc /\ Idle(Channels!Now)

LEMMA SlotsCount == 0 \notin Channels!Slots
BY OpsAreCounted DEF Channels!Slots

LEMMA LaneNow ==
    /\ Lane \subseteq DOMAIN Channels!Now
    /\ Channels!Now.ops = ops /\ Channels!Now.owner = owner /\ Channels!Now.ready = served
    /\ Channels!Now.overtaken = overtaken
BY DEF Channels!Now, Lane

LEMMA LaneIsTrue == LaneInv => Channels!LaneIsOurs
BY LaneNow, SlotsCount DEF LaneInv, LaneFits, LaneCurrent, Holds, IsOf, Channels!LaneIsOurs,
   Channels!NoStrayChannel, Channels!LaneIsCurrent, Channels!Current

\* A change of the other fields
LEMMA SameLane ==
    ASSUME NEW t, NEW s, LaneFits(t), Lane \subseteq DOMAIN s,
           s.ops = t.ops, s.owner = t.owner, s.ready = t.ready
    PROVE  /\ LaneFits(s) /\ (Idle(t) => Idle(s)) /\ (HasSlot(t) => HasSlot(s))
           /\ s.overtaken = t.overtaken =>
                \A v, p : LaneCurrent(t, v, p) => LaneCurrent(s, v, p)
BY DEF LaneFits, LaneCurrent, Holds, Idle, HasSlot

LEMMA LaneRemove ==
    ASSUME NEW t, LaneFits(t), NEW n \in Channels!Slots, n # t.owner, n # t.ready
    PROVE  LET s == Channels!Remove(t, n)
           IN  /\ LaneFits(s) /\ HasSlot(s) /\ (Idle(t) => Idle(s))
               /\ \A v, p : LaneCurrent(t, v, p) => LaneCurrent(s, v, p)
<1> DEFINE s == Channels!Remove(t, n)
<1>1. /\ Lane \subseteq DOMAIN s /\ s.owner = t.owner /\ s.ready = t.ready /\ s.overtaken = t.overtaken
      /\ s.ops = [t.ops EXCEPT ![n] = Channels!Free]
  BY DEF Channels!Remove, LaneFits, Lane
<1>2. /\ s.ops = [k \in Channels!Slots |-> s.ops[k]] /\ s.ops[n] = Channels!Free
      /\ \A k \in Channels!Slots : k # n => s.ops[k] = t.ops[k]
  BY <1>1 DEF LaneFits
<1>3. /\ {"session", "media", "step", "closed"} \subseteq DOMAIN Channels!Free
      /\ Channels!Free.step = "free"
  BY DEF Channels!Free
<1> HIDE DEF s
<1>4. LaneFits(s)
  BY <1>1, <1>2, <1>3 DEF LaneFits, Holds
<1>5. HasSlot(s) /\ (Idle(t) => Idle(s))
  BY <1>1, <1>2 DEF HasSlot, Idle
<1>6. \A v, p : LaneCurrent(t, v, p) => LaneCurrent(s, v, p)
  BY <1>1, <1>2 DEF LaneCurrent, LaneFits
<1> QED BY <1>4, <1>5, <1>6 DEF s

\* The attempt that owns the lane is given up.
LEMMA LaneGiven ==
    ASSUME NEW t, LaneFits(t), t.owner # 0
    PROVE  LET s == Channels!Cleanup(t, t.owner)
           IN  LaneFits(s) /\ Idle(s) /\ (HasSlot(t) => HasSlot(s)) /\ s.overtaken = t.overtaken
<1> DEFINE n == t.owner
           s == Channels!Cleanup(t, n)
<1>1. /\ Lane \subseteq DOMAIN s /\ s.owner = 0 /\ s.ready = t.ready /\ s.overtaken = t.overtaken
      /\ s.ops = [t.ops EXCEPT ![n].closed = TRUE]
  BY DEF Channels!Cleanup, LaneFits, Lane
<1>2. n \in Channels!Slots /\ t.ready = 0 /\ t.ops[n].step \in {"asked", "answered", "refused", "opening"}
  BY DEF LaneFits, Holds
<1>3. /\ s.ops = [k \in Channels!Slots |-> s.ops[k]]
      /\ s.ops[n].step = t.ops[n].step /\ s.ops[n].closed
      /\ {"session", "media", "step", "closed"} \subseteq DOMAIN s.ops[n]
      /\ \A k \in Channels!Slots : k # n => s.ops[k] = t.ops[k]
  BY <1>1, <1>2 DEF LaneFits
<1>4. t.ops[n] # Channels!Free
  BY <1>2 DEF Channels!Free
<1> HIDE DEF s, n
<1>5. LaneFits(s)
  <2>1. \A k \in Channels!Slots : {"session", "media", "step", "closed"} \subseteq DOMAIN s.ops[k]
    BY <1>3 DEF LaneFits
  <2>2. ASSUME NEW k \in Channels!Slots
        PROVE  /\ ~(s.ops[k].step = "opening" /\ ~s.ops[k].closed)
               /\ s.ops[k].step # "ready"
    <3>1. CASE k = n
      BY <1>2, <1>3, <3>1
    <3>2. CASE k # n
      BY <1>2, <1>3, <3>2, SlotsCount DEF LaneFits, n
    <3> QED BY <3>1, <3>2
  <2> QED BY <1>1, <1>2, <1>3, <2>1, <2>2 DEF LaneFits
<1>6. HasSlot(t) => HasSlot(s)
  BY <1>3, <1>4 DEF HasSlot
<1> QED BY <1>1, <1>2, <1>5, <1>6 DEF Idle, s, n

\* The channel that serves the lane is closed.
LEMMA LaneClosed ==
    ASSUME NEW t, LaneFits(t), t.ready # 0
    PROVE  LET s == Channels!Cleanup(t, t.ready)
           IN  LaneFits(s) /\ Idle(s) /\ (HasSlot(t) => HasSlot(s)) /\ s.overtaken = t.overtaken
<1> DEFINE n == t.ready
           s == Channels!Cleanup(t, n)
<1>1. n \in Channels!Slots /\ t.owner = 0 /\ n # t.owner
  BY DEF LaneFits
<1>2. /\ Lane \subseteq DOMAIN s /\ s.owner = 0 /\ s.ready = 0 /\ s.overtaken = t.overtaken
      /\ s.ops = [t.ops EXCEPT ![n] = Channels!Free]
  BY <1>1 DEF Channels!Cleanup, Channels!Remove, LaneFits, Lane
<1>3. /\ s.ops = [k \in Channels!Slots |-> s.ops[k]] /\ s.ops[n] = Channels!Free
      /\ \A k \in Channels!Slots : k # n => s.ops[k] = t.ops[k]
  BY <1>1, <1>2 DEF LaneFits
<1>4. /\ {"session", "media", "step", "closed"} \subseteq DOMAIN Channels!Free
      /\ Channels!Free.step = "free"
  BY DEF Channels!Free
<1> HIDE DEF s, n
<1>5. LaneFits(s)
  BY <1>1, <1>2, <1>3, <1>4 DEF LaneFits, Holds, n
<1>6. HasSlot(s)
  BY <1>1, <1>3 DEF HasSlot
<1> QED BY <1>2, <1>5, <1>6 DEF Idle, s, n

LEMMA LaneReset ==
    ASSUME NEW t, LaneFits(t)
    PROVE  LET s == Channels!Reset(t)
           IN  LaneFits(s) /\ Idle(s) /\ (HasSlot(t) => HasSlot(s))
<1> DEFINE c == [t EXCEPT !.retry = Channels!None]
<1>1. /\ Lane \subseteq DOMAIN c /\ c.ops = t.ops /\ c.owner = t.owner /\ c.ready = t.ready
  BY DEF LaneFits, Lane
<1>2. LaneFits(c) /\ (HasSlot(t) => HasSlot(c))
  BY <1>1, SameLane
<1>3. Channels!Reset(t) = IF c.owner # 0 THEN Channels!Cleanup(c, c.owner)
                          ELSE IF c.ready # 0 THEN Channels!Cleanup(c, c.ready) ELSE c
  BY <1>1 DEF Channels!Reset
<1> HIDE DEF c
<1> QED BY <1>2, <1>3, LaneGiven, LaneClosed DEF Idle

LEMMA LaneSubscribe ==
    ASSUME NEW t, LaneFits(t), HasSlot(t), NEW w, NEW attempt, NEW v, NEW p, LaneCurrent(t, v, p)
    PROVE  LET s == Channels!Subscribe(t, w, attempt)
           IN  LaneFits(s) /\ LaneCurrent(s, v, p)
<1> DEFINE s == Channels!Subscribe(t, w, attempt)
           n == CHOOSE k \in Channels!Slots : t.ops[k] = Channels!Free
           op == [Channels!Free EXCEPT !.session = w.session, !.media = browser.session,
                                       !.attempt = attempt, !.step = "asked"]
<1>1. CASE s = [t EXCEPT !.retry = Channels!None]
  BY <1>1, SameLane DEF LaneFits, Lane
<1>2. CASE /\ w.session # 0 /\ t.owner = 0 /\ t.ready = 0
           /\ s = [t EXCEPT !.owner = n, !.retry = Channels!None, !.givenUp = FALSE, !.overtaken = FALSE,
                            !.ops[n] = op]
  <2>1. n \in Channels!Slots /\ n # 0 /\ t.ops[n] = Channels!Free
    BY SlotsCount DEF HasSlot
  <2>2. /\ {"session", "media", "step", "closed"} \subseteq DOMAIN op
        /\ op.session = w.session /\ op.step = "asked" /\ ~op.closed
    BY DEF Channels!Free
  <2> HIDE DEF n, op
  <2>3. /\ Lane \subseteq DOMAIN s /\ s.owner = n /\ s.ready = 0
        /\ s.ops = [t.ops EXCEPT ![n] = op]
    BY <1>2 DEF LaneFits, Lane
  <2>4. /\ s.ops = [k \in Channels!Slots |-> s.ops[k]] /\ s.ops[n] = op
        /\ \A k \in Channels!Slots : k # n => s.ops[k] = t.ops[k]
    BY <2>1, <2>3 DEF LaneFits
  <2> HIDE DEF s
  <2>5. LaneFits(s)
    <3>1. \A k \in Channels!Slots : {"session", "media", "step", "closed"} \subseteq DOMAIN s.ops[k]
      BY <2>2, <2>4 DEF LaneFits
    <3>2. ASSUME NEW k \in Channels!Slots
          PROVE  /\ ~(s.ops[k].step = "opening" /\ ~s.ops[k].closed)
                 /\ s.ops[k].step # "ready"
      <4>1. CASE k = n
        BY <2>2, <2>4, <4>1
      <4>2. CASE k # n
        BY <1>2, <2>4, <4>2, SlotsCount DEF LaneFits
      <4> QED BY <4>1, <4>2
    <3>3. Holds(s, n, {"asked", "answered", "refused", "opening"})
      BY <1>2, <2>2, <2>4 DEF Holds
    <3> QED BY <2>1, <2>3, <2>4, <3>1, <3>2, <3>3 DEF LaneFits
  <2>6. LaneCurrent(s, v, p)
    BY <2>2, <2>3, <2>4 DEF LaneCurrent
  <2> QED BY <2>5, <2>6 DEF s
<1> QED BY <1>1, <1>2 DEF Channels!Subscribe

LEMMA LaneSchedule ==
    ASSUME NEW t, LaneFits(t), NEW op, NEW attempt
    PROVE  LET s == Channels!Schedule(t, op, attempt)
           IN  /\ LaneFits(s) /\ (Idle(t) => Idle(s))
               /\ \A v, p : LaneCurrent(t, v, p) => LaneCurrent(s, v, p)
<1> DEFINE s == Channels!Schedule(t, op, attempt)
<1>1. /\ Lane \subseteq DOMAIN s /\ s.ops = t.ops /\ s.owner = t.owner /\ s.ready = t.ready
      /\ s.overtaken = t.overtaken
  BY DEF Channels!Schedule, LaneFits, Lane
<1> QED BY <1>1, SameLane

LEMMA IdleIsCurrent == \A t, v, p : Idle(t) => LaneCurrent(t, v, p)
BY DEF Idle, LaneCurrent

LEMMA LaneFailed ==
    ASSUME NEW t, LaneFits(t), NEW n \in Channels!Slots, n # t.ready
    PROVE  LET s == Channels!Failed(t, n)
           IN  /\ LaneFits(s) /\ (Idle(t) => Idle(s))
               /\ \A v, p : LaneCurrent(t, v, p) => LaneCurrent(s, v, p)
<1> DEFINE c == Channels!Cleanup(t, n)
           r == Channels!Remove(c, n)
<1>1. /\ LaneFits(c) /\ n # c.owner /\ n # c.ready /\ (Idle(t) => Idle(c))
      /\ \A v, p : LaneCurrent(t, v, p) => LaneCurrent(c, v, p)
  <2>1. CASE n = t.owner
    <3>1. LaneFits(c) /\ Idle(c)
      BY <2>1, LaneGiven, SlotsCount
    <3>2. QED BY <3>1, SlotsCount, IdleIsCurrent DEF Idle
  <2>2. CASE n # t.owner
    BY <2>2 DEF Channels!Cleanup
  <2> QED BY <2>1, <2>2
<1> HIDE DEF c
<1>2. /\ LaneFits(r) /\ (Idle(c) => Idle(r))
      /\ \A v, p : LaneCurrent(c, v, p) => LaneCurrent(r, v, p)
  BY <1>1, LaneRemove
<1> HIDE DEF r
<1>3. Channels!Failed(t, n) = Channels!Schedule(r, t.ops[n], t.ops[n].attempt + 1)
  BY DEF Channels!Failed, r, c
<1> QED BY <1>1, <1>2, <1>3, LaneSchedule

\* What a step makes of the lane
LEMMA LaneBecomes ==
    ASSUME NEW t, LaneFits(t), Channels!Becomes(t)
    PROVE  /\ LaneFits(Channels!Now)' /\ (Idle(t) => Idle(Channels!Now)')
           /\ LaneCurrent(t, view', browser') => LaneCurrent(Channels!Now, view, browser)'
<1>1. /\ Lane \subseteq DOMAIN Channels!Now' /\ Channels!Now'.ops = t.ops
      /\ Channels!Now'.owner = t.owner /\ Channels!Now'.ready = t.ready
      /\ Channels!Now'.overtaken = t.overtaken
  BY DEF Channels!Becomes, Channels!Now, Lane
<1>2. LaneFits(Channels!Now') /\ (Idle(t) => Idle(Channels!Now'))
      /\ (LaneCurrent(t, view', browser') => LaneCurrent(Channels!Now', view', browser'))
  BY <1>1, SameLane
<1>3. /\ LaneFits(Channels!Now)' <=> LaneFits(Channels!Now')
      /\ Idle(Channels!Now)' <=> Idle(Channels!Now')
      /\ LaneCurrent(Channels!Now, view, browser)' <=> LaneCurrent(Channels!Now', view', browser')
  BY DEF LaneFits, Idle, LaneCurrent, Holds, IsOf
<1> QED BY <1>2, <1>3

\* Steps in the browser that leave its session and what it knows alone
LEMMA LaneStays ==
    ASSUME LaneInv, UNCHANGED <<browser, view>>, NEW t, LaneFits(t), Channels!Becomes(t),
           LaneCurrent(t, view, browser), Idle(Channels!Now) => Idle(t)
    PROVE  LaneInv'
BY LaneBecomes DEF LaneInv

LEMMA LaneUntouched ==
    ASSUME LaneInv, UNCHANGED <<view, ops, owner, served, retry, givenUp, overtaken>>,
           {"phase", "session", "pc", "enabled"} \subseteq DOMAIN browser',
           \/ browser' = browser
           \/ browser'.session = browser.session /\ browser'.phase # "asking"
    PROVE  LaneInv'
<1>1. Channels!Now' = Channels!Now
  BY DEF Channels!Now
<1>2. LaneCurrent(Channels!Now, view, browser') /\ (browser'.phase = "asking" => ~browser'.pc /\ Idle(Channels!Now))
  BY DEF LaneInv, LaneCurrent, IsOf
<1>3. /\ LaneFits(Channels!Now)' <=> LaneFits(Channels!Now')
      /\ Idle(Channels!Now)' <=> Idle(Channels!Now')
      /\ LaneCurrent(Channels!Now, view, browser)' <=> LaneCurrent(Channels!Now', view', browser')
  BY DEF LaneFits, Idle, LaneCurrent, Holds, IsOf
<1> QED BY <1>1, <1>2, <1>3 DEF LaneInv

LEMMA LaneOfRoom ==
    ASSUME LaneInv,
           \/ Channels!RoomStep \/ Channels!Allocates \/ Channels!Retires
           \/ \E frame \in {"resync", "ready"} : Channels!RoomHears(frame)
           \/ Channels!Drops \/ Channels!Opens \/ Channels!RequestReconnect
           \/ Channels!Establishes \/ Channels!Ends
    PROVE  LaneInv'
<1>1. UNCHANGED <<view, ops, owner, served, retry, givenUp, overtaken>>
  BY DEF Channels!RoomStep, Channels!NextSession, Channels!Returns, Channels!Disconnects,
         Channels!Announces, Channels!Publishes, Channels!Allocates, Channels!Retires,
         Channels!RoomHears, Channels!Drops, Channels!Opens, Channels!RequestReconnect,
         Channels!Establishes, Channels!Ends, Channels!RoomOnly, Channels!laneVars
<1>2. /\ {"phase", "session", "pc", "enabled"} \subseteq DOMAIN browser'
      /\ \/ browser' = browser
         \/ browser'.session = browser.session /\ browser'.phase # "asking"
  BY DEF LaneInv, Channels!RoomStep, Channels!NextSession, Channels!Returns, Channels!Disconnects,
         Channels!Announces, Channels!Publishes, Channels!Allocates, Channels!Retires,
         Channels!RoomHears, Channels!Drops, Channels!Opens, Channels!RequestReconnect,
         Channels!Establishes, Channels!Ends, Channels!RoomOnly, Channels!laneVars
<1> QED BY <1>1, <1>2, LaneUntouched

\* An attempt whose step changes to another that is not open
LEMMA LaneAsks ==
    ASSUME LaneInv, NEW n \in Channels!Slots, Channels!Asks(n) \/ Channels!AskFails(n)
    PROVE  LaneInv'
<1> DEFINE t == [Channels!Now EXCEPT !.ops = ops']
<1>1. /\ Lane \subseteq DOMAIN t /\ t.ops = ops' /\ t.owner = owner /\ t.ready = served
      /\ t.overtaken = overtaken
  BY DEF Channels!Now, Lane
<1>2. Channels!Becomes(t) /\ UNCHANGED <<browser, view>>
  BY DEF Channels!Asks, Channels!AskFails, Channels!InBrowser, Channels!Becomes, Channels!Now
<1>3. /\ ops = [k \in Channels!Slots |-> ops[k]] /\ ops[n].step = "asked"
      /\ {"session", "media", "step", "closed"} \subseteq DOMAIN ops[n]
  BY LaneNow DEF LaneInv, LaneFits, Channels!Asks, Channels!AskFails, Channels!At
<1>4. /\ ops' = [k \in Channels!Slots |-> ops'[k]]
      /\ \A k \in Channels!Slots : k # n => ops'[k] = ops[k]
      /\ ops'[n].step \in {"answered", "refused"} /\ ops'[n].closed = ops[n].closed
      /\ ops'[n].session = ops[n].session
      /\ {"session", "media", "step", "closed"} \subseteq DOMAIN ops'[n]
  <2>1. PICK step \in {"answered", "refused"} :
            \/ ops' = [ops EXCEPT ![n].step = step]
            \/ ops' = [ops EXCEPT ![n].step = step, ![n].source = source.last]
    BY DEF Channels!Asks, Channels!AskFails
  <2>2. \/ ops' = [ops EXCEPT ![n] = [@ EXCEPT !.step = step]]
        \/ ops' = [ops EXCEPT ![n] = [[@ EXCEPT !.step = step] EXCEPT !.source = source.last]]
    BY <1>3, <2>1
  <2> QED BY <1>3, <2>1, <2>2
<1>5. n # served
  BY <1>3, LaneNow, SlotsCount DEF LaneInv, LaneFits, Holds
<1> HIDE DEF t
<1>6. LaneFits(t)
  <2>1. ASSUME NEW k \in Channels!Slots
        PROVE  /\ {"session", "media", "step", "closed"} \subseteq DOMAIN t.ops[k]
               /\ t.ops[k].step = "opening" /\ ~t.ops[k].closed => k = t.owner
               /\ t.ops[k].step = "ready" => k = t.ready
    BY <1>1, <1>3, <1>4, LaneNow DEF LaneInv, LaneFits
  <2>2. t.owner # 0 => Holds(t, t.owner, {"asked", "answered", "refused", "opening"})
    BY <1>1, <1>3, <1>4, LaneNow DEF LaneInv, LaneFits, Holds
  <2>3. t.ready # 0 => Holds(t, t.ready, {"ready"})
    BY <1>1, <1>4, <1>5, LaneNow DEF LaneInv, LaneFits, Holds
  <2> QED BY <1>1, <1>4, <2>1, <2>2, <2>3, LaneNow DEF LaneInv, LaneFits
<1>7. LaneCurrent(t, view, browser)
  BY <1>1, <1>4, <1>5, LaneNow DEF LaneInv, LaneFits, LaneCurrent
<1>8. Idle(Channels!Now) => Idle(t)
  BY <1>1, LaneNow DEF Idle
<1> QED BY <1>2, <1>6, <1>7, <1>8, LaneStays

LEMMA LaneAnswer ==
    ASSUME LaneInv, NEW n \in Channels!Slots,
           Channels!Answer(n) \/ Channels!OpeningEnds(n) \/ Channels!ChannelCloses(n)
    PROVE  LaneInv'
<1>1. UNCHANGED <<browser, view>>
  BY DEF Channels!Answer, Channels!OpeningEnds, Channels!ChannelCloses, Channels!InBrowser
<1>2. CASE ops[n].step \in {"refused", "answered", "opening"} /\ Channels!Becomes(Channels!Failed(Channels!Now, n))
  <2>1. n # served
    BY <1>2, LaneNow, SlotsCount DEF LaneInv, LaneFits, Holds
  <2>2. /\ LaneFits(Channels!Failed(Channels!Now, n))
        /\ Idle(Channels!Now) => Idle(Channels!Failed(Channels!Now, n))
        /\ LaneCurrent(Channels!Failed(Channels!Now, n), view, browser)
    BY <2>1, LaneNow, LaneFailed DEF LaneInv
  <2> QED BY <1>1, <1>2, <2>2, LaneStays
<1>3. CASE /\ ops[n].step = "answered" /\ owner = n /\ Channels!Current(ops[n])
           /\ Channels!Becomes([Channels!Now EXCEPT !.ops[n].step = "opening"])
  <2> DEFINE t == [Channels!Now EXCEPT !.ops[n].step = "opening"]
  <2>1. /\ Lane \subseteq DOMAIN t /\ t.ops = [ops EXCEPT ![n].step = "opening"] /\ t.owner = owner
        /\ t.ready = served /\ t.overtaken = overtaken
    BY DEF Channels!Now, Lane
  <2>2. /\ ops = [k \in Channels!Slots |-> ops[k]] /\ n # 0 /\ served = 0
        /\ {"session", "media", "step", "closed"} \subseteq DOMAIN ops[n]
        /\ ~ops[n].closed /\ ops[n].session # 0
    BY <1>3, LaneNow, SlotsCount DEF LaneInv, LaneFits, Holds
  <2>3. /\ t.ops = [k \in Channels!Slots |-> t.ops[k]]
        /\ \A k \in Channels!Slots : k # n => t.ops[k] = ops[k]
        /\ t.ops[n].step = "opening" /\ ~t.ops[n].closed /\ t.ops[n].session = ops[n].session
        /\ t.ops[n].media = ops[n].media
        /\ {"session", "media", "step", "closed"} \subseteq DOMAIN t.ops[n]
    BY <2>1, <2>2
  <2>4. Channels!Becomes(t)
    BY <1>3
  <2> HIDE DEF t
  <2>5. LaneFits(t)
    <3>1. ASSUME NEW k \in Channels!Slots
          PROVE  /\ {"session", "media", "step", "closed"} \subseteq DOMAIN t.ops[k]
                 /\ t.ops[k].step = "opening" /\ ~t.ops[k].closed => k = t.owner
                 /\ t.ops[k].step = "ready" => k = t.ready
      BY <1>3, <2>1, <2>3, LaneNow DEF LaneInv, LaneFits
    <3>2. Holds(t, n, {"asked", "answered", "refused", "opening"})
      BY <2>2, <2>3 DEF Holds
    <3> QED BY <1>3, <2>1, <2>2, <2>3, <3>1, <3>2 DEF LaneFits
  <2>6. LaneCurrent(t, view, browser)
    BY <1>3, <2>1, <2>2, <2>3 DEF LaneCurrent, IsOf, Channels!Current
  <2>7. ~Idle(Channels!Now)
    BY <1>3, <2>2, LaneNow DEF Idle
  <2> QED BY <1>1, <2>4, <2>5, <2>6, <2>7, LaneStays
<1>4. CASE /\ ops[n].step = "ready"
           /\ Channels!Becomes(Channels!Schedule(Channels!Cleanup(Channels!Now, n), ops[n], 2))
  <2>1. served = n /\ n # 0
    BY <1>4, LaneNow, SlotsCount DEF LaneInv, LaneFits
  <2>2. LaneFits(Channels!Cleanup(Channels!Now, n)) /\ Idle(Channels!Cleanup(Channels!Now, n))
    BY <2>1, LaneNow, LaneClosed DEF LaneInv
  <2> QED BY <1>1, <1>4, <2>2, LaneSchedule, IdleIsCurrent, LaneStays
<1> QED BY <1>2, <1>3, <1>4 DEF Channels!Answer, Channels!OpeningEnds, Channels!ChannelCloses, Channels!At

LEMMA LaneOpens ==
    ASSUME LaneInv, NEW n \in Channels!Slots, Channels!ChannelOpens(n)
    PROVE  LaneInv'
<1> DEFINE t == [Channels!Now EXCEPT !.ops[n].step = "ready", !.owner = 0, !.ready = n]
<1>1. /\ Lane \subseteq DOMAIN t /\ t.ops = [ops EXCEPT ![n].step = "ready"] /\ t.owner = 0
      /\ t.ready = n /\ t.overtaken = overtaken
  BY DEF Channels!Now, Lane
<1>2. /\ Channels!Becomes(t) /\ UNCHANGED <<browser, view>>
      /\ ops[n].step = "opening" /\ ~ops[n].closed
  BY DEF Channels!ChannelOpens, Channels!InBrowser, Channels!At
<1>3. /\ ops = [k \in Channels!Slots |-> ops[k]] /\ n # 0 /\ owner = n /\ served = 0
      /\ {"session", "media", "step", "closed"} \subseteq DOMAIN ops[n] /\ ops[n].session # 0
  BY <1>2, LaneNow, SlotsCount DEF LaneInv, LaneFits, Holds
<1>4. /\ t.ops = [k \in Channels!Slots |-> t.ops[k]]
      /\ \A k \in Channels!Slots : k # n => t.ops[k] = ops[k]
      /\ t.ops[n].step = "ready" /\ ~t.ops[n].closed /\ t.ops[n].session = ops[n].session
      /\ t.ops[n].media = ops[n].media
      /\ {"session", "media", "step", "closed"} \subseteq DOMAIN t.ops[n]
  BY <1>1, <1>2, <1>3
<1> HIDE DEF t
<1>5. LaneFits(t)
  <2>1. ASSUME NEW k \in Channels!Slots
        PROVE  /\ {"session", "media", "step", "closed"} \subseteq DOMAIN t.ops[k]
               /\ ~(t.ops[k].step = "opening" /\ ~t.ops[k].closed)
               /\ t.ops[k].step = "ready" => k = n
    <3>1. CASE k = n
      BY <1>4, <3>1
    <3>2. CASE k # n
      BY <1>3, <1>4, <3>2, LaneNow, SlotsCount DEF LaneInv, LaneFits
    <3> QED BY <3>1, <3>2
  <2>2. Holds(t, n, {"ready"})
    BY <1>3, <1>4 DEF Holds
  <2> QED BY <1>1, <1>4, <2>1, <2>2 DEF LaneFits
<1>6. LaneCurrent(t, view, browser)
  BY <1>1, <1>2, <1>3, <1>4, LaneNow DEF LaneInv, LaneCurrent, IsOf
<1>7. ~Idle(Channels!Now)
  BY <1>3, LaneNow DEF Idle
<1> QED BY <1>2, <1>5, <1>6, <1>7, LaneStays

\* A step in the browser that may begin an attempt
LEMMA LaneFollows ==
    ASSUME NEW t, LaneFits(t), Channels!Becomes(t), LaneCurrent(t, view', browser'),
           {"phase", "session", "pc", "enabled"} \subseteq DOMAIN browser',
           browser'.phase = "asking" => ~browser'.pc /\ Idle(t)
    PROVE  LaneInv'
BY LaneBecomes DEF LaneInv

LEMMA LaneNowInv ==
    ASSUME LaneInv
    PROVE  /\ LaneFits(Channels!Now) /\ LaneCurrent(Channels!Now, view, browser)
           /\ browser.phase = "asking" => ~browser.pc /\ Idle(Channels!Now)
           /\ Channels!SlotIsFree => HasSlot(Channels!Now)
BY LaneNow DEF LaneInv, HasSlot, Channels!SlotIsFree

LEMMA LaneHears ==
    ASSUME LaneInv, Channels!BrowserHears
    PROVE  LaneInv'
<1> DEFINE frame == Head(toBrowser)
<1>1. LaneFits(Channels!Now) /\ HasSlot(Channels!Now) /\ browser' = browser
  BY LaneNowInv DEF Channels!BrowserHears
<1>2. ASSUME frame.kind = "state", view' = frame.state,
             Channels!Becomes(Channels!Resubscribe(Channels!Apply(Channels!Now, frame.state), view', browser.pc))
      PROVE  LaneInv'
  <2> DEFINE t == Channels!Apply(Channels!Now, frame.state)
             s == Channels!Resubscribe(t, view', browser.pc)
  <2>1. /\ LaneFits(t) /\ HasSlot(t) /\ (Idle(Channels!Now) => Idle(t))
        /\ LaneCurrent(t, view', browser)
    <3>1. CASE t = Channels!Reset(Channels!Now)
      BY <1>1, <3>1, LaneReset, IdleIsCurrent
    <3>2. CASE t = Channels!Now /\ (view.session = 0 \/ view.session = frame.state.session)
      <4>1. LaneCurrent(Channels!Now, view', browser)
        BY <1>2, <3>2, LaneNowInv DEF LaneCurrent, IsOf, LaneFits, Holds
      <4> QED BY <1>1, <3>2, <4>1
    <3> QED BY <3>1, <3>2 DEF Channels!Apply
  <2> HIDE DEF t
  <2>2. LaneFits(s) /\ LaneCurrent(s, view', browser) /\ (~browser.pc => s = t)
    BY <2>1, LaneSubscribe DEF Channels!Resubscribe
  <2>3. Channels!Becomes(s)
    BY <1>2 DEF t
  <2> HIDE DEF s
  <2> QED BY <1>1, <2>1, <2>2, <2>3, LaneNowInv, LaneFollows DEF LaneInv
<1>3. ASSUME view'.session = frame.session,
             Channels!Becomes(Channels!ApplyPublished(Channels!Now, frame.session))
      PROVE  LaneInv'
  <2> DEFINE t == Channels!ApplyPublished(Channels!Now, frame.session)
             o == [Channels!Now EXCEPT !.overtaken = @ \/ owner # 0 \/ served # 0]
  <2>1. LaneFits(t) /\ LaneCurrent(t, view', browser) /\ (Idle(Channels!Now) => Idle(t))
    <3>1. CASE t = Channels!Reset(Channels!Now)
      BY <1>1, <3>1, LaneReset, IdleIsCurrent
    <3>2. CASE t = Channels!Now /\ view.session = frame.session
      <4>1. LaneCurrent(Channels!Now, view', browser)
        BY <1>3, <3>2, LaneNowInv DEF LaneCurrent, IsOf
      <4> QED BY <1>1, <3>2, <4>1
    <3>3. CASE t = o
      <4>1. /\ Lane \subseteq DOMAIN o /\ o.ops = ops /\ o.owner = owner /\ o.ready = served
            /\ o.overtaken = (overtaken \/ owner # 0 \/ served # 0)
        BY DEF Channels!Now, Lane
      <4> HIDE DEF o
      <4>2. LaneFits(o) /\ (Idle(Channels!Now) => Idle(o))
        BY <1>1, <4>1, LaneNow, SameLane
      <4>3. LaneCurrent(o, view', browser)
        BY <4>1 DEF LaneCurrent
      <4> QED BY <3>3, <4>2, <4>3
    <3> QED BY <3>1, <3>2, <3>3, LaneNow DEF Channels!ApplyPublished
  <2>2. Channels!Becomes(t)
    BY <1>3
  <2> HIDE DEF t
  <2> QED BY <1>1, <2>1, <2>2, LaneNowInv, LaneFollows DEF LaneInv
<1> QED BY <1>2, <1>3 DEF Channels!BrowserHears

LEMMA LaneRetries ==
    ASSUME LaneInv, Channels!RetryFires
    PROVE  LaneInv'
<1> DEFINE t == [Channels!Now EXCEPT !.retry = Channels!None]
           g == [t EXCEPT !.givenUp = owner = 0 /\ served = 0]
<1>1. /\ LaneFits(Channels!Now) /\ HasSlot(Channels!Now) /\ LaneCurrent(Channels!Now, view, browser)
      /\ UNCHANGED <<browser, view>>
  BY LaneNowInv DEF Channels!RetryFires, Channels!InBrowser
<1>2. /\ Lane \subseteq DOMAIN t /\ t.ops = ops /\ t.owner = owner /\ t.ready = served
      /\ t.overtaken = overtaken
      /\ Lane \subseteq DOMAIN g /\ g.ops = ops /\ g.owner = owner /\ g.ready = served
      /\ g.overtaken = overtaken
  BY DEF Channels!Now, Lane
<1>3. /\ LaneFits(t) /\ HasSlot(t) /\ LaneCurrent(t, view, browser)
      /\ LaneFits(g) /\ LaneCurrent(g, view, browser) /\ (Idle(Channels!Now) => Idle(g))
  <2> HIDE DEF t, g
  <2> QED BY <1>1, <1>2, LaneNow, SameLane
<1>4. CASE Channels!MayRetry(t, retry) /\ Channels!Becomes(Channels!Subscribe(t, view, retry.attempt))
  <2>1. browser.phase = "up"
    BY <1>4 DEF Channels!MayRetry
  <2> HIDE DEF t
  <2> DEFINE s == Channels!Subscribe(t, view, retry.attempt)
  <2>2. LaneFits(s) /\ LaneCurrent(s, view, browser)
    BY <1>3, LaneSubscribe
  <2>3. Channels!Becomes(s)
    BY <1>4
  <2> HIDE DEF s
  <2> QED BY <1>1, <2>1, <2>2, <2>3, LaneFollows DEF LaneInv
<1>5. CASE Channels!Becomes(g)
  <2> HIDE DEF g, t
  <2> QED BY <1>1, <1>3, <1>5, LaneStays
<1> QED BY <1>4, <1>5 DEF Channels!RetryFires

LEMMA LaneReplaced ==
    ASSUME LaneInv, Channels!ReplacePc \/ Channels!Granted \/ Channels!Connects
    PROVE  LaneInv'
<1>1. CASE Channels!ReplacePc
  <2>1. LaneFits(Channels!Reset(Channels!Now)) /\ Idle(Channels!Reset(Channels!Now))
    BY LaneNowInv, LaneReset
  <2>2. {"phase", "session", "pc", "enabled"} \subseteq DOMAIN browser' /\ ~browser'.pc
    BY <1>1 DEF LaneInv, Channels!ReplacePc
  <2> QED BY <1>1, <2>1, <2>2, IdleIsCurrent, LaneFollows DEF Channels!ReplacePc
<1>2. CASE Channels!Granted
  <2>1. /\ Idle(Channels!Now) /\ browser'.phase # "asking"
        /\ {"phase", "session", "pc", "enabled"} \subseteq DOMAIN browser'
    BY <1>2 DEF LaneInv, Channels!Granted
  <2>2. Channels!Becomes(Channels!Now)
    BY <1>2 DEF Channels!Granted, Channels!laneVars, Channels!Becomes, Channels!Now
  <2> QED BY <2>1, <2>2, LaneNowInv, IdleIsCurrent, LaneFollows
<1>3. CASE Channels!Connects
  <2>1. /\ browser'.phase # "asking" /\ browser'.phase = browser.phase
        /\ browser'.session = browser.session /\ view' = view
        /\ {"phase", "session", "pc", "enabled"} \subseteq DOMAIN browser'
    BY <1>3 DEF LaneInv, Channels!Connects
  <2> DEFINE s == Channels!Resubscribe(Channels!Now, view, TRUE)
  <2>2. LaneFits(Channels!Now) /\ HasSlot(Channels!Now) /\ LaneCurrent(Channels!Now, view', browser')
    BY <1>3, <2>1, LaneNowInv DEF LaneCurrent, IsOf, Channels!Connects
  <2>3. LaneFits(s) /\ LaneCurrent(s, view', browser')
    BY <2>2, LaneSubscribe DEF Channels!Resubscribe
  <2>4. Channels!Becomes(s)
    BY <1>3 DEF Channels!Connects
  <2> HIDE DEF s
  <2> QED BY <2>1, <2>3, <2>4, LaneFollows
<1> QED BY <1>1, <1>2, <1>3

LEMMA LaneStep ==
    ASSUME LaneInv, Channels!Next
    PROVE  LaneInv'
<1>1. CASE Channels!RoomStep
  BY <1>1, LaneOfRoom
<1>2. CASE Channels!Failure
  BY <1>2, LaneOfRoom, LaneAsks, LaneAnswer DEF Channels!Failure
<1>3. CASE Channels!Progress
  BY <1>3, LaneOfRoom, LaneHears, LaneReplaced, LaneAsks, LaneAnswer, LaneOpens, LaneRetries
     DEF Channels!Progress
<1> QED BY <1>1, <1>2, <1>3 DEF Channels!Next

-----------------------------------------------------------------------------
(* The two together *)

\* Which of the two is at work
LEMMA TrackStaysTrack ==
    ASSUME Tracks!Next
    PROVE  what' = what
<1> USE DEF Tracks!roomvars, Tracks!RoomOnly, Tracks!Others, Tracks!InBrowser, Tracks!AtSfu
<1>1. CASE Tracks!RoomStep
  BY <1>1 DEF Tracks!RoomStep, Tracks!NextSession, Tracks!Returns, Tracks!Disconnects, Tracks!Publishes,
         Tracks!Announces, Tracks!StopsPublishing, Tracks!Unpublishes, Tracks!Revoked, Tracks!OtherLeaves
<1>2. CASE Tracks!Failure
  BY <1>2 DEF Tracks!Failure, Tracks!Drops, Tracks!PcFails, Tracks!ReconnectFails, Tracks!TracksNewFails,
         Tracks!DescribeSilently, Tracks!RenegotiateFails, Tracks!Timeout
<1>3. CASE Tracks!Progress
  BY <1>3 DEF Tracks!Progress, Tracks!RoomHears, Tracks!BrowserHears, Tracks!Opens, Tracks!ReplacePc,
         Tracks!RoomReconnects, Tracks!ReconnectStep, Tracks!Connects, Tracks!Begin, Tracks!TracksNew,
         Tracks!TakeAnswer, Tracks!Describe, Tracks!Renegotiate, Tracks!Renegotiated, Tracks!Timeout,
         Tracks!RetryFires
<1> QED BY <1>1, <1>2, <1>3 DEF Tracks!Next

LEMMA LaneStaysLane ==
    ASSUME Channels!Next
    PROVE  what' = what
<1> USE DEF Channels!roomvars, Channels!RoomOnly, Channels!InBrowser
<1>1. CASE Channels!RoomStep
  BY <1>1 DEF Channels!RoomStep, Channels!NextSession, Channels!Returns, Channels!Disconnects,
         Channels!Announces, Channels!Publishes
<1>2. CASE Channels!Failure
  BY <1>2 DEF Channels!Failure, Channels!Drops, Channels!RequestReconnect, Channels!AskFails,
         Channels!ChannelCloses
<1>3. CASE Channels!Progress
  BY <1>3 DEF Channels!Progress, Channels!Allocates, Channels!Retires, Channels!RoomHears,
         Channels!BrowserHears, Channels!Opens, Channels!ReplacePc, Channels!Granted, Channels!Connects,
         Channels!Establishes, Channels!Ends, Channels!Asks, Channels!Answer, Channels!ChannelOpens,
         Channels!OpeningEnds, Channels!RetryFires
<1> QED BY <1>1, <1>2, <1>3 DEF Channels!Next

LEMMA TracksAckedInit ==
    ASSUME Tracks!Init
    PROVE  OfTrack /\ TracksAcked
<1>1. \A n \in Tracks!Numbers : <<>> \in Seq(Said(acked))
  OBVIOUS
<1> QED BY <1>1 DEF Tracks!Init, Tracks!NoMedia, OfTrack, TracksAcked, InRoom

LEMMA LaneInit ==
    ASSUME Channels!Init
    PROVE  ~OfTrack /\ LaneInv
<1>1. /\ ~OfTrack /\ ops = [n \in Channels!Slots |-> Channels!Free] /\ owner = 0 /\ served = 0
      /\ browser.phase = "up" /\ {"phase", "session", "pc", "enabled"} \subseteq DOMAIN browser
  BY DEF Channels!Init, OfTrack
<1>2. /\ {"session", "media", "step", "closed"} \subseteq DOMAIN Channels!Free
      /\ Channels!Free.step = "free"
  BY DEF Channels!Free
<1>3. LaneFits(Channels!Now)
  BY <1>1, <1>2, LaneNow DEF LaneFits
<1> QED BY <1>1, <1>3, LaneNow, IdleIsCurrent DEF LaneInv, Idle

WhatInv == IF OfTrack THEN TracksAcked ELSE LaneInv

\* A browser takes media from no one but whom it negotiated with: an Agent is told to speak
\* only to a session whose negotiation was completed, and a lane holds no data channel that
\* came of an answer to an attempt it had given up, or of a session that is not the present
\* one (useSfuChatRoom.ts: the checks after each request and the resets of the lanes).
THEOREM WhatWasNegotiatedHolds == MediaSpec => []WhatWasNegotiated
<1>1. MediaInit => WhatInv
  BY TracksAckedInit, LaneInit DEF MediaInit, WhatInv
<1>2. WhatInv /\ [MediaNext]_mediavars => WhatInv'
  <2> SUFFICES ASSUME WhatInv, [MediaNext]_mediavars PROVE WhatInv'
    OBVIOUS
  <2>1. CASE OfTrack /\ Tracks!Next
    <3>1. what' = what /\ TracksAcked'
      BY <2>1, TrackStaysTrack, TracksAckedStep DEF WhatInv
    <3> QED BY <2>1, <3>1 DEF WhatInv, OfTrack
  <2>2. CASE ~OfTrack /\ Channels!Next
    <3>1. what' = what /\ LaneInv'
      BY <2>2, LaneStaysLane, LaneStep DEF WhatInv
    <3> QED BY <2>2, <3>1 DEF WhatInv, OfTrack
  <2>3. CASE UNCHANGED mediavars
    <3>1. OfTrack /\ TracksAcked => TracksAcked'
      BY <2>3 DEF mediavars, both, trackVars, TracksAcked
    <3>2. ~OfTrack /\ LaneInv => LaneInv'
      BY <2>3, LaneUntouched DEF mediavars, both, channelVars, LaneInv
    <3> QED BY <2>3, <3>1, <3>2 DEF WhatInv, OfTrack, mediavars, both
  <2> QED BY <2>1, <2>2, <2>3 DEF MediaNext
<1>3. WhatInv => WhatWasNegotiated
  BY LaneIsTrue DEF WhatInv, TracksAcked, WhatWasNegotiated, Tracks!ReadyWasNegotiated
<1> QED BY <1>1, <1>2, <1>3, PTL DEF MediaSpec
=============================================================================
