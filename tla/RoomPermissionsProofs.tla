----------------------- MODULE RoomPermissionsProofs -----------------------
(***************************************************************************)
(* For any number of Agents, requests and options, and for a ring of any   *)
(* length: a request has one outcome, a Harness acts only on the decision  *)
(* on its own request, a parked call has somebody who will answer it, and  *)
(* a request ends with an outcome.                                         *)
(*                                                                         *)
(* None of these is inductive.  The room's part of the strengthening (Good)*)
(* says what a record and the ring know of each other; every handler is    *)
(* shown to keep it and to let the ring only grow (Grown).  The stream's   *)
(* part (Covered) says that an outcome the runtime has not yet caught up   *)
(* with is on the wire in front of every cursor that passes it.            *)
(***************************************************************************)
EXTENDS RoomPermissions, NumberLemmas

-----------------------------------------------------------------------------
(* What a saved room record satisfies *)

\* A record stands for the last message of its request, which has no outcome
\* as far as the ring remembers.
Recorded(rm) ==
    \A r \in PendingOf(rm) :
        /\ rm.pending[r].sequence \in 1..Len(rm.messages)
        /\ rm.messages[rm.pending[r].sequence] =
              RequestMessage(rm.pending[r].agent, r)
        /\ \A i \in EventsOf(rm, r) : i <= rm.pending[r].sequence
        /\ OutcomesOf(rm, r) \cap Retained(rm) = {}

Once(rm) ==
    \A r \in Requests : \A i, j \in OutcomesOf(rm, r) \cap Retained(rm) : i = j

Chosen(rm) ==
    \A i \in 1..Len(rm.messages) :
        rm.messages[i].kind = "resolved" => rm.messages[i].option \in Options

\* Every message of a request names the Agent of its call.
Correlated(rm) ==
    \A r \in Requests : \A i \in EventsOf(rm, r) :
        rm.messages[i].agent = call[r].agent /\ call[r].phase # "idle"

\* A request of an Agent in the room is open or has been answered.
Settled(rm) ==
    \A r \in Requests : \A i \in EventsOf(rm, r) \ OutcomesOf(rm, r) :
        rm.messages[i].agent \in rm.members =>
            IsPending(rm, r) \/ \E j \in OutcomesOf(rm, r) : j > i

Good(rm) ==
    /\ rm \in Rooms
    /\ IsFiniteSet(PendingOf(rm))
    /\ Recorded(rm)
    /\ Once(rm)
    /\ Chosen(rm)
    /\ Correlated(rm)
    /\ Settled(rm)

\* What every handler does to the record: the ring keeps what it had, nobody
\* joins, and a request that ends leaves an outcome unless its Agent was gone.
Longer(rm, new) ==
    /\ Len(rm.messages) <= Len(new.messages)
    /\ \A i \in 1..Len(rm.messages) : new.messages[i] = rm.messages[i]

Grown(rm, new) ==
    /\ Longer(rm, new)
    /\ new.members \subseteq rm.members
    /\ \A r \in PendingOf(rm) :
          \/ IsPending(new, r) /\ new.pending[r].agent = rm.pending[r].agent
          \/ rm.pending[r].agent \notin rm.members
          \/ \E j \in OutcomesOf(new, r) : j > Len(rm.messages)

-----------------------------------------------------------------------------
(* What relates the room, the streams and the calls *)

Posted ==
    \A r \in Requests :
        /\ call[r].phase # "idle" => call[r].agent \in Agents
        /\ call[r].held => call[r].phase # "idle"
        /\ post[r] # "none" => call[r].phase # "idle"
        /\ call[r].phase = "waiting" => post[r] = "accepted"

\* The outcomes of Agent a that its runtime has not caught up with.
Missing(a) ==
    {i \in Retained(room) : /\ room.messages[i].kind \in {"resolved", "expired"}
                            /\ room.messages[i].agent = a
                            /\ i > received[a]}

Sent(a, i) == \E k \in 1..Len(wire[a]) : i \in wire[a][k].events

Wired(a) ==
    /\ pushed[a] <= Len(room.messages)
    /\ received[a] <= Len(room.messages)
    /\ link[a] = "closed" => wire[a] = <<>>
    /\ \A k \in 1..Len(wire[a]) :
          /\ wire[a][k].cursor <= Len(room.messages)
          /\ \A i \in wire[a][k].events :
                /\ i \in 1..wire[a][k].cursor
                /\ room.messages[i].kind \in {"resolved", "expired"}

Covered(a) ==
    link[a] = "open" =>
        \A i \in Missing(a) :
            /\ i <= pushed[a] => Sent(a, i)
            /\ a \in room.members => i <= pushed[a]
            /\ \A k \in 1..Len(wire[a]) :
                  i <= wire[a][k].cursor =>
                      \E j \in 1..k : i \in wire[a][j].events

\* Request r has this option as its outcome.
Decided(r, o) ==
    \E i \in OutcomesOf(room, r) : /\ room.messages[i].kind = "resolved"
                                   /\ room.messages[i].option = o

TrueDecisions ==
    \A r \in Requests :
        /\ call[r].decision \in Options => Decided(r, call[r].decision)
        /\ call[r].answer \in Options => Decided(r, call[r].answer)

\* Somebody will answer the call of r, whatever the stream does.
Answerable(r) ==
    \/ IsPending(room, r)
    \/ call[r].agent \notin room.members
    \/ link[call[r].agent] = "lost"
    \/ \E i \in OutcomesOf(room, r) :
          i \notin Retained(room) \/ i > received[call[r].agent]

Served ==
    \A r \in Requests :
        (call[r].held /\ call[r].phase # "done" /\ post[r] = "accepted") =>
            Answerable(r)

IInv ==
    /\ TypeOK
    /\ Good(room)
    /\ Posted
    /\ \A a \in Agents : Wired(a) /\ Covered(a)
    /\ TrueDecisions
    /\ Served

-----------------------------------------------------------------------------
(* The ring *)

LEMMA RoomTypes ==
    ASSUME NEW rm \in Rooms
    PROVE  /\ rm.members \in SUBSET Agents
           /\ rm.pending \in [Requests -> PendingRecords \cup {None}]
           /\ rm.messages \in Seq(Messages)
           /\ Len(rm.messages) \in Nat
           /\ \A i \in 1..Len(rm.messages) : rm.messages[i] \in Messages
<1>1. rm.messages \in Seq(Messages)
  BY DEF Rooms
<1>2. QED
  BY <1>1 DEF Rooms

LEMMA MessageTypes ==
    ASSUME NEW m \in Messages
    PROVE  /\ m.kind \in {"request", "resolved", "expired", "chat"}
           /\ m.kind # "chat" => /\ m.request \in Requests
                                 /\ m.agent \in Agents
                                 /\ m.option \in Options \cup {None}
  BY DEF Messages

LEMMA EventTypes ==
    ASSUME NEW rm \in Rooms, NEW r \in Requests
    PROVE  /\ EventsOf(rm, r) \subseteq 1..Len(rm.messages)
           /\ OutcomesOf(rm, r) \subseteq EventsOf(rm, r)
           /\ Retained(rm) \subseteq 1..Len(rm.messages)
           /\ \A i \in EventsOf(rm, r) : /\ rm.messages[i] \in Messages
                                         /\ rm.messages[i].kind # "chat"
                                         /\ rm.messages[i].request = r
           /\ \A i \in OutcomesOf(rm, r) :
                 rm.messages[i].kind \in {"resolved", "expired"}
  BY RoomTypes, MessageTypes DEF EventsOf, OutcomesOf, Retained

\* A ring that only grows forgets, and never remembers again.
LEMMA RingGrows ==
    ASSUME NEW rm \in Rooms, NEW new \in Rooms, Longer(rm, new)
    PROVE  /\ \A i \in 1..Len(rm.messages) : i \in Retained(new) => i \in Retained(rm)
           /\ \A r \in Requests :
                 /\ EventsOf(rm, r) \subseteq EventsOf(new, r)
                 /\ OutcomesOf(rm, r) \subseteq OutcomesOf(new, r)
                 /\ \A i \in EventsOf(new, r) :
                       i <= Len(rm.messages) => i \in EventsOf(rm, r)
                 /\ \A i \in OutcomesOf(new, r) :
                       i <= Len(rm.messages) => i \in OutcomesOf(rm, r)
<1>1. Len(rm.messages) \in Nat /\ Len(new.messages) \in Nat
  BY RoomTypes
<1>2. Len(rm.messages) <= Len(new.messages)
  BY DEF Longer
<1>3. \A i \in 1..Len(rm.messages) : new.messages[i] = rm.messages[i]
  BY DEF Longer
<1>4. \A i \in 1..Len(rm.messages) : i \in Retained(new) => i \in Retained(rm)
  BY <1>1, <1>2, BoundsAreNaturals DEF Retained
<1>5. \A r \in Requests : \A i \in 1..Len(rm.messages) :
         i \in EventsOf(rm, r) <=> i \in EventsOf(new, r)
  BY <1>1, <1>2, <1>3 DEF EventsOf
<1>6. \A r \in Requests : \A i \in 1..Len(rm.messages) :
         i \in OutcomesOf(rm, r) <=> i \in OutcomesOf(new, r)
  BY <1>3, <1>5 DEF OutcomesOf
<1>7. \A r \in Requests : /\ EventsOf(rm, r) \subseteq 1..Len(rm.messages)
                          /\ OutcomesOf(rm, r) \subseteq 1..Len(rm.messages)
                          /\ EventsOf(new, r) \subseteq 1..Len(new.messages)
                          /\ OutcomesOf(new, r) \subseteq 1..Len(new.messages)
  BY EventTypes DEF OutcomesOf
<1>8. QED
  BY <1>1, <1>4, <1>5, <1>6, <1>7

\* One more message.
LEMMA AppendFacts ==
    ASSUME NEW rm \in Rooms, NEW new \in Rooms, NEW m \in Messages,
           new.messages = Append(rm.messages, m)
    PROVE  LET n == Len(rm.messages) + 1 IN
           /\ Longer(rm, new)
           /\ Len(new.messages) = n
           /\ new.messages[n] = m
           /\ \A r \in Requests : \A i \in EventsOf(new, r) :
                 \/ i \in EventsOf(rm, r)
                 \/ i = n /\ m.kind # "chat" /\ m.request = r
           /\ \A r \in Requests : \A i \in OutcomesOf(new, r) :
                 \/ i \in OutcomesOf(rm, r)
                 \/ i = n /\ m.kind \in {"resolved", "expired"} /\ m.request = r
<1> DEFINE n == Len(rm.messages) + 1
<1>1. rm.messages \in Seq(Messages) /\ Len(rm.messages) \in Nat
  BY RoomTypes
<1>2. Len(new.messages) = n /\ new.messages[n] = m
  BY <1>1
<1>3. \A i \in 1..Len(rm.messages) : new.messages[i] = rm.messages[i]
  BY <1>1
<1>4. Longer(rm, new)
  BY <1>1, <1>2, <1>3 DEF Longer
<1>5. \A r \in Requests : \A i \in EventsOf(new, r) :
         i \in EventsOf(rm, r) \/ (i = n /\ m.kind # "chat" /\ m.request = r)
  <2> TAKE r \in Requests
  <2> TAKE i \in EventsOf(new, r)
  <2>1. i \in 1..n /\ new.messages[i].kind # "chat" /\ new.messages[i].request = r
    BY <1>2, EventTypes
  <2>2. CASE i = n
    BY <1>2, <2>1, <2>2
  <2>3. CASE i # n
    BY <1>1, <1>4, <2>1, <2>3, RingGrows
  <2>4. QED
    BY <2>2, <2>3
<1>6. \A r \in Requests : \A i \in OutcomesOf(new, r) :
         \/ i \in OutcomesOf(rm, r)
         \/ i = n /\ m.kind \in {"resolved", "expired"} /\ m.request = r
  <2> TAKE r \in Requests
  <2> TAKE i \in OutcomesOf(new, r)
  <2>1. /\ i \in 1..n /\ new.messages[i].request = r
        /\ new.messages[i].kind \in {"resolved", "expired"}
    BY <1>2, EventTypes
  <2>2. CASE i = n
    BY <1>2, <2>1, <2>2
  <2>3. CASE i # n
    BY <1>1, <1>4, <2>1, <2>3, RingGrows
  <2>4. QED
    BY <2>2, <2>3
<1>7. QED
  BY <1>2, <1>4, <1>5, <1>6

\* The latest message the ring remembers of a request.
LEMMA LatestIsLatest ==
    ASSUME NEW rm \in Rooms, NEW r \in Requests
    PROVE  /\ LatestEvent(rm, r) = 0 => EventsOf(rm, r) \cap Retained(rm) = {}
           /\ LatestEvent(rm, r) # 0 =>
                 /\ LatestEvent(rm, r) \in EventsOf(rm, r) \cap Retained(rm)
                 /\ \A j \in EventsOf(rm, r) \cap Retained(rm) : j <= LatestEvent(rm, r)
<1> DEFINE known == EventsOf(rm, r) \cap Retained(rm)
<1>1. known \in SUBSET (1..Len(rm.messages)) /\ Len(rm.messages) \in Nat
  BY EventTypes, RoomTypes
<1>2. known = {} => LatestEvent(rm, r) = 0
  BY DEF LatestEvent
<1>3. ASSUME known # {}
      PROVE  /\ LatestEvent(rm, r) \in known
             /\ \A j \in known : j <= LatestEvent(rm, r)
  <2>1. \E i \in known : \A j \in known : j <= i
    BY <1>1, <1>3, Greatest
  <2>2. LatestEvent(rm, r) = CHOOSE i \in known : \A j \in known : j <= i
    BY <1>3 DEF LatestEvent
  <2> HIDE DEF known
  <2>3. QED
    BY <2>1, <2>2
<1>4. QED
  BY <1>1, <1>2, <1>3

-----------------------------------------------------------------------------
(* What the handlers do to the record *)

\* A pending request is its Agent's, and its last message is its own.
LEMMA PendingFacts ==
    ASSUME NEW rm, Good(rm), NEW r \in PendingOf(rm)
    PROVE  /\ r \in Requests
           /\ rm.pending[r] \in PendingRecords
           /\ rm.pending[r].sequence \in EventsOf(rm, r)
           /\ rm.pending[r].sequence \notin OutcomesOf(rm, r)
           /\ rm.pending[r].agent = call[r].agent
           /\ rm.pending[r].agent \in Agents
           /\ call[r].phase # "idle"
<1>1. r \in Requests /\ rm.pending[r] \in PendingRecords
  BY RoomTypes DEF Good, PendingOf, IsPending
<1> DEFINE s == rm.pending[r].sequence
<1>2. /\ s \in 1..Len(rm.messages)
      /\ rm.messages[s] = RequestMessage(rm.pending[r].agent, r)
  BY DEF Good, Recorded
<1>3. s \in EventsOf(rm, r) /\ s \notin OutcomesOf(rm, r)
  BY <1>2 DEF EventsOf, OutcomesOf, RequestMessage
<1>4. rm.messages[s].agent = call[r].agent /\ call[r].phase # "idle"
  BY <1>1, <1>3 DEF Good, Correlated
<1>5. rm.messages[s].agent = rm.pending[r].agent
  BY <1>2 DEF RequestMessage
<1>6. QED
  BY <1>1, <1>3, <1>4, <1>5 DEF PendingRecords

\* The handlers' check for an outcome never finds one of a pending request.
LEMMA PendingNotClosed ==
    ASSUME NEW rm, Good(rm), NEW r \in PendingOf(rm)
    PROVE  ~Closed(rm, r)
<1>1. SUFFICES ASSUME Closed(rm, r) PROVE FALSE
  OBVIOUS
<1>2. rm \in Rooms /\ r \in Requests
  BY PendingFacts DEF Good
<1>3. LatestEvent(rm, r) \in EventsOf(rm, r) \cap Retained(rm)
  BY <1>1, <1>2, LatestIsLatest DEF Closed
<1>4. LatestEvent(rm, r) \in OutcomesOf(rm, r) \cap Retained(rm)
  BY <1>1, <1>3 DEF Closed, OutcomesOf
<1>5. QED
  BY <1>4 DEF Good, Recorded

LEMMA GrownChain ==
    ASSUME NEW rm \in Rooms, NEW mid \in Rooms, NEW new \in Rooms,
           Grown(rm, mid), Grown(mid, new), mid.members = rm.members
    PROVE  Grown(rm, new)
<1>1. Len(rm.messages) \in Nat /\ Len(mid.messages) \in Nat /\ Len(new.messages) \in Nat
  BY RoomTypes
<1>2. Longer(rm, mid) /\ Longer(mid, new)
  BY DEF Grown
<1>3. Len(rm.messages) <= Len(mid.messages) /\ Len(mid.messages) <= Len(new.messages)
  BY <1>2 DEF Longer
<1>4. \A i \in 1..Len(rm.messages) : new.messages[i] = rm.messages[i]
  BY <1>1, <1>2, <1>3 DEF Longer
<1>5. Longer(rm, new)
  BY <1>1, <1>3, <1>4 DEF Longer
<1>6. new.members \subseteq rm.members
  BY DEF Grown
<1>7. ASSUME NEW r \in PendingOf(rm)
      PROVE  \/ IsPending(new, r) /\ new.pending[r].agent = rm.pending[r].agent
             \/ rm.pending[r].agent \notin rm.members
             \/ \E j \in OutcomesOf(new, r) : j > Len(rm.messages)
  <2>1. r \in Requests
    BY <1>7 DEF PendingOf
  <2>2. CASE rm.pending[r].agent \notin rm.members
    BY <2>2
  <2>3. CASE \E j \in OutcomesOf(mid, r) : j > Len(rm.messages)
    BY <1>2, <2>1, <2>3, RingGrows
  <2>4. CASE IsPending(mid, r) /\ mid.pending[r].agent = rm.pending[r].agent
    <3>1. r \in PendingOf(mid)
      BY <2>1, <2>4 DEF PendingOf
    <3>2. \/ IsPending(new, r) /\ new.pending[r].agent = mid.pending[r].agent
          \/ mid.pending[r].agent \notin mid.members
          \/ \E j \in OutcomesOf(new, r) : j > Len(mid.messages)
      BY <3>1 DEF Grown
    <3>3. \A j \in OutcomesOf(new, r) : j \in Nat
      BY <2>1, EventTypes, <1>1
    <3>4. QED
      BY <1>1, <1>3, <2>4, <3>2, <3>3
  <2>5. QED
    BY <1>7, <2>2, <2>3, <2>4 DEF Grown
<1>8. QED
  BY <1>5, <1>6, <1>7 DEF Grown

\* The load of a record.
LEMMA NormalizeStep ==
    ASSUME NEW rm, Good(rm)
    PROVE  /\ Good(Normalize(rm))
           /\ Grown(rm, Normalize(rm))
           /\ Normalize(rm).members = rm.members
           /\ Normalize(rm).messages = rm.messages
<1> DEFINE new == Normalize(rm)
<1>1. rm \in Rooms /\ Len(rm.messages) \in Nat
  BY RoomTypes DEF Good
<1>2. /\ new.members = rm.members /\ new.messages = rm.messages
      /\ \A r \in Requests : new.pending[r] =
            IF IsPending(rm, r) /\ rm.pending[r].agent \in rm.members
            THEN rm.pending[r] ELSE None
      /\ new \in Rooms
  BY <1>1 DEF Normalize, Rooms
<1> HIDE DEF new
<1>3. /\ \A r \in Requests : EventsOf(new, r) = EventsOf(rm, r)
      /\ \A r \in Requests : OutcomesOf(new, r) = OutcomesOf(rm, r)
      /\ Retained(new) = Retained(rm)
  BY <1>2 DEF EventsOf, OutcomesOf, Retained
<1>4. \A r \in PendingOf(new) : /\ r \in PendingOf(rm) /\ r \in Requests
                                /\ new.pending[r] = rm.pending[r]
  BY <1>2 DEF PendingOf, IsPending
<1>5. IsFiniteSet(PendingOf(new))
  BY <1>4, FS_Subset DEF Good
<1>6. Recorded(new)
  <2> SUFFICES ASSUME NEW r \in PendingOf(new)
               PROVE  /\ new.pending[r].sequence \in 1..Len(new.messages)
                      /\ new.messages[new.pending[r].sequence] =
                            RequestMessage(new.pending[r].agent, r)
                      /\ \A i \in EventsOf(new, r) : i <= new.pending[r].sequence
                      /\ OutcomesOf(new, r) \cap Retained(new) = {}
    BY DEF Recorded
  <2>1. r \in PendingOf(rm) /\ r \in Requests /\ new.pending[r] = rm.pending[r]
    BY <1>4
  <2>2. QED
    BY <1>2, <1>3, <2>1 DEF Good, Recorded
<1>7. Once(new) /\ Chosen(new) /\ Correlated(new)
  BY <1>2, <1>3 DEF Good, Once, Chosen, Correlated
<1>8. Settled(new)
  <2> SUFFICES ASSUME NEW r \in Requests, NEW i \in EventsOf(rm, r) \ OutcomesOf(rm, r),
                      rm.messages[i].agent \in rm.members
               PROVE  IsPending(new, r) \/ \E j \in OutcomesOf(rm, r) : j > i
    BY <1>2, <1>3 DEF Settled
  <2>1. IsPending(rm, r) \/ \E j \in OutcomesOf(rm, r) : j > i
    BY DEF Good, Settled
  <2>2. CASE IsPending(rm, r)
    <3>1. rm.pending[r].agent = call[r].agent
      BY <2>2, PendingFacts DEF PendingOf
    <3>2. rm.messages[i].agent = call[r].agent
      BY DEF Good, Correlated
    <3>3. new.pending[r] = rm.pending[r]
      BY <1>2, <2>2, <3>1, <3>2
    <3>4. QED
      BY <2>2, <3>3 DEF IsPending
  <2>3. QED
    BY <2>1, <2>2
<1>9. Good(new)
  BY <1>2, <1>5, <1>6, <1>7, <1>8 DEF Good
<1>10. Grown(rm, new)
  <2>1. Longer(rm, new)
    BY <1>1, <1>2 DEF Longer
  <2>2. \A r \in PendingOf(rm) :
           \/ IsPending(new, r) /\ new.pending[r].agent = rm.pending[r].agent
           \/ rm.pending[r].agent \notin rm.members
    BY <1>2 DEF PendingOf, IsPending
  <2>3. QED
    BY <1>2, <2>1, <2>2 DEF Grown
<1>11. QED
  BY <1>2, <1>9, <1>10 DEF new

\* Requests that end together: each is announced once, at the end of the ring.
LEMMA ExpireFields ==
    ASSUME NEW rm, Good(rm), NEW late, NEW departed
    PROVE  LET ended == MustEnd(rm, late, departed)
               new == Expire(rm, late, departed)
           IN  /\ ended \subseteq PendingOf(rm)
               /\ new \in Rooms
               /\ new.members = rm.members
               /\ Longer(rm, new)
               /\ \A r \in Requests : new.pending[r] =
                     IF r \in ended THEN None ELSE rm.pending[r]
               /\ \A i \in 1..Len(new.messages) : i > Len(rm.messages) =>
                     /\ new.messages[i].kind = "expired"
                     /\ new.messages[i].request \in ended
                     /\ new.messages[i].agent =
                           rm.pending[new.messages[i].request].agent
               /\ \A r \in ended : \E i \in 1..Len(new.messages) :
                     i > Len(rm.messages) /\ new.messages[i].request = r
               /\ \A i, j \in 1..Len(new.messages) :
                     (/\ i > Len(rm.messages) /\ j > Len(rm.messages)
                      /\ new.messages[i].request = new.messages[j].request) => i = j
<1> DEFINE ended == MustEnd(rm, late, departed)
           told == {r \in ended : ~Closed(rm, r)}
           Before(r) == {q \in told : rm.pending[q].sequence < rm.pending[r].sequence}
           Nth(k) == CHOOSE r \in told : Cardinality(Before(r)) = k - 1
           n == Cardinality(told)
           more == [k \in 1..n |->
                       [kind |-> "expired", request |-> Nth(k),
                        agent |-> rm.pending[Nth(k)].agent, option |-> None]]
           new == Expire(rm, late, departed)
           f == [r \in told |-> rm.pending[r].sequence]
<1>1. ended \subseteq PendingOf(rm)
  BY DEF MustEnd
<1>2. told = ended
  BY <1>1, PendingNotClosed
<1>3. rm \in Rooms /\ rm.messages \in Seq(Messages) /\ Len(rm.messages) \in Nat
  BY RoomTypes DEF Good
<1>4. IsFiniteSet(told)
  BY <1>1, <1>2, FS_Subset DEF Good
<1>5. \A r \in told : /\ r \in Requests
                      /\ rm.pending[r].sequence \in Nat
                      /\ rm.pending[r].agent \in Agents
  BY <1>1, <1>2, PendingFacts DEF PendingRecords
<1>6. f \in [told -> Nat]
  BY <1>5
<1>7. \A x, y \in told : f[x] = f[y] => x = y
  <2> TAKE x, y \in told
  <2> HAVE f[x] = f[y]
  <2>1. /\ rm.messages[rm.pending[x].sequence] = RequestMessage(rm.pending[x].agent, x)
        /\ rm.messages[rm.pending[y].sequence] = RequestMessage(rm.pending[y].agent, y)
    BY <1>1, <1>2 DEF Good, Recorded
  <2>2. rm.pending[x].sequence = rm.pending[y].sequence
    OBVIOUS
  <2>3. QED
    BY <2>1, <2>2 DEF RequestMessage
<1>8. \A r \in told : Before(r) = Below(told, f, r)
  BY DEF Below
<1>9. /\ n \in Nat
      /\ \A r \in told : Cardinality(Before(r)) \in 0..(n - 1)
      /\ \A x, y \in told : Cardinality(Before(x)) = Cardinality(Before(y)) => x = y
      /\ \A k \in 0..(n - 1) : \E r \in told : Cardinality(Before(r)) = k
  <2> HIDE DEF told, f, Before
  <2>1. QED
    <3>1. Ranked(told, f)
      BY <1>4, <1>6, <1>7, Ranks
    <3>2. QED
      BY <1>8, <3>1 DEF Ranked
<1>10. \A k \in 1..n : Nth(k) \in told /\ Cardinality(Before(Nth(k))) = k - 1
  <2> HIDE DEF told, Before
  <2> TAKE k \in 1..n
  <2>1. k - 1 \in 0..(n - 1)
    BY <1>9
  <2>2. \E r \in told : Cardinality(Before(r)) = k - 1
    BY <1>9, <2>1
  <2>3. QED
    BY <2>2
<1>11. \A j, k \in 1..n : Nth(j) = Nth(k) => j = k
  <2> HIDE DEF told, Before, Nth
  <2>1. QED
    BY <1>9, <1>10
<1>12. \A r \in told : \E k \in 1..n : Nth(k) = r
  <2> HIDE DEF told, Before, Nth
  <2> TAKE r \in told
  <2>1. Cardinality(Before(r)) + 1 \in 1..n
    BY <1>9
  <2>2. Cardinality(Before(Nth(Cardinality(Before(r)) + 1))) = Cardinality(Before(r))
    BY <1>9, <1>10, <2>1
  <2>3. QED
    BY <1>9, <1>10, <2>1, <2>2
<1>13. more \in Seq(Messages) /\ Len(more) = n
  <2> HIDE DEF told, Nth
  <2>1. \A k \in 1..n : more[k] \in Messages
    BY <1>5, <1>10 DEF Messages
  <2>2. QED
    BY <1>9, <2>1
<1>14. new = [rm EXCEPT !.pending = [r \in Requests |-> IF r \in ended THEN None ELSE @[r]],
                        !.messages = @ \o more]
  BY DEF Expire
<1> DEFINE left == [r \in Requests |-> IF r \in ended THEN None ELSE rm.pending[r]]
<1> HIDE DEF more, new, ended, told, n
<1>15. /\ new.members = rm.members
       /\ new.messages = rm.messages \o more
       /\ \A r \in Requests : new.pending[r] = IF r \in ended THEN None ELSE rm.pending[r]
       /\ new \in Rooms
  <2>1. left \in [Requests -> PendingRecords \cup {None}]
    BY <1>3, RoomTypes
  <2>2. rm.messages \o more \in Seq(Messages)
    BY <1>3, <1>13
  <2>3. new = [members |-> rm.members, pending |-> left, messages |-> rm.messages \o more]
    BY <1>3, <1>14 DEF Rooms
  <2>4. rm.members \in SUBSET Agents
    BY <1>3 DEF Rooms
  <2>5. QED
    BY <2>1, <2>2, <2>3, <2>4 DEF Rooms
<1>16. /\ Len(new.messages) = Len(rm.messages) + n
       /\ \A i \in 1..Len(rm.messages) : new.messages[i] = rm.messages[i]
       /\ \A i \in 1..Len(new.messages) : i > Len(rm.messages) =>
             /\ i - Len(rm.messages) \in 1..n
             /\ new.messages[i] = more[i - Len(rm.messages)]
       /\ \A k \in 1..n : /\ Len(rm.messages) + k \in 1..Len(new.messages)
                          /\ new.messages[Len(rm.messages) + k] = more[k]
  <2>1. Len(new.messages) = Len(rm.messages) + n /\ n \in Nat
    <3>1. Len(rm.messages \o more) = Len(rm.messages) + Len(more)
      BY <1>3, <1>13, JoinedSequences
    <3>2. n \in Nat
      BY <1>9
    <3>3. QED
      BY <1>13, <1>15, <3>1, <3>2
  <2>2. /\ \A i \in 1..Len(rm.messages) : new.messages[i] = rm.messages[i]
        /\ \A k \in 1..n : new.messages[Len(rm.messages) + k] = more[k]
    BY <1>3, <1>13, <1>15, JoinedSequences
  <2>3. \A i \in 1..Len(new.messages) : i > Len(rm.messages) =>
           /\ i - Len(rm.messages) \in 1..n
           /\ i = Len(rm.messages) + (i - Len(rm.messages))
    BY <1>3, <2>1
  <2>4. \A k \in 1..n : Len(rm.messages) + k \in 1..Len(new.messages)
    BY <1>3, <2>1
  <2>5. QED
    BY <2>1, <2>2, <2>3, <2>4
<1>17. Longer(rm, new)
  BY <1>3, <1>9, <1>16 DEF Longer
<1>18. \A k \in 1..n : /\ more[k].kind = "expired"
                       /\ more[k].request = Nth(k)
                       /\ more[k].agent = rm.pending[Nth(k)].agent
  BY DEF more
<1> HIDE DEF Nth
<1>19. \A i \in 1..Len(new.messages) : i > Len(rm.messages) =>
          /\ new.messages[i].kind = "expired"
          /\ new.messages[i].request \in ended
          /\ new.messages[i].agent = rm.pending[new.messages[i].request].agent
  <2>1. \A k \in 1..n : Nth(k) \in ended
    BY <1>2, <1>10
  <2>2. QED
    BY <1>16, <1>18, <2>1
<1>20. \A r \in ended : \E i \in 1..Len(new.messages) :
          i > Len(rm.messages) /\ new.messages[i].request = r
  <2> TAKE r \in ended
  <2>1. PICK k \in 1..n : Nth(k) = r
    BY <1>2, <1>12
  <2>2. Len(rm.messages) + k > Len(rm.messages)
    BY <1>3, <1>9
  <2>3. new.messages[Len(rm.messages) + k].request = r
    BY <1>16, <1>18, <2>1
  <2>4. QED
    BY <1>16, <2>2, <2>3
<1>21. \A i, j \in 1..Len(new.messages) :
          (/\ i > Len(rm.messages) /\ j > Len(rm.messages)
           /\ new.messages[i].request = new.messages[j].request) => i = j
  <2> TAKE i, j \in 1..Len(new.messages)
  <2> HAVE /\ i > Len(rm.messages) /\ j > Len(rm.messages)
           /\ new.messages[i].request = new.messages[j].request
  <2>1. i - Len(rm.messages) \in 1..n /\ j - Len(rm.messages) \in 1..n
    BY <1>16
  <2>2. Nth(i - Len(rm.messages)) = Nth(j - Len(rm.messages))
    BY <1>16, <1>18, <2>1
  <2>3. i - Len(rm.messages) = j - Len(rm.messages)
    BY <1>11, <2>1, <2>2
  <2>4. QED
    BY <1>3, <1>16, <2>3
<1>22. QED
  BY <1>1, <1>15, <1>17, <1>19, <1>20, <1>21 DEF new, ended

LEMMA ExpireStep ==
    ASSUME NEW rm, Good(rm), NEW late, NEW departed
    PROVE  /\ Good(Expire(rm, late, departed))
           /\ Grown(rm, Expire(rm, late, departed))
           /\ Expire(rm, late, departed).members = rm.members
<1> DEFINE ended == MustEnd(rm, late, departed)
           new == Expire(rm, late, departed)
           L == Len(rm.messages)
<1>1. /\ ended \subseteq PendingOf(rm)
      /\ new \in Rooms
      /\ new.members = rm.members
      /\ Longer(rm, new)
      /\ \A r \in Requests : new.pending[r] = IF r \in ended THEN None ELSE rm.pending[r]
  BY ExpireFields
<1>2. \A i \in 1..Len(new.messages) : i > L =>
         /\ new.messages[i].kind = "expired"
         /\ new.messages[i].request \in ended
         /\ new.messages[i].agent = rm.pending[new.messages[i].request].agent
  BY ExpireFields
<1>3. \A r \in ended : \E i \in 1..Len(new.messages) :
         i > L /\ new.messages[i].request = r
  BY ExpireFields
<1>4. \A i, j \in 1..Len(new.messages) :
         (i > L /\ j > L /\ new.messages[i].request = new.messages[j].request) => i = j
  BY ExpireFields
<1>5. /\ rm \in Rooms /\ L \in Nat /\ Len(new.messages) \in Nat
      /\ L <= Len(new.messages)
      /\ \A i \in 1..L : new.messages[i] = rm.messages[i]
  BY <1>1, RoomTypes DEF Good, Longer
<1>6. \A r \in Requests :
         /\ EventsOf(new, r) \subseteq 1..Len(new.messages)
         /\ OutcomesOf(new, r) \subseteq EventsOf(new, r)
         /\ \A i \in EventsOf(new, r) : new.messages[i].request = r
  BY <1>1, EventTypes
<1>7. \A r \in PendingOf(new) : /\ r \in PendingOf(rm) /\ r \in Requests
                                /\ r \notin ended
                                /\ new.pending[r] = rm.pending[r]
  BY <1>1 DEF PendingOf, IsPending
<1> HIDE DEF new, ended, L
<1>8. \A r \in Requests : \A i \in EventsOf(new, r) :
         \/ i \in EventsOf(rm, r) /\ i <= L
         \/ i > L /\ r \in ended /\ i \in OutcomesOf(new, r)
  <2> TAKE r \in Requests
  <2> TAKE i \in EventsOf(new, r)
  <2>1. i \in 1..Len(new.messages) /\ new.messages[i].request = r
    BY <1>6
  <2>2. CASE i <= L
    BY <1>1, <1>5, <2>2, RingGrows DEF L
  <2>3. CASE i > L
    BY <1>2, <2>1, <2>3 DEF OutcomesOf
  <2>4. QED
    BY <1>5, <2>1, <2>2, <2>3
<1>9. \A r \in ended : \E i \in OutcomesOf(new, r) : i > L
  <2> TAKE r \in ended
  <2>1. PICK i \in 1..Len(new.messages) : i > L /\ new.messages[i].request = r
    BY <1>3
  <2>2. new.messages[i].kind = "expired"
    BY <1>2, <2>1
  <2>3. i \in OutcomesOf(new, r)
    BY <2>1, <2>2 DEF OutcomesOf, EventsOf
  <2>4. QED
    BY <2>1, <2>3
<1>10. \A r \in Requests : \A i \in OutcomesOf(new, r) \cap Retained(new) :
          i <= L => i \in OutcomesOf(rm, r) \cap Retained(rm)
  BY <1>1, <1>5, <1>6, RingGrows DEF L
<1>11. IsFiniteSet(PendingOf(new))
  BY <1>7, FS_Subset DEF Good
<1>12. Recorded(new)
  <2> SUFFICES ASSUME NEW r \in PendingOf(new)
               PROVE  /\ new.pending[r].sequence \in 1..Len(new.messages)
                      /\ new.messages[new.pending[r].sequence] =
                            RequestMessage(new.pending[r].agent, r)
                      /\ \A i \in EventsOf(new, r) : i <= new.pending[r].sequence
                      /\ OutcomesOf(new, r) \cap Retained(new) = {}
    BY DEF Recorded
  <2>1. /\ r \in PendingOf(rm) /\ r \in Requests /\ r \notin ended
        /\ new.pending[r] = rm.pending[r]
    BY <1>7
  <2>2. /\ rm.pending[r].sequence \in 1..L
        /\ rm.messages[rm.pending[r].sequence] = RequestMessage(rm.pending[r].agent, r)
        /\ \A i \in EventsOf(rm, r) : i <= rm.pending[r].sequence
        /\ OutcomesOf(rm, r) \cap Retained(rm) = {}
    BY <2>1 DEF Good, Recorded, L
  <2>3. \A i \in EventsOf(new, r) : i \in EventsOf(rm, r) /\ i <= L
    BY <1>8, <2>1
  <2>4. OutcomesOf(new, r) \cap Retained(new) = {}
    BY <1>6, <1>10, <2>1, <2>2, <2>3
  <2>5. QED
    BY <1>5, <2>1, <2>2, <2>3, <2>4
<1>13. Once(new)
  <2> SUFFICES ASSUME NEW r \in Requests,
                      NEW i \in OutcomesOf(new, r) \cap Retained(new),
                      NEW j \in OutcomesOf(new, r) \cap Retained(new)
               PROVE  i = j
    BY DEF Once
  <2>1. /\ i \in 1..Len(new.messages) /\ j \in 1..Len(new.messages)
        /\ new.messages[i].request = new.messages[j].request
    BY <1>6
  <2>2. r \in ended => OutcomesOf(rm, r) \cap Retained(rm) = {}
    BY <1>1 DEF Good, Recorded
  <2>3. /\ i > L => r \in ended
        /\ j > L => r \in ended
    BY <1>5, <1>6, <1>8
  <2>4. CASE i <= L /\ j <= L
    BY <1>10, <2>4 DEF Good, Once
  <2>5. CASE i > L /\ j > L
    BY <1>4, <2>1, <2>5
  <2>6. CASE (i > L /\ j <= L) \/ (i <= L /\ j > L)
    BY <1>10, <2>2, <2>3, <2>6
  <2>7. QED
    BY <1>5, <2>1, <2>4, <2>5, <2>6
<1>14. Chosen(new)
  <2> SUFFICES ASSUME NEW i \in 1..Len(new.messages), new.messages[i].kind = "resolved"
               PROVE  new.messages[i].option \in Options
    BY DEF Chosen
  <2>1. i <= L
    BY <1>2, <1>5
  <2>2. QED
    BY <1>5, <2>1 DEF Good, Chosen, L
<1>15. Correlated(new)
  <2> SUFFICES ASSUME NEW r \in Requests, NEW i \in EventsOf(new, r)
               PROVE  new.messages[i].agent = call[r].agent /\ call[r].phase # "idle"
    BY DEF Correlated
  <2>1. CASE i \in EventsOf(rm, r) /\ i <= L
    <3>1. new.messages[i] = rm.messages[i]
      BY <1>5, <1>6, <2>1
    <3>2. QED
      BY <2>1, <3>1 DEF Good, Correlated
  <2>2. CASE i > L /\ r \in ended
    <3>1. rm.pending[r].agent = call[r].agent /\ call[r].phase # "idle"
      BY <1>1, <2>2, PendingFacts
    <3>2. new.messages[i].agent = rm.pending[r].agent
      BY <1>2, <1>6, <2>2
    <3>3. QED
      BY <3>1, <3>2
  <2>3. QED
    BY <1>8, <2>1, <2>2
<1>16. Settled(new)
  <2> SUFFICES ASSUME NEW r \in Requests, NEW i \in EventsOf(new, r) \ OutcomesOf(new, r),
                      new.messages[i].agent \in new.members
               PROVE  IsPending(new, r) \/ \E j \in OutcomesOf(new, r) : j > i
    BY DEF Settled
  <2>1. i \in EventsOf(rm, r) /\ i <= L /\ i \in Nat
    BY <1>6, <1>8
  <2>2. new.messages[i] = rm.messages[i]
    BY <1>5, <1>6, <2>1
  <2>3. i \notin OutcomesOf(rm, r)
    BY <1>1, <1>5, RingGrows
  <2>4. IsPending(rm, r) \/ \E j \in OutcomesOf(rm, r) : j > i
    BY <1>1, <2>1, <2>2, <2>3 DEF Good, Settled
  <2>5. CASE \E j \in OutcomesOf(rm, r) : j > i
    BY <1>1, <1>5, <2>5, RingGrows
  <2>6. CASE r \in ended
    <3>1. PICK j \in OutcomesOf(new, r) : j > L
      BY <1>9, <2>6
    <3>2. j \in Nat
      BY <1>6
    <3>3. QED
      BY <1>5, <2>1, <3>1, <3>2
  <2>7. CASE IsPending(rm, r) /\ r \notin ended
    BY <1>1, <2>7 DEF IsPending
  <2>8. QED
    BY <2>4, <2>5, <2>6, <2>7
<1>17. Good(new)
  BY <1>1, <1>11, <1>12, <1>13, <1>14, <1>15, <1>16 DEF Good
<1>18. Grown(rm, new)
  <2>1. ASSUME NEW r \in PendingOf(rm)
        PROVE  \/ IsPending(new, r) /\ new.pending[r].agent = rm.pending[r].agent
               \/ \E j \in OutcomesOf(new, r) : j > L
    BY <1>1, <1>9 DEF PendingOf, IsPending
  <2>2. QED
    BY <1>1, <2>1 DEF Grown, L
<1>19. QED
  BY <1>1, <1>17, <1>18 DEF new

\* A request's message is appended and becomes the one of its record.
LEMMA PresentStep ==
    ASSUME NEW rm, Good(rm), NEW a \in Agents, NEW r \in Requests,
           call[r].agent = a, call[r].phase # "idle",
           OutcomesOf(rm, r) \cap Retained(rm) = {}
    PROVE  /\ Good(Present(rm, a, r))
           /\ Grown(rm, Present(rm, a, r))
           /\ Present(rm, a, r).members = rm.members
           /\ IsPending(Present(rm, a, r), r)
<1> DEFINE new == Present(rm, a, r)
           m == RequestMessage(a, r)
           n == Len(rm.messages) + 1
           p == [agent |-> a, sequence |-> n]
<1>1. rm \in Rooms /\ Len(rm.messages) \in Nat /\ n \in Nat \ {0}
  BY RoomTypes DEF Good
<1>2. m \in Messages /\ m.kind = "request" /\ m.request = r /\ m.agent = a
  BY DEF RequestMessage, Messages
<1>3. p \in PendingRecords /\ p.agent = a /\ p.sequence = n /\ p # None
  <2>1. p \in PendingRecords /\ p.agent = a /\ p.sequence = n
    BY <1>1 DEF PendingRecords
  <2>2. QED
    BY <2>1, NoneIsNoRecord
<1> HIDE DEF p, m
<1>4. /\ new.members = rm.members
      /\ new.messages = Append(rm.messages, m)
      /\ \A q \in Requests : new.pending[q] = IF q = r THEN p ELSE rm.pending[q]
      /\ new \in Rooms
  <2>1. new = [rm EXCEPT !.messages = Append(@, m), !.pending[r] = p]
    BY DEF Present, m, p
  <2>2. rm.pending \in [Requests -> PendingRecords \cup {None}]
    BY <1>1, RoomTypes
  <2>3. [rm.pending EXCEPT ![r] = p] \in [Requests -> PendingRecords \cup {None}]
    BY <1>3, <2>2
  <2>4. Append(rm.messages, m) \in Seq(Messages)
    BY <1>1, <1>2, RoomTypes
  <2>5. new = [members |-> rm.members, pending |-> [rm.pending EXCEPT ![r] = p],
               messages |-> Append(rm.messages, m)]
    BY <1>1, <2>1 DEF Rooms
  <2>6. rm.members \in SUBSET Agents
    BY <1>1, RoomTypes
  <2>7. QED
    BY <2>2, <2>3, <2>4, <2>5, <2>6 DEF Rooms
<1> HIDE DEF new, n
<1>5. /\ Longer(rm, new)
      /\ Len(new.messages) = n
      /\ new.messages[n] = m
      /\ \A q \in Requests : \A i \in EventsOf(new, q) :
            i \in EventsOf(rm, q) \/ (i = n /\ q = r)
      /\ \A q \in Requests : \A i \in OutcomesOf(new, q) : i \in OutcomesOf(rm, q)
  BY <1>1, <1>2, <1>4, AppendFacts DEF n
<1>6. \A i \in 1..Len(rm.messages) : new.messages[i] = rm.messages[i]
  BY <1>5 DEF Longer
<1>7. \A q \in Requests : EventsOf(rm, q) \subseteq 1..Len(rm.messages)
  BY <1>1, EventTypes
<1>8. \A q \in Requests :
         OutcomesOf(new, q) \cap Retained(new) \subseteq OutcomesOf(rm, q) \cap Retained(rm)
  BY <1>1, <1>4, <1>5, <1>7, EventTypes, RingGrows
<1>9. \A q \in PendingOf(new) : /\ q \in Requests
                                /\ q # r => q \in PendingOf(rm) /\ new.pending[q] = rm.pending[q]
                                /\ q = r => new.pending[q] = p
  BY <1>4 DEF PendingOf, IsPending
<1>10. IsFiniteSet(PendingOf(new))
  <2>1. PendingOf(new) \in SUBSET (PendingOf(rm) \cup {r})
    BY <1>9
  <2>2. IsFiniteSet(PendingOf(rm) \cup {r})
    BY FS_AddElement DEF Good
  <2>3. QED
    BY <2>1, <2>2, FS_Subset
<1>11. Recorded(new)
  <2> SUFFICES ASSUME NEW q \in PendingOf(new)
               PROVE  /\ new.pending[q].sequence \in 1..Len(new.messages)
                      /\ new.messages[new.pending[q].sequence] =
                            RequestMessage(new.pending[q].agent, q)
                      /\ \A i \in EventsOf(new, q) : i <= new.pending[q].sequence
                      /\ OutcomesOf(new, q) \cap Retained(new) = {}
    BY DEF Recorded
  <2>1. CASE q = r
    <3>1. new.pending[q].sequence = n /\ new.pending[q].agent = a
      BY <1>3, <1>9, <2>1
    <3>2. \A i \in EventsOf(new, q) : i <= n
      BY <1>1, <1>5, <1>7, <2>1 DEF n
    <3>3. OutcomesOf(new, q) \cap Retained(new) = {}
      BY <1>8, <2>1
    <3>4. n \in 1..Len(new.messages) /\ new.messages[n] = RequestMessage(a, r)
      BY <1>1, <1>5 DEF m
    <3>5. QED
      BY <2>1, <3>1, <3>2, <3>3, <3>4
  <2>2. CASE q # r
    <3>1. q \in PendingOf(rm) /\ q \in Requests /\ new.pending[q] = rm.pending[q]
      BY <1>9, <2>2
    <3>2. /\ rm.pending[q].sequence \in 1..Len(rm.messages)
          /\ rm.messages[rm.pending[q].sequence] = RequestMessage(rm.pending[q].agent, q)
          /\ \A i \in EventsOf(rm, q) : i <= rm.pending[q].sequence
          /\ OutcomesOf(rm, q) \cap Retained(rm) = {}
      BY <3>1 DEF Good, Recorded
    <3>3. \A i \in EventsOf(new, q) : i \in EventsOf(rm, q)
      BY <1>5, <2>2, <3>1
    <3>4. OutcomesOf(new, q) \cap Retained(new) = {}
      BY <1>8, <3>1, <3>2
    <3>5. new.pending[q].sequence \in 1..Len(new.messages)
      BY <1>1, <1>5, <3>1, <3>2 DEF n
    <3>6. QED
      BY <1>6, <3>1, <3>2, <3>3, <3>4, <3>5
  <2>3. QED
    BY <2>1, <2>2
<1>12. Once(new)
  BY <1>8 DEF Once, Good
<1>13. Chosen(new)
  <2> SUFFICES ASSUME NEW i \in 1..Len(new.messages), new.messages[i].kind = "resolved"
               PROVE  new.messages[i].option \in Options
    BY DEF Chosen
  <2>1. i # n
    BY <1>2, <1>5
  <2>2. i \in 1..Len(rm.messages)
    BY <1>1, <1>5, <2>1 DEF n
  <2>3. QED
    BY <1>6, <2>2 DEF Good, Chosen
<1>14. Correlated(new)
  <2> SUFFICES ASSUME NEW q \in Requests, NEW i \in EventsOf(new, q)
               PROVE  new.messages[i].agent = call[q].agent /\ call[q].phase # "idle"
    BY DEF Correlated
  <2>1. CASE i \in EventsOf(rm, q)
    BY <1>6, <1>7, <2>1 DEF Good, Correlated
  <2>2. CASE i = n /\ q = r
    BY <1>2, <1>5, <2>2
  <2>3. QED
    BY <1>5, <2>1, <2>2
<1>15. IsPending(new, r)
  BY <1>3, <1>4 DEF IsPending
<1>16. Settled(new)
  <2> SUFFICES ASSUME NEW q \in Requests, NEW i \in EventsOf(new, q) \ OutcomesOf(new, q),
                      new.messages[i].agent \in new.members
               PROVE  IsPending(new, q) \/ \E j \in OutcomesOf(new, q) : j > i
    BY DEF Settled
  <2>1. CASE q = r
    BY <1>15, <2>1
  <2>2. CASE q # r
    <3>1. i \in EventsOf(rm, q) /\ new.messages[i] = rm.messages[i]
      BY <1>5, <1>6, <1>7, <2>2
    <3>2. OutcomesOf(rm, q) \subseteq OutcomesOf(new, q)
      BY <1>1, <1>4, <1>5, RingGrows
    <3>3. IsPending(rm, q) \/ \E j \in OutcomesOf(rm, q) : j > i
      BY <1>4, <3>1, <3>2 DEF Good, Settled
    <3>4. IsPending(rm, q) => IsPending(new, q)
      BY <1>4, <2>2 DEF IsPending
    <3>5. QED
      BY <3>2, <3>3, <3>4
  <2>3. QED
    BY <2>1, <2>2
<1>17. Good(new)
  BY <1>4, <1>10, <1>11, <1>12, <1>13, <1>14, <1>16 DEF Good
<1>18. Grown(rm, new)
  <2>1. ASSUME NEW q \in PendingOf(rm)
        PROVE  IsPending(new, q) /\ new.pending[q].agent = rm.pending[q].agent
    <3>1. rm.pending[q].agent = call[q].agent /\ q \in Requests /\ IsPending(rm, q)
      BY PendingFacts DEF PendingOf
    <3>2. QED
      BY <1>3, <1>4, <1>15, <3>1 DEF IsPending
  <2>2. QED
    BY <1>4, <1>5, <2>1 DEF Grown
<1>19. QED
  BY <1>4, <1>15, <1>17, <1>18 DEF new

\* A valid answer closes the request.
LEMMA ResolveStep ==
    ASSUME NEW rm, Good(rm), NEW r \in PendingOf(rm), NEW o \in Options
    PROVE  /\ Good(Resolve(rm, r, o))
           /\ Grown(rm, Resolve(rm, r, o))
           /\ Resolve(rm, r, o).members = rm.members
<1> DEFINE new == Resolve(rm, r, o)
           n == Len(rm.messages) + 1
           m == [kind |-> "resolved", request |-> r, agent |-> rm.pending[r].agent, option |-> o]
<1>1. rm \in Rooms /\ Len(rm.messages) \in Nat /\ n \in Nat \ {0}
  BY RoomTypes DEF Good
<1>2. /\ r \in Requests
      /\ rm.pending[r].agent = call[r].agent
      /\ rm.pending[r].agent \in Agents
      /\ call[r].phase # "idle"
      /\ OutcomesOf(rm, r) \cap Retained(rm) = {}
  BY PendingFacts DEF Good, Recorded
<1>3. /\ m \in Messages /\ m.kind = "resolved" /\ m.request = r
      /\ m.agent = call[r].agent /\ m.option = o
  BY <1>2 DEF Messages
<1>4. /\ new.members = rm.members
      /\ new.messages = Append(rm.messages, m)
      /\ \A q \in Requests : new.pending[q] = IF q = r THEN None ELSE rm.pending[q]
      /\ new \in Rooms
  <2>1. new = [rm EXCEPT !.pending[r] = None, !.messages = Append(@, m)]
    BY DEF Resolve
  <2> HIDE DEF m
  <2>2. rm.pending \in [Requests -> PendingRecords \cup {None}]
    BY <1>1, RoomTypes
  <2>3. [rm.pending EXCEPT ![r] = None] \in [Requests -> PendingRecords \cup {None}]
    BY <2>2
  <2>4. Append(rm.messages, m) \in Seq(Messages)
    BY <1>1, <1>3, RoomTypes
  <2>5. new = [members |-> rm.members, pending |-> [rm.pending EXCEPT ![r] = None],
               messages |-> Append(rm.messages, m)]
    BY <1>1, <2>1 DEF Rooms
  <2>6. rm.members \in SUBSET Agents
    BY <1>1, RoomTypes
  <2>7. QED
    BY <2>2, <2>3, <2>4, <2>5, <2>6 DEF Rooms
<1> HIDE DEF new, n, m
<1>5. /\ Longer(rm, new)
      /\ Len(new.messages) = n
      /\ new.messages[n] = m
      /\ \A q \in Requests : \A i \in EventsOf(new, q) :
            i \in EventsOf(rm, q) \/ (i = n /\ q = r)
      /\ \A q \in Requests : \A i \in OutcomesOf(new, q) :
            i \in OutcomesOf(rm, q) \/ (i = n /\ q = r)
  BY <1>1, <1>3, <1>4, AppendFacts DEF n
<1>6. \A i \in 1..Len(rm.messages) : new.messages[i] = rm.messages[i]
  BY <1>5 DEF Longer
<1>7. \A q \in Requests : /\ EventsOf(rm, q) \subseteq 1..Len(rm.messages)
                          /\ OutcomesOf(rm, q) \subseteq EventsOf(rm, q)
                          /\ OutcomesOf(rm, q) \subseteq OutcomesOf(new, q)
  BY <1>1, <1>4, <1>5, EventTypes, RingGrows
<1>8. \A q \in Requests : \A i \in OutcomesOf(new, q) \cap Retained(new) :
         i \in OutcomesOf(rm, q) \cap Retained(rm) \/ (i = n /\ q = r)
  BY <1>1, <1>4, <1>5, <1>7, RingGrows
<1>9. \A q \in PendingOf(new) : /\ q \in Requests /\ q # r
                                /\ q \in PendingOf(rm) /\ new.pending[q] = rm.pending[q]
  BY <1>4 DEF PendingOf, IsPending
<1>10. IsFiniteSet(PendingOf(new))
  BY <1>9, FS_Subset DEF Good
<1>11. Recorded(new)
  <2> SUFFICES ASSUME NEW q \in PendingOf(new)
               PROVE  /\ new.pending[q].sequence \in 1..Len(new.messages)
                      /\ new.messages[new.pending[q].sequence] =
                            RequestMessage(new.pending[q].agent, q)
                      /\ \A i \in EventsOf(new, q) : i <= new.pending[q].sequence
                      /\ OutcomesOf(new, q) \cap Retained(new) = {}
    BY DEF Recorded
  <2>1. /\ q \in PendingOf(rm) /\ q \in Requests /\ q # r
        /\ new.pending[q] = rm.pending[q]
    BY <1>9
  <2>2. /\ rm.pending[q].sequence \in 1..Len(rm.messages)
        /\ rm.messages[rm.pending[q].sequence] = RequestMessage(rm.pending[q].agent, q)
        /\ \A i \in EventsOf(rm, q) : i <= rm.pending[q].sequence
        /\ OutcomesOf(rm, q) \cap Retained(rm) = {}
    BY <2>1 DEF Good, Recorded
  <2>3. \A i \in EventsOf(new, q) : i \in EventsOf(rm, q)
    BY <1>5, <2>1
  <2>4. OutcomesOf(new, q) \cap Retained(new) = {}
    BY <1>8, <2>1, <2>2
  <2>5. new.pending[q].sequence \in 1..Len(new.messages)
    BY <1>1, <1>5, <2>1, <2>2 DEF n
  <2>6. QED
    BY <1>6, <2>1, <2>2, <2>3, <2>4, <2>5
<1>12. Once(new)
  <2>1. OutcomesOf(new, r) \cap Retained(new) \subseteq {n}
    BY <1>2, <1>8
  <2>2. \A q \in Requests : q # r =>
           OutcomesOf(new, q) \cap Retained(new) \subseteq OutcomesOf(rm, q) \cap Retained(rm)
    BY <1>8
  <2>3. QED
    BY <2>1, <2>2 DEF Once, Good
<1>13. Chosen(new)
  <2> SUFFICES ASSUME NEW i \in 1..Len(new.messages), new.messages[i].kind = "resolved"
               PROVE  new.messages[i].option \in Options
    BY DEF Chosen
  <2>1. CASE i = n
    BY <1>3, <1>5, <2>1
  <2>2. CASE i \in 1..Len(rm.messages)
    BY <1>6, <2>2 DEF Good, Chosen
  <2>3. QED
    BY <1>1, <1>5, <2>1, <2>2 DEF n
<1>14. Correlated(new)
  <2> SUFFICES ASSUME NEW q \in Requests, NEW i \in EventsOf(new, q)
               PROVE  new.messages[i].agent = call[q].agent /\ call[q].phase # "idle"
    BY DEF Correlated
  <2>1. CASE i \in EventsOf(rm, q)
    BY <1>6, <1>7, <2>1 DEF Good, Correlated
  <2>2. CASE i = n /\ q = r
    BY <1>2, <1>3, <1>5, <2>2
  <2>3. QED
    BY <1>5, <2>1, <2>2
<1>15. n \in OutcomesOf(new, r) /\ n > Len(rm.messages)
  <2>1. n \in 1..Len(new.messages)
    BY <1>1, <1>5
  <2>2. n > Len(rm.messages)
    BY <1>1 DEF n
  <2>3. QED
    BY <1>3, <1>5, <2>1, <2>2 DEF OutcomesOf, EventsOf
<1>16. Settled(new)
  <2> SUFFICES ASSUME NEW q \in Requests, NEW i \in EventsOf(new, q) \ OutcomesOf(new, q),
                      new.messages[i].agent \in new.members
               PROVE  IsPending(new, q) \/ \E j \in OutcomesOf(new, q) : j > i
    BY DEF Settled
  <2>1. i \in EventsOf(rm, q) /\ i \in 1..Len(rm.messages)
    BY <1>5, <1>7, <1>15
  <2>2. CASE q = r
    BY <1>1, <1>15, <2>1, <2>2
  <2>3. CASE q # r
    <3>1. IsPending(rm, q) \/ \E j \in OutcomesOf(rm, q) : j > i
      BY <1>4, <1>6, <1>7, <2>1 DEF Good, Settled
    <3>2. IsPending(rm, q) => IsPending(new, q)
      BY <1>4, <2>3 DEF IsPending
    <3>3. QED
      BY <1>7, <3>1, <3>2
  <2>4. QED
    BY <2>2, <2>3
<1>17. Good(new)
  BY <1>4, <1>10, <1>11, <1>12, <1>13, <1>14, <1>16 DEF Good
<1>18. Grown(rm, new)
  <2>1. ASSUME NEW q \in PendingOf(rm)
        PROVE  \/ IsPending(new, q) /\ new.pending[q].agent = rm.pending[q].agent
               \/ \E j \in OutcomesOf(new, q) : j > Len(rm.messages)
    BY <1>4, <1>15 DEF PendingOf, IsPending
  <2>2. QED
    BY <1>4, <1>5, <2>1 DEF Grown
<1>19. QED
  BY <1>4, <1>17, <1>18 DEF new

\* Participants go.
LEMMA RemoveStep ==
    ASSUME NEW rm, Good(rm), NEW D
    PROVE  Good(Remove(rm, D)) /\ Grown(rm, Remove(rm, D))
<1> DEFINE new == Remove(rm, D)
<1>1. rm \in Rooms /\ Len(rm.messages) \in Nat
  BY RoomTypes DEF Good
<1>2. /\ new.members = rm.members \ D
      /\ new.pending = rm.pending
      /\ new.messages = rm.messages
      /\ new \in Rooms
  BY <1>1 DEF Remove, Rooms
<1> HIDE DEF new
<1>3. /\ \A r \in Requests : EventsOf(new, r) = EventsOf(rm, r)
      /\ \A r \in Requests : OutcomesOf(new, r) = OutcomesOf(rm, r)
      /\ Retained(new) = Retained(rm)
      /\ \A r \in Requests : IsPending(new, r) = IsPending(rm, r)
      /\ PendingOf(new) = PendingOf(rm)
  BY <1>2 DEF EventsOf, OutcomesOf, Retained, IsPending, PendingOf
<1>4. \A r \in PendingOf(rm) : r \in Requests
  BY DEF PendingOf
<1>5. Recorded(new)
  BY <1>2, <1>3, <1>4 DEF Good, Recorded
<1>6. Once(new) /\ Chosen(new) /\ Correlated(new)
  BY <1>2, <1>3 DEF Good, Once, Chosen, Correlated
<1>7. Settled(new)
  BY <1>2, <1>3 DEF Good, Settled
<1>8. Good(new)
  BY <1>2, <1>3, <1>5, <1>6, <1>7 DEF Good
<1>9. Grown(rm, new)
  <2>1. Longer(rm, new)
    BY <1>1, <1>2 DEF Longer
  <2>2. QED
    BY <1>2, <2>1 DEF Grown, PendingOf, IsPending
<1>10. QED
  BY <1>8, <1>9 DEF new

\* An ordinary message.
LEMMA ChatStep ==
    ASSUME NEW rm, Good(rm)
    PROVE  LET new == [rm EXCEPT !.messages = Append(@, [kind |-> "chat"])]
           IN  Good(new) /\ Grown(rm, new)
<1> DEFINE m == [kind |-> "chat"]
           new == [rm EXCEPT !.messages = Append(@, m)]
<1>1. rm \in Rooms /\ Len(rm.messages) \in Nat
  BY RoomTypes DEF Good
<1>2. m \in Messages /\ m.kind = "chat"
  BY DEF Messages
<1>3. /\ new.members = rm.members
      /\ new.pending = rm.pending
      /\ new.messages = Append(rm.messages, m)
      /\ new \in Rooms
  <2> HIDE DEF m
  <2>1. Append(rm.messages, m) \in Seq(Messages)
    BY <1>1, <1>2, RoomTypes
  <2>2. QED
    BY <1>1, <2>1 DEF Rooms
<1> HIDE DEF new, m
<1>4. /\ Longer(rm, new)
      /\ Len(new.messages) = Len(rm.messages) + 1
      /\ new.messages[Len(rm.messages) + 1] = m
      /\ \A q \in Requests : \A i \in EventsOf(new, q) : i \in EventsOf(rm, q)
      /\ \A q \in Requests : \A i \in OutcomesOf(new, q) : i \in OutcomesOf(rm, q)
  BY <1>1, <1>2, <1>3, AppendFacts
<1>5. \A i \in 1..Len(rm.messages) : new.messages[i] = rm.messages[i]
  BY <1>4 DEF Longer
<1>6. \A q \in Requests : /\ EventsOf(rm, q) \subseteq 1..Len(rm.messages)
                          /\ EventsOf(new, q) = EventsOf(rm, q)
                          /\ OutcomesOf(new, q) = OutcomesOf(rm, q)
                          /\ OutcomesOf(rm, q) \subseteq EventsOf(rm, q)
  BY <1>1, <1>3, <1>4, EventTypes, RingGrows
<1>7. \A i \in 1..Len(rm.messages) : i \in Retained(new) => i \in Retained(rm)
  BY <1>1, <1>3, <1>4, RingGrows
<1>8. \A q \in Requests :
         OutcomesOf(new, q) \cap Retained(new) \subseteq OutcomesOf(rm, q) \cap Retained(rm)
  BY <1>6, <1>7
<1>9. /\ PendingOf(new) = PendingOf(rm)
      /\ \A q \in Requests : IsPending(new, q) = IsPending(rm, q)
      /\ \A q \in PendingOf(rm) : q \in Requests
  BY <1>3 DEF PendingOf, IsPending
<1>10. Recorded(new)
  <2> SUFFICES ASSUME NEW q \in PendingOf(rm)
               PROVE  /\ new.pending[q].sequence \in 1..Len(new.messages)
                      /\ new.messages[new.pending[q].sequence] =
                            RequestMessage(new.pending[q].agent, q)
                      /\ \A i \in EventsOf(new, q) : i <= new.pending[q].sequence
                      /\ OutcomesOf(new, q) \cap Retained(new) = {}
    BY <1>9 DEF Recorded
  <2>1. /\ rm.pending[q].sequence \in 1..Len(rm.messages)
        /\ rm.messages[rm.pending[q].sequence] = RequestMessage(rm.pending[q].agent, q)
        /\ \A i \in EventsOf(rm, q) : i <= rm.pending[q].sequence
        /\ OutcomesOf(rm, q) \cap Retained(rm) = {}
    BY DEF Good, Recorded
  <2>2. QED
    BY <1>1, <1>3, <1>4, <1>5, <1>6, <1>8, <1>9, <2>1
<1>11. Once(new)
  BY <1>8 DEF Good, Once
<1>12. Chosen(new)
  <2> SUFFICES ASSUME NEW i \in 1..Len(new.messages), new.messages[i].kind = "resolved"
               PROVE  new.messages[i].option \in Options
    BY DEF Chosen
  <2>1. i \in 1..Len(rm.messages)
    BY <1>1, <1>2, <1>4
  <2>2. QED
    BY <1>5, <2>1 DEF Good, Chosen
<1>13. Correlated(new)
  BY <1>5, <1>6 DEF Good, Correlated
<1>14. Settled(new)
  <2> SUFFICES ASSUME NEW q \in Requests, NEW i \in EventsOf(rm, q) \ OutcomesOf(rm, q),
                      new.messages[i].agent \in rm.members
               PROVE  IsPending(rm, q) \/ \E j \in OutcomesOf(rm, q) : j > i
    BY <1>3, <1>6, <1>9 DEF Settled
  <2>1. rm.messages[i].agent \in rm.members
    BY <1>5, <1>6
  <2>2. QED
    BY <2>1 DEF Good, Settled
<1>15. Good(new)
  BY <1>3, <1>9, <1>10, <1>11, <1>12, <1>13, <1>14 DEF Good
<1>16. Grown(rm, new)
  BY <1>3, <1>4, <1>9 DEF Grown, PendingOf
<1>17. QED
  BY <1>15, <1>16 DEF new, m

\* What the room accepts of an Agent it has is pending afterwards: the ring
\* cannot hold the request as its latest message and the record not.
LEMMA IngestStep ==
    ASSUME NEW rm, Good(rm), NEW a \in rm.members, NEW r \in Requests,
           call[r].agent = a, call[r].phase # "idle"
    PROVE  /\ Good(Ingest(rm, a, r))
           /\ Grown(rm, Ingest(rm, a, r))
           /\ Accepted(rm, a, r) => IsPending(Ingest(rm, a, r), r)
<1>1. rm \in Rooms /\ a \in Agents
  BY RoomTypes DEF Good
<1>2. OutcomesOf(rm, r) \subseteq EventsOf(rm, r)
  BY <1>1, EventTypes
<1>3. CASE Recordable(rm, r) \/ Replayable(rm, a, r)
  <2>1. OutcomesOf(rm, r) \cap Retained(rm) = {}
    <3>1. CASE Recordable(rm, r)
      BY <1>1, <1>2, <3>1, LatestIsLatest DEF Recordable
    <3>2. CASE Replayable(rm, a, r)
      BY <3>2 DEF Replayable, Good, Recorded, PendingOf
    <3>3. QED
      BY <1>3, <3>1, <3>2
  <2>2. /\ Good(Present(rm, a, r))
        /\ Grown(rm, Present(rm, a, r))
        /\ IsPending(Present(rm, a, r), r)
    BY <1>1, <2>1, PresentStep
  <2>3. Ingest(rm, a, r) = Present(rm, a, r)
    BY <1>3 DEF Ingest
  <2>4. QED
    BY <2>2, <2>3
<1>4. CASE ~(Recordable(rm, r) \/ Replayable(rm, a, r))
  <2>1. Ingest(rm, a, r) = rm
    BY <1>4 DEF Ingest
  <2>2. Grown(rm, rm)
    <3>1. Len(rm.messages) \in Nat
      BY <1>1, RoomTypes
    <3>2. QED
      BY <3>1 DEF Grown, Longer, PendingOf
  <2>3. ASSUME Accepted(rm, a, r), ~IsPending(rm, r)
        PROVE  FALSE
    <3> DEFINE i == LatestEvent(rm, r)
    <3>1. i # 0 /\ rm.messages[i] = RequestMessage(a, r)
      BY <1>4, <2>3 DEF Accepted, Duplicate
    <3>2. /\ i \in EventsOf(rm, r) \cap Retained(rm)
          /\ \A j \in EventsOf(rm, r) \cap Retained(rm) : j <= i
      BY <1>1, <3>1, LatestIsLatest
    <3> HIDE DEF i
    <3>3. i \notin OutcomesOf(rm, r) /\ rm.messages[i].agent = a
      BY <3>1 DEF OutcomesOf, RequestMessage
    <3>4. PICK j \in OutcomesOf(rm, r) : j > i
      BY <2>3, <3>2, <3>3 DEF Good, Settled
    <3>5. /\ j \in EventsOf(rm, r)
          /\ i \in 1..Len(rm.messages) /\ j \in 1..Len(rm.messages)
      BY <1>1, <1>2, <3>2, EventTypes
    <3>6. j \in Retained(rm)
      BY <1>1, <3>2, <3>4, <3>5, RoomTypes, BoundsAreNaturals DEF Retained
    <3>7. QED
      BY <3>2, <3>4, <3>5, <3>6
  <2>4. QED
    BY <2>1, <2>2, <2>3
<1>5. QED
  BY <1>3, <1>4

-----------------------------------------------------------------------------
(* What a save does to the streams *)

RoomGrows(new, c) ==
    /\ Good(new)
    /\ Grown(room, new)
    /\ \A a \in Agents : c[a] = pushed[a] \/ c[a] = received[a]
    /\ c \in [Agents -> Nat]
    /\ PublishFrom(new, c)
    /\ UNCHANGED <<received, alive, call>>

\* What is sent is what an Agent sees of the outcomes.
LEMMA VisibleFacts ==
    ASSUME NEW rm \in Rooms, NEW a \in Agents, NEW k \in Nat
    PROVE  /\ Visible(rm, a, k) \subseteq Retained(rm)
           /\ \A i \in Visible(rm, a, k) :
                 /\ i \in 1..Len(rm.messages)
                 /\ rm.messages[i].kind \in {"resolved", "expired"}
           /\ [events |-> Visible(rm, a, k), cursor |-> Len(rm.messages)] \in Envelopes
<1>1. Retained(rm) \subseteq 1..Len(rm.messages) /\ Len(rm.messages) \in Nat
  BY RoomTypes DEF Retained
<1>2. /\ Visible(rm, a, k) \subseteq Retained(rm)
      /\ \A i \in Visible(rm, a, k) : rm.messages[i].kind \in {"resolved", "expired"}
  BY DEF Visible
<1>3. QED
  BY <1>1, <1>2 DEF Envelopes

\* A stream is open that would carry nothing.
Blind(rm, a, c) ==
    link[a] = "open" /\ a \in rm.members => Visible(rm, a, c[a]) = {}

\* Either nothing is sent to Agent a, or one envelope with all that is new.
LEMMA PublishCases ==
    ASSUME IInv, NEW new, NEW c, RoomGrows(new, c), NEW a \in Agents
    PROVE  /\ room' = new
           /\ received'[a] = received[a]
           /\ link'[a] = IF link[a] = "open" /\ a \notin new.members
                         THEN "lost" ELSE link[a]
           /\ \/ /\ link[a] = "open" /\ a \in new.members
                 /\ wire'[a] = Append(wire[a], [events |-> Visible(new, a, c[a]),
                                                cursor |-> Len(new.messages)])
                 /\ pushed'[a] = Len(new.messages)
              \/ /\ Blind(new, a, c)
                 /\ wire'[a] = wire[a]
                 /\ pushed'[a] = c[a]
<1> DEFINE Goes == link[a] = "open" /\ a \in new.members /\ Visible(new, a, c[a]) # {}
<1>1. /\ room' = new
      /\ received' = received
      /\ link'[a] = IF link[a] = "open" /\ a \notin new.members THEN "lost" ELSE link[a]
      /\ wire'[a] = IF Goes THEN Append(wire[a], [events |-> Visible(new, a, c[a]),
                                                  cursor |-> Len(new.messages)])
                    ELSE wire[a]
      /\ pushed'[a] = IF Goes THEN Len(new.messages) ELSE c[a]
  BY DEF RoomGrows, PublishFrom
<1>2. QED
  BY <1>1 DEF Blind

LEMMA PublishTypes ==
    ASSUME IInv, NEW new, NEW c, RoomGrows(new, c)
    PROVE  /\ room' \in Rooms
           /\ due' \subseteq PendingOf(room')
           /\ link' \in [Agents -> {"open", "lost", "closed"}]
           /\ pushed' \in [Agents -> Nat]
           /\ wire' \in [Agents -> Seq(Envelopes)]
<1>1. /\ room' = new /\ new \in Rooms /\ due' = due \cap PendingOf(new)
      /\ Len(new.messages) \in Nat
  BY RoomTypes DEF RoomGrows, PublishFrom, Good
<1>2. \A a \in Agents :
         [events |-> Visible(new, a, c[a]), cursor |-> Len(new.messages)] \in Envelopes
  BY <1>1, VisibleFacts DEF RoomGrows
<1>3. wire \in [Agents -> Seq(Envelopes)] /\ link \in [Agents -> {"open", "lost", "closed"}]
  BY DEF IInv, TypeOK
<1>4. \A a \in Agents :
         Append(wire[a], [events |-> Visible(new, a, c[a]),
                          cursor |-> Len(new.messages)]) \in Seq(Envelopes)
  BY <1>2, <1>3
<1>5. c \in [Agents -> Nat]
  BY DEF RoomGrows
<1>6. link' \in [Agents -> {"open", "lost", "closed"}]
  BY <1>3 DEF RoomGrows, PublishFrom
<1>7. pushed' \in [Agents -> Nat]
  BY <1>1, <1>5 DEF RoomGrows, PublishFrom
<1>8. wire' \in [Agents -> Seq(Envelopes)]
  BY <1>3, <1>4 DEF RoomGrows, PublishFrom
<1>9. QED
  BY <1>1, <1>6, <1>7, <1>8

\* The room's ring is the old one and more.
LEMMA PublishRing ==
    ASSUME IInv, NEW new, NEW c, RoomGrows(new, c)
    PROVE  /\ room \in Rooms /\ new \in Rooms
           /\ Len(room.messages) \in Nat /\ Len(new.messages) \in Nat
           /\ Len(room.messages) <= Len(new.messages)
           /\ \A i \in 1..Len(room.messages) : new.messages[i] = room.messages[i]
           /\ \A i \in 1..Len(room.messages) : i \in Retained(new) => i \in Retained(room)
           /\ \A r \in Requests : OutcomesOf(room, r) \subseteq OutcomesOf(new, r)
<1>1. room \in Rooms /\ new \in Rooms /\ Longer(room, new)
  BY DEF IInv, TypeOK, RoomGrows, Good, Grown
<1>2. QED
  BY <1>1, RoomTypes, RingGrows DEF Longer

LEMMA PublishWired ==
    ASSUME IInv, NEW new, NEW c, RoomGrows(new, c), NEW a \in Agents
    PROVE  Wired(a)'
<1> DEFINE L == Len(room.messages)
           N == Len(new.messages)
           e == [events |-> Visible(new, a, c[a]), cursor |-> N]
<1>1. /\ L \in Nat /\ N \in Nat /\ L <= N /\ new \in Rooms
      /\ \A i \in 1..L : new.messages[i] = room.messages[i]
  BY PublishRing
<1>2. /\ wire[a] \in Seq(Envelopes) /\ Len(wire[a]) \in Nat
      /\ \A k \in 1..Len(wire[a]) : wire[a][k] \in Envelopes
      /\ pushed[a] \in Nat /\ received[a] \in Nat
  BY DEF IInv, TypeOK
<1>3. /\ pushed[a] <= L /\ received[a] <= L
      /\ link[a] = "closed" => wire[a] = <<>>
      /\ \A k \in 1..Len(wire[a]) :
            /\ wire[a][k].cursor <= L
            /\ \A i \in wire[a][k].events :
                  /\ i \in 1..wire[a][k].cursor
                  /\ room.messages[i].kind \in {"resolved", "expired"}
  BY DEF IInv, Wired
<1>4. c[a] \in Nat /\ (c[a] = pushed[a] \/ c[a] = received[a])
  BY DEF RoomGrows
<1>5. /\ room' = new /\ received'[a] = received[a]
      /\ link'[a] = IF link[a] = "open" /\ a \notin new.members THEN "lost" ELSE link[a]
      /\ \/ link[a] = "open" /\ wire'[a] = Append(wire[a], e) /\ pushed'[a] = N
         \/ wire'[a] = wire[a] /\ pushed'[a] = c[a]
  BY PublishCases
<1>6. /\ e \in Envelopes /\ e.cursor = N
      /\ \A i \in e.events : i \in 1..N /\ new.messages[i].kind \in {"resolved", "expired"}
  BY <1>1, <1>4, VisibleFacts
<1> HIDE DEF e, L, N
<1>7. \A k \in 1..Len(wire[a]) :
         /\ wire[a][k].cursor <= N
         /\ \A i \in wire[a][k].events :
               /\ i \in 1..wire[a][k].cursor
               /\ new.messages[i].kind \in {"resolved", "expired"}
  <2> TAKE k \in 1..Len(wire[a])
  <2>1. wire[a][k].cursor \in Nat
    BY <1>2 DEF Envelopes
  <2>2. wire[a][k].cursor <= N
    BY <1>1, <1>3, <2>1
  <2>3. \A i \in wire[a][k].events : i \in 1..L
    BY <1>1, <1>3, <2>1
  <2>4. QED
    BY <1>1, <1>3, <2>2, <2>3
<1>8. pushed'[a] <= N /\ received'[a] <= N
  BY <1>1, <1>2, <1>3, <1>4, <1>5
<1>9. link'[a] = "closed" => wire'[a] = <<>>
  BY <1>3, <1>5
<1>10. \A k \in 1..Len(wire'[a]) :
          /\ wire'[a][k].cursor <= N
          /\ \A i \in wire'[a][k].events :
                /\ i \in 1..wire'[a][k].cursor
                /\ new.messages[i].kind \in {"resolved", "expired"}
  <2>1. CASE wire'[a] = wire[a]
    BY <1>7, <2>1
  <2>2. CASE wire'[a] = Append(wire[a], e)
    <3>1. /\ Len(wire'[a]) = Len(wire[a]) + 1
          /\ wire'[a][Len(wire[a]) + 1] = e
          /\ \A k \in 1..Len(wire[a]) : wire'[a][k] = wire[a][k]
      BY <1>2, <1>6, <2>2
    <3> TAKE k \in 1..Len(wire'[a])
    <3>2. CASE k = Len(wire[a]) + 1
      BY <1>1, <1>6, <3>1, <3>2
    <3>3. CASE k \in 1..Len(wire[a])
      BY <1>7, <3>1, <3>3
    <3>4. QED
      BY <1>2, <3>1, <3>2, <3>3
  <2>3. QED
    BY <1>5, <2>1, <2>2
<1>11. QED
  BY <1>5, <1>8, <1>9, <1>10 DEF Wired, N

LEMMA PublishCovered ==
    ASSUME IInv, NEW new, NEW c, RoomGrows(new, c), NEW a \in Agents
    PROVE  Covered(a)'
<1> DEFINE L == Len(room.messages)
           N == Len(new.messages)
           e == [events |-> Visible(new, a, c[a]), cursor |-> N]
           Late == {i \in Retained(new) :
                       /\ new.messages[i].kind \in {"resolved", "expired"}
                       /\ new.messages[i].agent = a
                       /\ i > received[a]}
<1>1. /\ L \in Nat /\ N \in Nat /\ L <= N /\ new \in Rooms
      /\ \A i \in 1..L : new.messages[i] = room.messages[i]
      /\ \A i \in 1..L : i \in Retained(new) => i \in Retained(room)
  BY PublishRing
<1>2. /\ wire[a] \in Seq(Envelopes) /\ Len(wire[a]) \in Nat
      /\ \A k \in 1..Len(wire[a]) : wire[a][k] \in Envelopes
      /\ pushed[a] \in Nat /\ received[a] \in Nat
  BY DEF IInv, TypeOK
<1>3. /\ pushed[a] <= L /\ received[a] <= L
      /\ \A k \in 1..Len(wire[a]) : wire[a][k].cursor <= L
  BY DEF IInv, Wired
<1>4. c[a] \in Nat /\ (c[a] = pushed[a] \/ c[a] = received[a])
  BY DEF RoomGrows
<1>5. /\ room' = new /\ received'[a] = received[a]
      /\ link'[a] = IF link[a] = "open" /\ a \notin new.members THEN "lost" ELSE link[a]
      /\ \/ wire'[a] = Append(wire[a], e) /\ pushed'[a] = N
         \/ /\ Blind(new, a, c)
            /\ wire'[a] = wire[a] /\ pushed'[a] = c[a]
  <2>1. /\ room' = new /\ received'[a] = received[a]
        /\ link'[a] = IF link[a] = "open" /\ a \notin new.members THEN "lost" ELSE link[a]
    BY PublishCases
  <2>2. \/ wire'[a] = Append(wire[a], e) /\ pushed'[a] = N
        \/ /\ Blind(new, a, c)
           /\ wire'[a] = wire[a] /\ pushed'[a] = c[a]
    BY PublishCases
  <2>3. QED
    BY <2>1, <2>2
<1> SUFFICES ASSUME link'[a] = "open", NEW i \in Late
             PROVE  /\ i <= pushed'[a] => Sent(a, i)'
                    /\ a \in new.members => i <= pushed'[a]
                    /\ \A k \in 1..Len(wire'[a]) :
                          i <= wire'[a][k].cursor =>
                              \E j \in 1..k : i \in wire'[a][j].events
  BY <1>5 DEF Covered, Missing
<1>6. link[a] = "open" /\ a \in new.members
  BY <1>5
<1>7. /\ i \in 1..N /\ i \in Retained(new) /\ i > received[a]
      /\ new.messages[i].kind \in {"resolved", "expired"}
      /\ new.messages[i].agent = a
  BY <1>1, RoomTypes DEF Retained
<1>8. i <= L => i \in Missing(a)
  BY <1>1, <1>7 DEF Missing
<1>9. i > c[a] => i \in Visible(new, a, c[a])
  BY <1>7 DEF Visible
<1>10. i \in Missing(a) => /\ i <= pushed[a] => Sent(a, i)
                           /\ \A k \in 1..Len(wire[a]) :
                                 i <= wire[a][k].cursor =>
                                     \E j \in 1..k : i \in wire[a][j].events
  BY <1>6 DEF IInv, Covered
<1>11. i <= c[a] => c[a] = pushed[a] /\ i \in Missing(a) /\ Sent(a, i)
  BY <1>1, <1>2, <1>3, <1>4, <1>7, <1>8, <1>10
<1>12. \A k \in 1..Len(wire[a]) : i <= wire[a][k].cursor => i \in Missing(a)
  <2> TAKE k \in 1..Len(wire[a])
  <2>1. wire[a][k].cursor \in Nat /\ wire[a][k].cursor <= L
    BY <1>2, <1>3 DEF Envelopes
  <2>2. QED
    BY <1>1, <1>7, <1>8, <2>1
<1> HIDE DEF L, N, e, Late
<1>13. CASE wire'[a] = Append(wire[a], e) /\ pushed'[a] = N
  <2>1. /\ Len(wire'[a]) = Len(wire[a]) + 1
        /\ wire'[a][Len(wire[a]) + 1] = e
        /\ \A k \in 1..Len(wire[a]) : wire'[a][k] = wire[a][k]
    <3>1. e \in Envelopes
      BY <1>1, <1>4, VisibleFacts DEF e, N
    <3>2. QED
      BY <1>2, <1>13, <3>1
  <2>2. \E j \in 1..Len(wire'[a]) : i \in wire'[a][j].events
    <3>1. CASE i > c[a]
      <4>1. i \in e.events
        BY <1>9, <3>1 DEF e
      <4>2. Len(wire[a]) + 1 \in 1..Len(wire'[a])
        BY <1>2, <2>1
      <4>3. QED
        BY <2>1, <4>1, <4>2
    <3>2. CASE i <= c[a]
      <4>1. PICK k \in 1..Len(wire[a]) : i \in wire[a][k].events
        BY <1>11, <3>2 DEF Sent
      <4>2. k \in 1..Len(wire'[a])
        BY <1>2, <2>1
      <4>3. QED
        BY <2>1, <4>1, <4>2
    <3>3. QED
      BY <1>4, <1>7, <3>1, <3>2
  <2>3. Sent(a, i)'
    BY <2>2 DEF Sent
  <2>4. i <= pushed'[a]
    BY <1>1, <1>7, <1>13
  <2>5. ASSUME NEW k \in 1..Len(wire'[a]), i <= wire'[a][k].cursor
        PROVE  \E j \in 1..k : i \in wire'[a][j].events
    <3>1. CASE k = Len(wire[a]) + 1
      BY <2>1, <2>2, <3>1
    <3>2. CASE k \in 1..Len(wire[a])
      <4>1. PICK j \in 1..k : i \in wire[a][j].events
        BY <1>10, <1>12, <2>1, <2>5, <3>2
      <4>2. j \in 1..Len(wire[a])
        BY <1>2, <3>2
      <4>3. QED
        BY <2>1, <4>1, <4>2
    <3>3. QED
      BY <1>2, <2>1, <3>1, <3>2
  <2>6. QED
    BY <2>3, <2>4, <2>5
<1>14. CASE /\ i \notin Visible(new, a, c[a])
            /\ wire'[a] = wire[a] /\ pushed'[a] = c[a]
  <2>1. i <= c[a]
    BY <1>4, <1>7, <1>9, <1>14
  <2>2. i \in Missing(a) /\ Sent(a, i)'
    BY <1>11, <1>14, <2>1 DEF Sent
  <2>3. QED
    BY <1>10, <1>14, <2>1, <2>2
<1>15. QED
  BY <1>5, <1>6, <1>13, <1>14 DEF Blind

\* Who will answer a call still does.
LEMMA PublishAnswers ==
    ASSUME IInv, NEW new, NEW c, RoomGrows(new, c),
           NEW r \in Requests, call[r].agent \in Agents
    PROVE  /\ Answerable(r) => Answerable(r)'
           /\ IsPending(new, r) => Answerable(r)'
           /\ \A o \in Options : Decided(r, o) => Decided(r, o)'
<1> DEFINE a == call[r].agent
<1>1. /\ Len(room.messages) \in Nat /\ Len(new.messages) \in Nat
      /\ Len(room.messages) <= Len(new.messages)
      /\ \A i \in 1..Len(room.messages) : new.messages[i] = room.messages[i]
      /\ \A i \in 1..Len(room.messages) : i \in Retained(new) => i \in Retained(room)
      /\ OutcomesOf(room, r) \subseteq OutcomesOf(new, r)
      /\ OutcomesOf(room, r) \subseteq 1..Len(room.messages)
      /\ OutcomesOf(new, r) \subseteq 1..Len(new.messages)
  BY PublishRing, EventTypes
<1>2. room' = new /\ received' = received /\ call' = call
  BY DEF RoomGrows, PublishFrom
<1>3. link[a] = "lost" => link'[a] = "lost"
  BY PublishCases
<1>4. received[a] \in Nat /\ received[a] <= Len(room.messages)
  BY DEF IInv, TypeOK, Wired
<1>5. new.members \subseteq room.members
  BY DEF RoomGrows, Grown
<1>6. ASSUME NEW i \in OutcomesOf(new, r), i \notin Retained(new) \/ i > received[a]
      PROVE  Answerable(r)'
  BY <1>2, <1>6 DEF Answerable
<1>7. IsPending(new, r) => Answerable(r)'
  BY <1>2 DEF Answerable
<1>8. a \notin new.members => Answerable(r)'
  BY <1>2 DEF Answerable
<1>9. link'[a] = "lost" => Answerable(r)'
  BY <1>2 DEF Answerable
<1>10. ASSUME IsPending(room, r)
       PROVE  Answerable(r)'
  <2>1. room.pending[r].agent = a /\ r \in PendingOf(room)
    BY <1>10, PendingFacts DEF IInv, PendingOf
  <2>2. \/ IsPending(new, r)
        \/ a \notin room.members
        \/ \E j \in OutcomesOf(new, r) : j > Len(room.messages)
    BY <2>1 DEF RoomGrows, Grown
  <2>3. CASE \E j \in OutcomesOf(new, r) : j > Len(room.messages)
    <3>1. PICK j \in OutcomesOf(new, r) : j > Len(room.messages)
      BY <2>3
    <3>2. j > received[a]
      BY <1>1, <1>4, <3>1
    <3>3. QED
      BY <1>6, <3>2
  <2>4. QED
    BY <1>5, <1>7, <1>8, <2>2, <2>3
<1>11. ASSUME NEW i \in OutcomesOf(room, r), i \notin Retained(room) \/ i > received[a]
       PROVE  Answerable(r)'
  BY <1>1, <1>6, <1>11
<1>12. Answerable(r) => Answerable(r)'
  BY <1>3, <1>5, <1>8, <1>9, <1>10, <1>11 DEF Answerable
<1>13. \A o \in Options : Decided(r, o) => Decided(r, o)'
  BY <1>1, <1>2 DEF Decided
<1>14. QED
  BY <1>7, <1>12, <1>13

-----------------------------------------------------------------------------
(* The steps of the room *)

LEMMA PublishGood ==
    ASSUME NEW new, NEW c, RoomGrows(new, c)
    PROVE  Good(room)'
<1>1. room' = new /\ call' = call /\ Good(new)
  BY DEF RoomGrows, PublishFrom
<1>2. QED
  BY <1>1 DEF Good, Recorded, Once, Chosen, Correlated, Settled, PendingOf, IsPending

\* A save that leaves the posts alone keeps the invariant.
LEMMA PublishKeeps ==
    ASSUME IInv, NEW new, NEW c, RoomGrows(new, c),
           post' \in [Requests -> {"none", "flying", "accepted", "refused"}],
           sends' = sends
    PROVE  /\ TypeOK'
           /\ Good(room)'
           /\ \A a \in Agents : Wired(a)' /\ Covered(a)'
           /\ TrueDecisions'
<1>1. UNCHANGED <<received, alive, call>>
  BY DEF RoomGrows
<1>2. TypeOK'
  <2>1. /\ received \in [Agents -> Nat] /\ alive \subseteq Agents
        /\ call \in [Requests -> Calls] /\ sends \in [Requests -> Nat]
    BY DEF IInv, TypeOK
  <2>2. QED
    BY <1>1, <2>1, PublishTypes DEF TypeOK
<1>3. Good(room)'
  BY PublishGood
<1>4. \A a \in Agents : Wired(a)' /\ Covered(a)'
  BY PublishWired, PublishCovered
<1>5. TrueDecisions'
  <2> SUFFICES ASSUME NEW r \in Requests
               PROVE  /\ call[r].decision \in Options => Decided(r, call[r].decision)'
                      /\ call[r].answer \in Options => Decided(r, call[r].answer)'
    BY <1>1 DEF TrueDecisions, Decided
  <2>1. \A o \in Options : Decided(r, o) => Decided(r, o)'
    <3>1. \A i \in OutcomesOf(room, r) :
             i \in OutcomesOf(new, r) /\ new.messages[i] = room.messages[i]
      BY PublishRing, EventTypes
    <3>2. room' = new
      BY DEF RoomGrows, PublishFrom
    <3>3. QED
      BY <3>1, <3>2 DEF Decided
  <2>2. /\ call[r].decision \in Options => Decided(r, call[r].decision)
        /\ call[r].answer \in Options => Decided(r, call[r].answer)
    BY DEF IInv, TrueDecisions
  <2>3. QED
    BY <1>1, <2>1, <2>2 DEF Decided
<1>6. QED
  BY <1>2, <1>3, <1>4, <1>5

LEMMA QuietSave ==
    ASSUME IInv, NEW new, NEW c, RoomGrows(new, c), UNCHANGED runtime
    PROVE  IInv'
<1>1. UNCHANGED <<received, alive, call, post, sends>>
  BY DEF runtime
<1>2. post' \in [Requests -> {"none", "flying", "accepted", "refused"}]
  BY <1>1 DEF IInv, TypeOK
<1>3. /\ TypeOK'
      /\ Good(room)'
      /\ \A a \in Agents : Wired(a)' /\ Covered(a)'
      /\ TrueDecisions'
  BY <1>1, <1>2, PublishKeeps
<1>4. Posted'
  BY <1>1 DEF IInv, Posted
<1>5. Served'
  <2> SUFFICES ASSUME NEW r \in Requests,
                      call[r].held, call[r].phase # "done", post[r] = "accepted"
               PROVE  Answerable(r)'
    BY <1>1 DEF Served
  <2>1. call[r].agent \in Agents /\ Answerable(r)
    BY DEF IInv, Posted, Served
  <2>2. QED
    BY <2>1, PublishAnswers
<1>6. QED
  BY <1>3, <1>4, <1>5 DEF IInv

\* The saves of the room's handlers.
LEMMA PublishGrows ==
    ASSUME IInv, NEW new, Good(new), Grown(room, new), Publish(new),
           UNCHANGED <<received, alive, call>>
    PROVE  RoomGrows(new, pushed)
<1>1. pushed \in [Agents -> Nat]
  BY DEF IInv, TypeOK
<1>2. QED
  BY <1>1 DEF RoomGrows, Publish

LEMMA LoadStep ==
    ASSUME IInv
    PROVE  /\ Good(room) /\ room \in Rooms
           /\ Good(Load) /\ Load \in Rooms
           /\ Grown(room, Load)
           /\ Load.members = room.members
           /\ Load.messages = room.messages
<1>1. Good(room)
  BY DEF IInv
<1>2. QED
  BY <1>1, NormalizeStep DEF Load, Good

\* Load first, then a step of the record.
LEMMA AfterLoad ==
    ASSUME IInv, NEW new, Good(new), Grown(Load, new)
    PROVE  Grown(room, new)
  BY LoadStep, GrownChain DEF Good

LEMMA ExpiredLoad ==
    ASSUME IInv, NEW late, NEW departed
    PROVE  LET new == Expire(Load, late, departed)
           IN  /\ Good(new) /\ new \in Rooms
               /\ Grown(room, new)
               /\ new.members = room.members
<1> DEFINE new == Expire(Load, late, departed)
<1>1. Good(Load) /\ Load.members = room.members
  BY LoadStep
<1>2. Good(new) /\ Grown(Load, new) /\ new.members = Load.members
  BY <1>1, ExpireStep
<1> HIDE DEF new
<1>3. QED
  BY <1>1, <1>2, AfterLoad DEF Good, new

LEMMA AdmitKeeps ==
    ASSUME IInv, NEW r \in Requests, AdmitRequest(r)
    PROVE  IInv'
<1> DEFINE a == call[r].agent
           current == Expire(Load, due, {})
           new == IF a \in room.members THEN Ingest(current, a, r) ELSE Load
<1>1. /\ post[r] = "flying" /\ UNCHANGED <<received, alive, call, sends>>
      /\ Publish(new)
      /\ a \in room.members =>
            post' = [post EXCEPT ![r] =
                        IF Accepted(current, a, r) THEN "accepted" ELSE "refused"]
      /\ a \notin room.members => post' = [post EXCEPT ![r] = "refused"]
  BY DEF AdmitRequest
<1>2. call[r].phase # "idle" /\ a \in Agents
  BY <1>1 DEF IInv, Posted
<1>3. Good(current) /\ current \in Rooms /\ Grown(room, current) /\ current.members = room.members
  BY ExpiredLoad
<1>4. room \in Rooms
  BY LoadStep
<1> HIDE DEF current
<1>5. ASSUME a \in room.members
      PROVE  /\ Good(new) /\ Grown(room, new)
             /\ Accepted(current, a, r) => IsPending(new, r)
  <2>1. /\ Good(Ingest(current, a, r))
        /\ Grown(current, Ingest(current, a, r))
        /\ Accepted(current, a, r) => IsPending(Ingest(current, a, r), r)
    BY <1>2, <1>3, <1>5, IngestStep
  <2>2. Ingest(current, a, r) \in Rooms
    BY <2>1 DEF Good
  <2>3. Grown(room, Ingest(current, a, r))
    BY <1>3, <1>4, <2>1, <2>2, GrownChain
  <2>4. QED
    BY <1>5, <2>1, <2>3
<1>6. Good(new) /\ Grown(room, new)
  BY <1>5, LoadStep
<1> HIDE DEF new
<1>7. RoomGrows(new, pushed)
  BY <1>1, <1>6, PublishGrows
<1>8. /\ post' \in [Requests -> {"none", "flying", "accepted", "refused"}]
      /\ \A q \in Requests : q # r => post'[q] = post[q]
      /\ post'[r] \in {"accepted", "refused"}
      /\ post'[r] = "accepted" => IsPending(new, r)
  <2>1. post \in [Requests -> {"none", "flying", "accepted", "refused"}]
    BY DEF IInv, TypeOK
  <2>2. CASE a \in room.members
    BY <1>1, <1>5, <2>1, <2>2
  <2>3. CASE a \notin room.members
    BY <1>1, <2>1, <2>3
  <2>4. QED
    BY <2>2, <2>3
<1>9. /\ TypeOK' /\ Good(room)' /\ TrueDecisions'
      /\ \A b \in Agents : Wired(b)' /\ Covered(b)'
  BY <1>1, <1>7, <1>8, PublishKeeps
<1>10. Posted'
  <2>1. call' = call
    BY <1>1
  <2>2. call[r].phase # "waiting"
    BY <1>1 DEF IInv, Posted
  <2>3. QED
    BY <1>2, <1>8, <2>1, <2>2 DEF IInv, Posted
<1>11. Served'
  <2> SUFFICES ASSUME NEW q \in Requests,
                      call[q].held, call[q].phase # "done", post'[q] = "accepted"
               PROVE  Answerable(q)'
    BY <1>1 DEF Served
  <2>1. call[q].agent \in Agents
    BY DEF IInv, Posted
  <2>2. CASE q = r
    BY <1>7, <1>8, <2>1, <2>2, PublishAnswers
  <2>3. CASE q # r
    <3>1. Answerable(q)
      BY <1>8, <2>3 DEF IInv, Served
    <3>2. QED
      BY <1>7, <2>1, <3>1, PublishAnswers
  <2>4. QED
    BY <2>2, <2>3
<1>12. QED
  BY <1>9, <1>10, <1>11 DEF IInv

LEMMA RespondKeeps ==
    ASSUME IInv, NEW r \in Requests, NEW o, Respond(r, o)
    PROVE  IInv'
<1>1. UNCHANGED runtime /\ UNCHANGED <<received, alive, call>>
  BY DEF Respond, runtime
<1>2. Good(Load) /\ Grown(room, Load)
  BY LoadStep
<1>3. ASSUME NEW new, Good(new), Grown(room, new), Publish(new)
      PROVE  IInv'
  BY <1>1, <1>3, PublishGrows, QuietSave
<1>4. CASE Publish(Load)
  BY <1>2, <1>3, <1>4
<1>5. CASE Publish(Expire(Load, due, {Load.pending[r].agent}))
  BY <1>3, <1>5, ExpiredLoad
<1>6. CASE IsPending(Load, r) /\ o \in Options /\ Publish(Resolve(Load, r, o))
  <2>1. r \in PendingOf(Load)
    BY <1>6 DEF PendingOf
  <2>2. Good(Resolve(Load, r, o)) /\ Grown(Load, Resolve(Load, r, o))
    BY <1>2, <1>6, <2>1, ResolveStep
  <2>3. QED
    BY <1>3, <1>6, <2>2, AfterLoad
<1>7. QED
  BY <1>4, <1>5, <1>6 DEF Respond

\* Deadlines first, then participants go.
LEMMA RemovedLoad ==
    ASSUME IInv, NEW late, NEW departed, NEW D
    PROVE  LET new == Remove(Expire(Load, late, departed), D)
           IN  Good(new) /\ Grown(room, new)
<1> DEFINE mid == Expire(Load, late, departed)
           new == Remove(mid, D)
<1>1. Good(mid) /\ mid \in Rooms /\ Grown(room, mid) /\ mid.members = room.members
  BY ExpiredLoad
<1> HIDE DEF mid
<1>2. Good(new) /\ Grown(mid, new)
  BY <1>1, RemoveStep
<1> HIDE DEF new
<1>3. room \in Rooms /\ new \in Rooms
  BY <1>2, LoadStep DEF Good
<1>4. Grown(room, new)
  BY <1>1, <1>2, <1>3, GrownChain
<1>5. QED
  BY <1>2, <1>4 DEF new, mid

LEMMA LeaveKeeps ==
    ASSUME IInv, NEW a \in Agents, Leave(a)
    PROVE  IInv'
<1> DEFINE new == Remove(Expire(Load, due, {a}), {a})
<1>1. UNCHANGED runtime /\ UNCHANGED <<received, alive, call>> /\ Publish(new)
  BY DEF Leave, runtime
<1>2. Good(new) /\ Grown(room, new)
  BY RemovedLoad
<1>3. QED
  BY <1>1, <1>2, PublishGrows, QuietSave

LEMMA AlarmKeeps ==
    ASSUME IInv, NEW D, Alarm(D)
    PROVE  IInv'
<1> DEFINE new == Remove(Expire(Load, due, {}), D)
<1>1. UNCHANGED runtime /\ UNCHANGED <<received, alive, call>> /\ Publish(new)
  BY DEF Alarm, runtime
<1>2. Good(new) /\ Grown(room, new)
  BY RemovedLoad
<1>3. QED
  BY <1>1, <1>2, PublishGrows, QuietSave

LEMMA ChatKeeps == ASSUME IInv, Chat PROVE IInv'
<1> DEFINE new == [Load EXCEPT !.messages = Append(@, [kind |-> "chat"])]
<1>1. UNCHANGED runtime /\ UNCHANGED <<received, alive, call>> /\ Publish(new)
  BY DEF Chat, runtime
<1>2. Good(new) /\ Grown(Load, new)
  BY LoadStep, ChatStep
<1> HIDE DEF new
<1>3. QED
  BY <1>1, <1>2, AfterLoad, PublishGrows, QuietSave

LEMMA HeartbeatKeeps ==
    ASSUME IInv, NEW a \in Agents, Heartbeat(a)
    PROVE  IInv'
<1> DEFINE c == [pushed EXCEPT ![a] = received[a]]
<1>1. /\ UNCHANGED runtime /\ UNCHANGED <<received, alive, call>>
      /\ PublishFrom(Load, c)
  BY DEF Heartbeat, runtime
<1>2. pushed \in [Agents -> Nat] /\ received \in [Agents -> Nat]
  BY DEF IInv, TypeOK
<1>3. /\ c \in [Agents -> Nat]
      /\ \A b \in Agents : c[b] = pushed[b] \/ c[b] = received[b]
  BY <1>2
<1> HIDE DEF c
<1>4. RoomGrows(Load, c)
  BY <1>1, <1>3, LoadStep DEF RoomGrows
<1>5. QED
  BY <1>1, <1>4, QuietSave

-----------------------------------------------------------------------------
(* What stays true when other parts of the state change *)

LEMMA GoodStays ==
    ASSUME IInv, room' = room,
           \A r \in Requests : call[r].phase # "idle" =>
               call'[r].phase # "idle" /\ call'[r].agent = call[r].agent
    PROVE  Good(room)'
<1>1. Correlated(room)'
  BY DEF IInv, Good, Correlated
<1>2. QED
  BY <1>1 DEF IInv, Good, Recorded, Once, Chosen, Settled, PendingOf, IsPending

LEMMA DecisionsStay ==
    ASSUME IInv, room' = room,
           \A r \in Requests :
              /\ call'[r].decision \in Options =>
                    Decided(r, call'[r].decision) \/ call'[r].decision = call[r].decision
              /\ call'[r].answer \in Options =>
                    call'[r].answer = call[r].answer \/ call'[r].answer = call[r].decision
    PROVE  TrueDecisions'
<1>1. ASSUME NEW r \in Requests, NEW o PROVE Decided(r, o) => Decided(r, o)'
  BY DEF Decided
<1>2. \A r \in Requests : /\ call'[r].decision \in Options => Decided(r, call'[r].decision)
                          /\ call'[r].answer \in Options => Decided(r, call'[r].answer)
  BY DEF IInv, TrueDecisions
<1>3. QED
  BY <1>2 DEF TrueDecisions, Decided

LEMMA StreamStays ==
    ASSUME IInv, NEW a \in Agents,
           room'.messages = room.messages, room'.members = room.members,
           link'[a] = link[a] \/ link'[a] = "lost",
           pushed'[a] = pushed[a], wire'[a] = wire[a], received'[a] = received[a]
    PROVE  Wired(a)' /\ Covered(a)'
<1>1. Wired(a)'
  BY DEF IInv, Wired
<1>2. Missing(a)' = Missing(a)
  BY DEF Missing, Retained
<1>3. \A i : Sent(a, i)' = Sent(a, i)
  BY DEF Sent
<1>4. Covered(a)'
  BY <1>2, <1>3 DEF IInv, Covered
<1>5. QED
  BY <1>1, <1>4

LEMMA ServedStays ==
    ASSUME IInv, room' = room, received' = received,
           \A r \in Requests :
              (call'[r].held /\ call'[r].phase # "done" /\ post'[r] = "accepted") =>
                  /\ call[r].held /\ call[r].phase # "done" /\ post[r] = "accepted"
                  /\ call'[r].agent = call[r].agent
                  /\ link[call[r].agent] = "lost" => link'[call[r].agent] = "lost"
    PROVE  Served'
<1> SUFFICES ASSUME NEW r \in Requests, call'[r].held, call'[r].phase # "done",
                    post'[r] = "accepted"
             PROVE  Answerable(r)'
  BY DEF Served
<1>1. /\ call'[r].agent = call[r].agent
      /\ link[call[r].agent] = "lost" => link'[call[r].agent] = "lost"
      /\ Answerable(r)
  BY DEF IInv, Served
<1>2. QED
  BY <1>1 DEF Answerable

-----------------------------------------------------------------------------
(* The steps of the transport *)

LEMMA DeadlineKeeps ==
    ASSUME IInv, NEW r \in Requests, DeadlinePasses(r)
    PROVE  IInv'
<1>1. /\ UNCHANGED <<room, link, pushed, wire, received, alive, call, post, sends>>
      /\ due' = due \cup {r} /\ IsPending(room, r)
  BY DEF DeadlinePasses, streams, runtime
<1>2. TypeOK'
  BY <1>1 DEF IInv, TypeOK, PendingOf
<1>3. Good(room)'
  BY <1>1, GoodStays
<1>4. \A a \in Agents : Wired(a)' /\ Covered(a)'
  BY <1>1, StreamStays
<1>5. TrueDecisions'
  BY <1>1, DecisionsStay
<1>6. Served'
  BY <1>1, ServedStays
<1>7. Posted'
  BY <1>1 DEF IInv, Posted
<1>8. QED
  BY <1>2, <1>3, <1>4, <1>5, <1>6, <1>7 DEF IInv

LEMMA LoseKeeps ==
    ASSUME IInv, NEW a \in Agents, Lose(a)
    PROVE  IInv'
<1>1. /\ UNCHANGED <<room, due, pushed, wire, received, alive, call, post, sends>>
      /\ link' = [link EXCEPT ![a] = "lost"]
  BY DEF Lose, runtime
<1>2. link \in [Agents -> {"open", "lost", "closed"}]
  BY DEF IInv, TypeOK
<1>3. \A b \in Agents : link'[b] = link[b] \/ link'[b] = "lost"
  BY <1>1, <1>2
<1>4. TypeOK'
  BY <1>1, <1>2 DEF IInv, TypeOK
<1>5. Good(room)'
  BY <1>1, GoodStays
<1>6. \A b \in Agents : Wired(b)' /\ Covered(b)'
  BY <1>1, <1>3, StreamStays
<1>7. TrueDecisions'
  BY <1>1, DecisionsStay
<1>8. Served'
  <2>1. \A r \in Requests : call[r].held => call[r].agent \in Agents
    BY DEF IInv, Posted
  <2>2. QED
    BY <1>1, <1>3, <2>1, ServedStays
<1>9. Posted'
  BY <1>1 DEF IInv, Posted
<1>10. QED
  BY <1>4, <1>5, <1>6, <1>7, <1>8, <1>9 DEF IInv

\* A stream ends at the runtime, and its parked calls fail closed.
LEMMA CancelFacts ==
    ASSUME IInv, NEW a \in Agents, CancelCalls(a)
    PROVE  /\ call' \in [Requests -> Calls]
           /\ \A r \in Requests :
                 /\ call'[r].phase = call[r].phase
                 /\ call'[r].agent = call[r].agent
                 /\ call'[r].answer = call[r].answer
                 /\ call'[r].decision \in {call[r].decision, Cancel}
                 /\ call'[r].held => call[r].held /\ call[r].agent # a
<1>1. \A r \in Requests : call[r] \in Calls
  BY DEF IInv, TypeOK
<1>2. \A r \in Requests : call'[r] =
         IF call[r].held /\ call[r].agent = a
         THEN [call[r] EXCEPT !.held = FALSE, !.decision = Cancel] ELSE call[r]
  BY DEF CancelCalls, HeldBy
<1>3. \A r \in Requests :
         /\ call'[r] \in Calls
         /\ call'[r].phase = call[r].phase
         /\ call'[r].agent = call[r].agent
         /\ call'[r].answer = call[r].answer
         /\ call'[r].decision \in {call[r].decision, Cancel}
         /\ call'[r].held => call[r].held /\ call[r].agent # a
  <2> TAKE r \in Requests
  <2>1. CASE call[r].held /\ call[r].agent = a
    <3>1. call'[r] = [call[r] EXCEPT !.held = FALSE, !.decision = Cancel]
      BY <1>2, <2>1
    <3>2. QED
      BY <1>1, <3>1 DEF Calls, Answers
  <2>2. CASE ~(call[r].held /\ call[r].agent = a)
    BY <1>1, <1>2, <2>2
  <2>3. QED
    BY <2>1, <2>2
<1>4. call' \in [Requests -> Calls]
  BY <1>3 DEF CancelCalls
<1>5. QED
  BY <1>3, <1>4

LEMMA CloseKeeps ==
    ASSUME IInv, NEW a \in Agents, CancelCalls(a),
           link' = [link EXCEPT ![a] = "closed"],
           wire' = [wire EXCEPT ![a] = <<>>],
           alive' \subseteq Agents,
           UNCHANGED <<room, due, pushed, received, post, sends>>
    PROVE  IInv'
<1>1. /\ link \in [Agents -> {"open", "lost", "closed"}]
      /\ wire \in [Agents -> Seq(Envelopes)]
  BY DEF IInv, TypeOK
<1>2. /\ link'[a] = "closed" /\ wire'[a] = <<>>
      /\ \A b \in Agents : b # a => link'[b] = link[b] /\ wire'[b] = wire[b]
      /\ link' \in [Agents -> {"open", "lost", "closed"}]
      /\ wire' \in [Agents -> Seq(Envelopes)]
  BY <1>1
<1>3. TypeOK'
  BY <1>2, CancelFacts DEF IInv, TypeOK
<1>4. Good(room)'
  BY GoodStays, CancelFacts
<1>5. ASSUME NEW b \in Agents PROVE Wired(b)' /\ Covered(b)'
  <2>1. CASE b = a
    <3>1. Wired(a)'
      BY <1>2 DEF IInv, Wired
    <3>2. Covered(a)'
      BY <1>2 DEF Covered
    <3>3. QED
      BY <2>1, <3>1, <3>2
  <2>2. CASE b # a
    BY <1>2, <2>2, StreamStays
  <2>3. QED
    BY <2>1, <2>2
<1>6. TrueDecisions'
  BY CancelFacts, NullsAreNotValues, DecisionsStay
<1>7. Served'
  <2>1. \A r \in Requests : call[r].held => call[r].agent \in Agents
    BY DEF IInv, Posted
  <2>2. QED
    BY <1>2, <2>1, CancelFacts, ServedStays
<1>8. Posted'
  BY CancelFacts DEF IInv, Posted
<1>9. QED
  BY <1>3, <1>4, <1>5, <1>6, <1>7, <1>8 DEF IInv

LEMMA NoticeLossKeeps ==
    ASSUME IInv, NEW a \in Agents, NoticeLoss(a)
    PROVE  IInv'
<1>1. alive' \subseteq Agents
  BY DEF NoticeLoss, IInv, TypeOK
<1>2. QED
  BY <1>1, CloseKeeps DEF NoticeLoss

LEMMA AbandonKeeps ==
    ASSUME IInv, NEW a \in Agents, Abandon(a)
    PROVE  IInv'
<1>1. alive' \subseteq Agents
  BY DEF Abandon, IInv, TypeOK
<1>2. QED
  BY <1>1, CloseKeeps DEF Abandon

\* The new stream is caught up from the runtime's cursor.
LEMMA ReconnectKeeps ==
    ASSUME IInv, NEW a \in Agents, Reconnect(a)
    PROVE  IInv'
<1> DEFINE e == [events |-> Visible(Load, a, received[a]), cursor |-> Len(room.messages)]
<1>1. /\ link[a] = "closed"
      /\ wire' = [wire EXCEPT ![a] = <<e>>]
      /\ room' = Load
      /\ due' = due \cap PendingOf(Load)
      /\ pushed' = [pushed EXCEPT ![a] = Len(room.messages)]
      /\ link' = [link EXCEPT ![a] = "open"]
      /\ UNCHANGED <<received, alive, call, post, sends>>
  BY DEF Reconnect, runtime
<1>2. /\ Good(room) /\ room \in Rooms /\ Good(Load) /\ Load \in Rooms
      /\ Grown(room, Load)
      /\ Load.members = room.members /\ Load.messages = room.messages
  BY LoadStep
<1>3. Len(room.messages) \in Nat /\ received[a] \in Nat /\ received[a] <= Len(room.messages)
  BY <1>2, RoomTypes DEF IInv, TypeOK, Wired
<1>4. /\ e \in Envelopes /\ e.cursor = Len(room.messages)
      /\ \A i \in e.events : /\ i \in 1..Len(room.messages)
                             /\ room.messages[i].kind \in {"resolved", "expired"}
  BY <1>2, <1>3, VisibleFacts
<1>5. /\ wire \in [Agents -> Seq(Envelopes)] /\ pushed \in [Agents -> Nat]
      /\ link \in [Agents -> {"open", "lost", "closed"}]
  BY DEF IInv, TypeOK
<1> HIDE DEF e
<1>6. /\ wire'[a] = <<e>> /\ pushed'[a] = Len(room.messages) /\ link'[a] = "open"
      /\ \A b \in Agents : b # a => /\ wire'[b] = wire[b] /\ pushed'[b] = pushed[b]
                                    /\ link'[b] = link[b]
      /\ Len(wire'[a]) = 1 /\ wire'[a][1] = e
  BY <1>1, <1>5
<1>7. /\ wire' \in [Agents -> Seq(Envelopes)] /\ pushed' \in [Agents -> Nat]
      /\ link' \in [Agents -> {"open", "lost", "closed"}]
  <2>1. <<e>> \in Seq(Envelopes)
    BY <1>4
  <2>2. QED
    BY <1>1, <1>3, <1>5, <2>1
<1>8. TypeOK'
  <2>1. /\ received \in [Agents -> Nat] /\ alive \subseteq Agents
        /\ call \in [Requests -> Calls] /\ sends \in [Requests -> Nat]
        /\ post \in [Requests -> {"none", "flying", "accepted", "refused"}]
    BY DEF IInv, TypeOK
  <2>2. room' \in Rooms /\ due' \subseteq PendingOf(room')
    BY <1>1, <1>2
  <2>3. QED
    BY <1>1, <1>7, <2>1, <2>2 DEF TypeOK
<1>9. Good(room)'
  BY <1>1, <1>2 DEF Good, Recorded, Once, Chosen, Correlated, Settled, PendingOf, IsPending
<1>10. ASSUME NEW b \in Agents PROVE Wired(b)' /\ Covered(b)'
  <2>1. CASE b = a
    <3>1. room'.messages = room.messages /\ received'[a] = received[a]
      BY <1>1, <1>2
    <3>2. Wired(a)'
      BY <1>3, <1>4, <1>6, <3>1 DEF Wired
    <3>3. ASSUME NEW i \in Missing(a)'
          PROVE  i \in e.events /\ i \in 1..Len(room.messages)
      <4>1. /\ i \in Retained(Load) /\ i > received[a]
            /\ Load.messages[i].kind \in {"resolved", "expired"}
            /\ Load.messages[i].agent = a
        BY <1>1 DEF Missing
      <4>2. i \in Visible(Load, a, received[a])
        BY <4>1 DEF Visible
      <4>3. QED
        BY <1>4, <4>2 DEF e
    <3>4. Covered(a)'
      <4> SUFFICES ASSUME NEW i \in Missing(a)'
                   PROVE  /\ Sent(a, i)'
                          /\ i <= pushed'[a]
                          /\ \A k \in 1..Len(wire'[a]) :
                                \E j \in 1..k : i \in wire'[a][j].events
        BY DEF Covered
      <4>1. i \in wire'[a][1].events /\ i <= pushed'[a]
        BY <1>3, <1>6, <3>3
      <4>2. QED
        BY <1>6, <4>1 DEF Sent
    <3>5. QED
      BY <2>1, <3>2, <3>4
  <2>2. CASE b # a
    BY <1>1, <1>2, <1>6, <2>2, StreamStays
  <2>3. QED
    BY <2>1, <2>2
<1>11. \A r \in Requests : OutcomesOf(Load, r) = OutcomesOf(room, r)
  BY <1>2 DEF OutcomesOf, EventsOf
<1>12. TrueDecisions'
  BY <1>1, <1>2, <1>11 DEF IInv, TrueDecisions, Decided
<1>13. Served'
  <2> SUFFICES ASSUME NEW r \in Requests,
                      call[r].held, call[r].phase # "done", post[r] = "accepted"
               PROVE  Answerable(r)'
    BY <1>1 DEF Served
  <2>1. Answerable(r) /\ call[r].agent \in Agents
    BY DEF IInv, Served, Posted
  <2>2. CASE IsPending(room, r)
    <3>1. r \in PendingOf(room) /\ room.pending[r].agent = call[r].agent
      BY <1>2, <2>2, PendingFacts DEF PendingOf
    <3>2. \/ IsPending(Load, r)
          \/ call[r].agent \notin room.members
          \/ \E j \in OutcomesOf(Load, r) : j > Len(room.messages)
      BY <1>2, <3>1 DEF Grown
    <3>3. \A j \in OutcomesOf(Load, r) : j \in 1..Len(room.messages)
      BY <1>2, EventTypes
    <3>4. QED
      BY <1>1, <1>2, <1>3, <3>2, <3>3 DEF Answerable
  <2>3. CASE call[r].agent \notin room.members
    BY <1>1, <1>2, <2>3 DEF Answerable
  <2>4. CASE link[call[r].agent] = "lost"
    <3>1. call[r].agent # a
      BY <1>1, <2>4
    <3>2. link'[call[r].agent] = "lost"
      BY <1>6, <2>1, <2>4, <3>1
    <3>3. QED
      BY <1>1, <3>2 DEF Answerable
  <2>5. CASE \E i \in OutcomesOf(room, r) :
                i \notin Retained(room) \/ i > received[call[r].agent]
    BY <1>1, <1>2, <1>11, <2>5 DEF Answerable, Retained
  <2>6. QED
    BY <2>1, <2>2, <2>3, <2>4, <2>5 DEF Answerable
<1>14. Posted'
  BY <1>1 DEF IInv, Posted
<1>15. QED
  BY <1>8, <1>9, <1>10, <1>12, <1>13, <1>14 DEF IInv

\* One envelope: what it brings is decided, what it passes over it had.
LEMMA ReceiveKeeps ==
    ASSUME IInv, NEW a \in Agents, Receive(a)
    PROVE  IInv'
<1> DEFINE new == {i \in Head(wire[a]).events : i > received[a]}
           Of(r) == {i \in new : room.messages[i].request = r}
           First(r) == CHOOSE i \in Of(r) : \A j \in Of(r) : i <= j
           Decision(m) == IF m.kind = "resolved" THEN m.option ELSE Cancel
           w == wire[a]
<1>1. /\ w # <<>>
      /\ call' = [r \in Requests |->
            IF r \in HeldBy(a) /\ Of(r) # {}
            THEN [call[r] EXCEPT !.held = FALSE,
                     !.decision = Decision(room.messages[First(r)])]
            ELSE call[r]]
      /\ received' = [received EXCEPT ![a] =
            IF Head(w).cursor > @ THEN Head(w).cursor ELSE @]
      /\ wire' = [wire EXCEPT ![a] = Tail(@)]
      /\ UNCHANGED <<room, due, link, pushed, alive, post, sends>>
  BY DEF Receive
<1>2. /\ wire \in [Agents -> Seq(Envelopes)] /\ received \in [Agents -> Nat]
      /\ call \in [Requests -> Calls] /\ pushed \in [Agents -> Nat]
      /\ room \in Rooms /\ Len(room.messages) \in Nat
  BY RoomTypes DEF IInv, TypeOK
<1>3. /\ Head(w) = w[1] /\ Tail(w) \in Seq(Envelopes)
      /\ Len(w) \in Nat \ {0} /\ Len(Tail(w)) = Len(w) - 1
      /\ \A k \in 1..Len(Tail(w)) : Tail(w)[k] = w[k + 1]
      /\ \A k \in 1..Len(w) : w[k] \in Envelopes
  <2>1. w \in Seq(Envelopes) /\ w # <<>>
    BY <1>1, <1>2
  <2> HIDE DEF w
  <2>2. QED
    BY <2>1
<1>4. \A k \in 1..Len(w) :
         /\ w[k].cursor \in Nat /\ w[k].cursor <= Len(room.messages)
         /\ \A i \in w[k].events :
               /\ i \in 1..w[k].cursor
               /\ i \in 1..Len(room.messages)
               /\ room.messages[i].kind \in {"resolved", "expired"}
  BY <1>2, <1>3 DEF IInv, Wired, Envelopes
<1>5. /\ received'[a] \in Nat
      /\ received'[a] >= received[a] /\ received'[a] >= w[1].cursor
      /\ received'[a] <= Len(room.messages)
      /\ received'[a] = received[a] \/ received'[a] = w[1].cursor
      /\ \A b \in Agents : b # a => received'[b] = received[b]
      /\ received' \in [Agents -> Nat]
  <2>1. w[1].cursor \in Nat /\ w[1].cursor <= Len(room.messages)
    BY <1>3, <1>4
  <2>2. received[a] \in Nat /\ received[a] <= Len(room.messages)
    BY <1>2 DEF IInv, Wired
  <2>3. received'[a] = IF w[1].cursor > received[a] THEN w[1].cursor ELSE received[a]
    BY <1>1, <1>2, <1>3
  <2>4. /\ received'[a] \in Nat
        /\ \A b \in Agents : b # a => received'[b] = received[b]
        /\ received' \in [Agents -> Nat]
    BY <1>1, <1>2, <1>3, <2>1, <2>2
  <2>5. QED
    BY <1>2, <2>1, <2>2, <2>3, <2>4
<1>6. /\ wire'[a] = Tail(w)
      /\ \A b \in Agents : b # a => wire'[b] = wire[b]
      /\ wire' \in [Agents -> Seq(Envelopes)]
  BY <1>1, <1>2, <1>3
<1>7. new \subseteq w[1].events /\ \A i \in new : i \in 1..Len(room.messages)
  BY <1>3, <1>4
<1>8. \A r \in Requests : Of(r) # {} => First(r) \in Of(r)
  <2> TAKE r \in Requests
  <2> HAVE Of(r) # {}
  <2>1. Of(r) \in SUBSET Nat
    BY <1>7
  <2>2. \E i \in Of(r) : \A j \in Of(r) : i <= j
    BY <2>1, Smallest
  <2> HIDE DEF Of
  <2>3. QED
    BY <2>2
<1>9. ASSUME NEW r \in Requests, Of(r) # {}
      PROVE  /\ Decision(room.messages[First(r)]) \in Options \cup {Cancel}
             /\ Decision(room.messages[First(r)]) \in Options =>
                   Decided(r, Decision(room.messages[First(r)]))
  <2> DEFINE f == First(r)
  <2>1. f \in new /\ room.messages[f].request = r
    BY <1>8, <1>9
  <2> HIDE DEF First, new, Of
  <2>2. /\ f \in 1..Len(room.messages)
        /\ room.messages[f].kind \in {"resolved", "expired"}
    BY <1>3, <1>4, <1>7, <2>1
  <2> HIDE DEF f
  <2>3. f \in OutcomesOf(room, r)
    BY <2>1, <2>2 DEF OutcomesOf, EventsOf
  <2>4. CASE room.messages[f].kind = "resolved"
    <3>1. room.messages[f].option \in Options
      BY <2>2, <2>4 DEF IInv, Good, Chosen
    <3>2. Decided(r, room.messages[f].option)
      BY <2>3, <2>4 DEF Decided
    <3>3. QED
      BY <2>4, <3>1, <3>2 DEF f
  <2>5. CASE room.messages[f].kind # "resolved"
    BY <2>5, NullsAreNotValues DEF f
  <2>6. QED
    BY <2>4, <2>5
<1> HIDE DEF First, Decision
<1>10. \A r \in Requests :
          /\ call'[r] \in Calls
          /\ call'[r].phase = call[r].phase
          /\ call'[r].agent = call[r].agent
          /\ call'[r].answer = call[r].answer
          /\ call'[r].decision \in Options =>
                Decided(r, call'[r].decision) \/ call'[r].decision = call[r].decision
          /\ call'[r].held => /\ call[r].held
                              /\ call[r].agent = a => Of(r) = {}
  <2> TAKE r \in Requests
  <2>1. CASE r \in HeldBy(a) /\ Of(r) # {}
    <3> DEFINE d == Decision(room.messages[First(r)])
    <3>1. /\ d \in Options \cup {Cancel}
          /\ d \in Options => Decided(r, d)
      BY <1>9, <2>1
    <3>2. call'[r] = [call[r] EXCEPT !.held = FALSE, !.decision = d]
      BY <1>1, <2>1
    <3> HIDE DEF d
    <3>3. call[r] \in Calls
      BY <1>2
    <3>4. /\ call'[r] \in Calls
          /\ call'[r].phase = call[r].phase
          /\ call'[r].agent = call[r].agent
          /\ call'[r].answer = call[r].answer
          /\ call'[r].decision = d
          /\ call'[r].held = FALSE
      BY <3>1, <3>2, <3>3 DEF Calls, Answers
    <3>5. QED
      BY <3>1, <3>4
  <2>2. CASE ~(r \in HeldBy(a) /\ Of(r) # {})
    <3>1. call'[r] = call[r]
      BY <1>1, <2>2
    <3>2. call[r].held /\ call[r].agent = a => r \in HeldBy(a)
      BY DEF HeldBy
    <3>3. QED
      BY <1>2, <2>2, <3>1, <3>2
  <2>3. QED
    BY <2>1, <2>2
<1>11. call' \in [Requests -> Calls]
  BY <1>1, <1>10
<1>12. TypeOK'
  BY <1>1, <1>5, <1>6, <1>11 DEF IInv, TypeOK
<1>13. Good(room)'
  BY <1>1, <1>10, GoodStays
<1>14. TrueDecisions'
  BY <1>1, <1>10, DecisionsStay
<1>15. Posted'
  <2> HIDE DEF Of, w
  <2>1. ASSUME NEW r \in Requests
        PROVE  /\ call'[r].phase = call[r].phase /\ call'[r].agent = call[r].agent
               /\ call'[r].held => call[r].held
               /\ post'[r] = post[r]
    BY <1>1, <1>10
  <2>2. QED
    BY <2>1 DEF IInv, Posted
<1>16. ASSUME NEW i \in Missing(a)'
       PROVE  i \in Missing(a) /\ i > w[1].cursor /\ i \in Nat
  <2>1. /\ i \in Retained(room) /\ i > received'[a]
        /\ room.messages[i].kind \in {"resolved", "expired"}
        /\ room.messages[i].agent = a
    BY <1>1 DEF Missing
  <2>2. i \in Nat /\ w[1].cursor \in Nat /\ received[a] \in Nat
    BY <1>2, <1>3, <1>4, <2>1, EventTypes DEF Retained
  <2>3. i > received[a] /\ i > w[1].cursor
    BY <1>5, <2>1, <2>2
  <2>4. QED
    BY <2>1, <2>2, <2>3 DEF Missing
<1>17. ASSUME NEW b \in Agents PROVE Wired(b)' /\ Covered(b)'
  <2>1. CASE b # a
    BY <1>1, <1>5, <1>6, <2>1, StreamStays
  <2>2. CASE b = a
    <3>1. Wired(a)'
      <4>1. link[a] # "closed" /\ pushed[a] <= Len(room.messages)
        BY <1>1 DEF IInv, Wired
      <4>2. \A k \in 1..Len(Tail(w)) :
               /\ Tail(w)[k].cursor <= Len(room.messages)
               /\ \A i \in Tail(w)[k].events :
                     /\ i \in 1..Tail(w)[k].cursor
                     /\ room.messages[i].kind \in {"resolved", "expired"}
        <5> TAKE k \in 1..Len(Tail(w))
        <5>1. k + 1 \in 1..Len(w) /\ Tail(w)[k] = w[k + 1]
          BY <1>3
        <5>2. QED
          BY <1>4, <5>1
      <4>3. QED
        BY <1>1, <1>5, <1>6, <4>1, <4>2 DEF Wired
    <3>2. ASSUME NEW i \in Missing(a)', link[a] = "open"
          PROVE  /\ i <= pushed[a] => \E k \in 1..Len(Tail(w)) : i \in Tail(w)[k].events
                 /\ a \in room.members => i <= pushed[a]
                 /\ \A k \in 1..Len(Tail(w)) :
                       i <= Tail(w)[k].cursor => \E j \in 1..k : i \in Tail(w)[j].events
      <4>1. /\ i <= pushed[a] => \E k \in 1..Len(w) : i \in w[k].events
            /\ a \in room.members => i <= pushed[a]
            /\ \A k \in 1..Len(w) : i <= w[k].cursor => \E j \in 1..k : i \in w[j].events
        BY <1>16, <3>2 DEF IInv, Covered, Sent
      <4>2. i \notin w[1].events
        <5>1. w[1].cursor \in Nat /\ \A j \in w[1].events : j <= w[1].cursor
          BY <1>3, <1>4
        <5>2. QED
          BY <1>16, <5>1
      <4>3. ASSUME NEW k \in 1..Len(w), i \in w[k].events
            PROVE  k - 1 \in 1..Len(Tail(w)) /\ i \in Tail(w)[k - 1].events
        <5>1. k # 1
          BY <4>2, <4>3
        <5>2. k - 1 \in 1..Len(Tail(w))
          BY <1>3, <5>1
        <5>3. Tail(w)[k - 1] = w[(k - 1) + 1] /\ (k - 1) + 1 = k
          BY <1>3, <5>2
        <5>4. QED
          BY <4>3, <5>2, <5>3
      <4>4. i <= pushed[a] => \E k \in 1..Len(Tail(w)) : i \in Tail(w)[k].events
        BY <4>1, <4>3
      <4>5. ASSUME NEW k \in 1..Len(Tail(w)), i <= Tail(w)[k].cursor
            PROVE  \E j \in 1..k : i \in Tail(w)[j].events
        <5>1. k + 1 \in 1..Len(w) /\ Tail(w)[k] = w[k + 1]
          BY <1>3
        <5>2. PICK j \in 1..(k + 1) : i \in w[j].events
          BY <4>1, <4>5, <5>1
        <5>3. j \in 1..Len(w)
          BY <1>3, <5>1
        <5>4. j - 1 \in 1..Len(Tail(w)) /\ i \in Tail(w)[j - 1].events
          BY <4>3, <5>2, <5>3
        <5>5. j - 1 \in 1..k
          BY <1>3, <5>2, <5>4
        <5>6. QED
          BY <5>4, <5>5
      <4>6. QED
        BY <4>1, <4>4, <4>5
    <3>3. Covered(a)'
      BY <1>1, <1>6, <3>2 DEF Covered, Sent
    <3>4. QED
      BY <2>2, <3>1, <3>3
  <2>3. QED
    BY <2>1, <2>2
<1>18. Served'
  <2> SUFFICES ASSUME NEW r \in Requests,
                      call'[r].held, call'[r].phase # "done", post[r] = "accepted"
               PROVE  Answerable(r)'
    BY <1>1 DEF Served
  <2>1. /\ call[r].held /\ call[r].phase # "done" /\ call'[r].agent = call[r].agent
        /\ call[r].agent = a => Of(r) = {}
    BY <1>10
  <2>2. Answerable(r) /\ call[r].agent \in Agents
    BY <2>1 DEF IInv, Served, Posted
  <2>3. CASE call[r].agent # a
    <3>1. received'[call[r].agent] = received[call[r].agent]
      BY <1>5, <2>2, <2>3
    <3>2. QED
      BY <1>1, <2>1, <2>2, <3>1 DEF Answerable
  <2>4. CASE call[r].agent = a
    <3>1. CASE IsPending(room, r) \/ a \notin room.members \/ link[a] = "lost"
      BY <1>1, <2>1, <2>4, <3>1 DEF Answerable
    <3>2. CASE /\ link[a] # "lost"
               /\ \E i \in OutcomesOf(room, r) : i \notin Retained(room) \/ i > received[a]
      <4>1. PICK i \in OutcomesOf(room, r) : i \notin Retained(room) \/ i > received[a]
        BY <3>2
      <4>2. CASE i \notin Retained(room)
        BY <1>1, <2>1, <2>4, <4>2 DEF Answerable
      <4>3. CASE i \in Retained(room) /\ i > received[a]
        <5>1. /\ room.messages[i].kind \in {"resolved", "expired"}
              /\ room.messages[i].request = r
              /\ i \in EventsOf(room, r) /\ i \in 1..Len(room.messages)
          BY <1>2, EventTypes
        <5>2. room.messages[i].agent = a
          BY <2>4, <5>1 DEF IInv, Good, Correlated
        <5>3. i \in Missing(a)
          BY <4>3, <5>1, <5>2 DEF Missing
        <5>4. link[a] = "open"
          BY <1>1, <3>2 DEF IInv, TypeOK, Wired
        <5>5. i \notin w[1].events
          BY <1>3, <2>1, <2>4, <4>3, <5>1
        <5>6. i > w[1].cursor
          <6>1. 1 \in 1..Len(w) /\ w[1].cursor \in Nat
            BY <1>3, <1>4
          <6>2. i <= w[1].cursor => \E j \in 1..1 : i \in w[j].events
            BY <5>3, <5>4, <6>1 DEF IInv, Covered
          <6>3. QED
            BY <5>1, <5>5, <6>1, <6>2
        <5>7. i > received'[a]
          BY <1>5, <4>3, <5>6
        <5>8. QED
          BY <1>1, <2>1, <2>4, <5>7 DEF Answerable
      <4>4. QED
        BY <4>1, <4>2, <4>3
    <3>3. QED
      BY <2>2, <2>4, <3>1, <3>2 DEF Answerable
  <2>5. QED
    BY <2>3, <2>4
<1>19. QED
  BY <1>12, <1>13, <1>14, <1>15, <1>17, <1>18 DEF IInv

-----------------------------------------------------------------------------
(* The steps of a call *)

\* What a step of one call may do.
CallMoves(r) ==
    /\ UNCHANGED <<room, due, link, pushed, wire, received, alive>>
    /\ call' \in [Requests -> Calls]
    /\ post' \in [Requests -> {"none", "flying", "accepted", "refused"}]
    /\ sends' \in [Requests -> Nat]
    /\ \A q \in Requests : q # r => call'[q] = call[q] /\ post'[q] = post[q]
    /\ call'[r].agent \in Agents /\ call'[r].phase # "idle"
    /\ call[r].phase # "idle" => call'[r].agent = call[r].agent
    /\ call'[r].decision \in {call[r].decision, None}
    /\ call'[r].answer \in {call[r].answer, call[r].decision, Cancel, None}
    /\ call'[r].phase = "waiting" => post'[r] = "accepted"
    /\ (call'[r].held /\ call'[r].phase # "done" /\ post'[r] = "accepted") =>
          call[r].held /\ call[r].phase # "done" /\ post[r] = "accepted"

LEMMA CallKeeps ==
    ASSUME IInv, NEW r \in Requests, CallMoves(r)
    PROVE  IInv'
<1>1. UNCHANGED <<room, due, link, pushed, wire, received, alive>>
  BY DEF CallMoves
<1>2. TypeOK'
  BY <1>1 DEF IInv, TypeOK, CallMoves
<1>3. \A q \in Requests : q # r => call'[q] = call[q] /\ post'[q] = post[q]
  BY DEF CallMoves
<1>4. Good(room)'
  <2>1. \A q \in Requests : call[q].phase # "idle" =>
           call'[q].phase # "idle" /\ call'[q].agent = call[q].agent
    BY <1>3 DEF CallMoves
  <2>2. QED
    BY <1>1, <2>1, GoodStays
<1>5. \A a \in Agents : Wired(a)' /\ Covered(a)'
  BY <1>1, StreamStays
<1>6. TrueDecisions'
  <2>1. \A q \in Requests :
           /\ call'[q].decision \in Options => call'[q].decision = call[q].decision
           /\ call'[q].answer \in Options =>
                 call'[q].answer = call[q].answer \/ call'[q].answer = call[q].decision
    BY <1>3, NullsAreNotValues DEF CallMoves
  <2>2. QED
    BY <1>1, <2>1, DecisionsStay
<1>7. Posted'
  <2> SUFFICES ASSUME NEW q \in Requests
               PROVE  /\ call'[q].phase # "idle" => call'[q].agent \in Agents
                      /\ call'[q].held => call'[q].phase # "idle"
                      /\ post'[q] # "none" => call'[q].phase # "idle"
                      /\ call'[q].phase = "waiting" => post'[q] = "accepted"
    BY DEF Posted
  <2>1. CASE q = r
    BY <2>1 DEF CallMoves
  <2>2. CASE q # r
    BY <1>3, <2>2 DEF IInv, Posted
  <2>3. QED
    BY <2>1, <2>2
<1>8. Served'
  <2>1. ASSUME NEW q \in Requests,
               call'[q].held, call'[q].phase # "done", post'[q] = "accepted"
        PROVE  /\ call[q].held /\ call[q].phase # "done" /\ post[q] = "accepted"
               /\ call'[q].agent = call[q].agent
    <3>1. CASE q = r
      <4>1. call[r].held /\ call[r].phase # "done" /\ post[r] = "accepted"
        BY <2>1, <3>1 DEF CallMoves
      <4>2. call[r].phase # "idle"
        BY <4>1 DEF IInv, Posted
      <4>3. QED
        BY <3>1, <4>1, <4>2 DEF CallMoves
    <3>2. CASE q # r
      BY <1>3, <2>1, <3>2
    <3>3. QED
      BY <3>1, <3>2
  <2>2. QED
    BY <1>1, <2>1, ServedStays
<1>9. QED
  BY <1>2, <1>4, <1>5, <1>6, <1>7, <1>8 DEF IInv

LEMMA AskKeeps ==
    ASSUME IInv, NEW a \in Agents, NEW r \in Requests, Ask(a, r)
    PROVE  IInv'
<1>1. /\ call \in [Requests -> Calls] /\ sends \in [Requests -> Nat]
      /\ post \in [Requests -> {"none", "flying", "accepted", "refused"}]
      /\ call[r] \in Calls
  BY DEF IInv, TypeOK
<1>2. call[r].phase = "idle" /\ UNCHANGED <<room, due, link, pushed, wire, received, alive>>
  BY DEF Ask, streams
<1>3. ~call[r].held /\ post[r] = "none"
  BY <1>2 DEF IInv, Posted
<1>4. CASE Cardinality(HeldBy(a)) < MaxLocal
  <2> DEFINE c == [IdleCall EXCEPT !.phase = "sending", !.agent = a, !.held = TRUE]
  <2>1. /\ call' = [call EXCEPT ![r] = c]
        /\ post' = [post EXCEPT ![r] = "flying"]
        /\ sends' = [sends EXCEPT ![r] = 1]
    BY <1>4 DEF Ask
  <2>2. /\ c \in Calls /\ c.phase = "sending" /\ c.agent = a
        /\ c.decision = None /\ c.answer = None
    BY DEF IdleCall, Calls, Answers
  <2> HIDE DEF c
  <2>3. CallMoves(r)
    BY <1>1, <1>2, <2>1, <2>2 DEF CallMoves
  <2>4. QED
    BY <2>3, CallKeeps
<1>5. CASE ~(Cardinality(HeldBy(a)) < MaxLocal)
  <2> DEFINE c == Answer([call[r] EXCEPT !.agent = a], Cancel)
  <2>1. call' = [call EXCEPT ![r] = c] /\ UNCHANGED <<post, sends>>
    BY <1>5 DEF Ask
  <2>2. /\ c \in Calls /\ c.phase = "done" /\ c.agent = a
        /\ c.decision = call[r].decision /\ c.answer = Cancel
    BY <1>1 DEF Answer, Calls, Answers
  <2> HIDE DEF c
  <2>3. CallMoves(r)
    BY <1>1, <1>2, <2>1, <2>2 DEF CallMoves
  <2>4. QED
    BY <2>3, CallKeeps
<1>6. QED
  BY <1>4, <1>5

LEMMA ResendKeeps ==
    ASSUME IInv, NEW r \in Requests, Resend(r)
    PROVE  IInv'
<1>1. /\ call \in [Requests -> Calls] /\ sends \in [Requests -> Nat]
      /\ post \in [Requests -> {"none", "flying", "accepted", "refused"}]
  BY DEF IInv, TypeOK
<1>2. /\ call[r].phase = "sending"
      /\ post' = [post EXCEPT ![r] = "flying"]
      /\ sends' = [sends EXCEPT ![r] = @ + 1]
      /\ UNCHANGED <<room, due, link, pushed, wire, received, alive, call>>
  BY DEF Resend, streams
<1>3. call[r].agent \in Agents
  BY <1>2 DEF IInv, Posted
<1>4. sends' \in [Requests -> Nat]
  BY <1>1, <1>2
<1>5. CallMoves(r)
  BY <1>1, <1>2, <1>3, <1>4 DEF CallMoves
<1>6. QED
  BY <1>5, CallKeeps

\* A call that ends tells the Harness x.
LEMMA AnswerKeeps ==
    ASSUME IInv, NEW r \in Requests, NEW x \in {Cancel, call[r].decision},
           call[r].phase # "idle",
           call' = [call EXCEPT ![r] = Answer(call[r], x)],
           UNCHANGED <<room, due, link, pushed, wire, received, alive, post, sends>>
    PROVE  IInv'
<1>1. /\ call \in [Requests -> Calls] /\ sends \in [Requests -> Nat]
      /\ post \in [Requests -> {"none", "flying", "accepted", "refused"}]
      /\ call[r] \in Calls
  BY DEF IInv, TypeOK
<1> DEFINE c == Answer(call[r], x)
<1>2. /\ c \in Calls /\ c.phase = "done" /\ c.agent = call[r].agent
      /\ c.decision = call[r].decision /\ c.answer = x
  BY <1>1 DEF Answer, Calls, Answers
<1>3. call[r].agent \in Agents
  BY DEF IInv, Posted
<1> HIDE DEF c
<1>4. call' = [call EXCEPT ![r] = c]
  BY DEF c
<1>5. CallMoves(r)
  BY <1>1, <1>2, <1>3, <1>4 DEF CallMoves
<1>6. QED
  BY <1>5, CallKeeps

LEMMA PostReturnsKeeps ==
    ASSUME IInv, NEW r \in Requests, PostReturns(r)
    PROVE  IInv'
<1>1. /\ call[r].phase = "sending"
      /\ UNCHANGED <<room, due, link, pushed, wire, received, alive, post, sends>>
  BY DEF PostReturns, streams
<1>2. CASE post[r] = "accepted" /\ call' = [call EXCEPT ![r].phase = "waiting"]
  <2>1. /\ call \in [Requests -> Calls] /\ sends \in [Requests -> Nat]
        /\ post \in [Requests -> {"none", "flying", "accepted", "refused"}]
        /\ call[r] \in Calls
    BY DEF IInv, TypeOK
  <2> DEFINE c == [call[r] EXCEPT !.phase = "waiting"]
  <2>2. /\ c \in Calls /\ c.phase = "waiting" /\ c.agent = call[r].agent
        /\ c.decision = call[r].decision /\ c.answer = call[r].answer
        /\ c.held = call[r].held
    BY <2>1 DEF Calls
  <2>3. call[r].agent \in Agents
    BY <1>1 DEF IInv, Posted
  <2>4. call' = [call EXCEPT ![r] = c]
    BY <1>2
  <2> HIDE DEF c
  <2>5. /\ call' \in [Requests -> Calls] /\ call'[r] = c
        /\ \A q \in Requests : q # r => call'[q] = call[q]
    BY <2>1, <2>2, <2>4
  <2>6. CallMoves(r)
    BY <1>1, <1>2, <2>1, <2>2, <2>3, <2>5 DEF CallMoves
  <2>7. QED
    BY <2>6, CallKeeps
<1>3. CASE call' = [call EXCEPT ![r] = Answer(@, Cancel)]
  BY <1>1, <1>3, AnswerKeeps
<1>4. QED
  BY <1>2, <1>3 DEF PostReturns

LEMMA TakeDecisionKeeps ==
    ASSUME IInv, NEW r \in Requests, TakeDecision(r)
    PROVE  IInv'
<1>1. /\ call[r].phase # "idle"
      /\ call' = [call EXCEPT ![r] = Answer(call[r], call[r].decision)]
      /\ UNCHANGED <<room, due, link, pushed, wire, received, alive, post, sends>>
  BY DEF TakeDecision, streams
<1>2. QED
  BY <1>1, AnswerKeeps

LEMMA GiveUpKeeps ==
    ASSUME IInv, NEW r \in Requests, GiveUp(r)
    PROVE  IInv'
<1>1. /\ call[r].phase # "idle"
      /\ call' = [call EXCEPT ![r] = Answer(call[r], Cancel)]
      /\ UNCHANGED <<room, due, link, pushed, wire, received, alive, post, sends>>
  BY DEF GiveUp, streams
<1>2. QED
  BY <1>1, AnswerKeeps

-----------------------------------------------------------------------------
(* The theorems *)

LEMMA InitInvariant == Init => IInv
<1> SUFFICES ASSUME Init PROVE IInv
  OBVIOUS
<1>1. /\ room = [members |-> Agents, pending |-> [r \in Requests |-> None], messages |-> <<>>]
      /\ room \in Rooms
      /\ Len(room.messages) = 0
      /\ \A r \in Requests : ~IsPending(room, r)
  BY DEF Init, Rooms, IsPending
<1>2. /\ PendingOf(room) = {} /\ Retained(room) = {}
      /\ \A r \in Requests : EventsOf(room, r) = {} /\ OutcomesOf(room, r) = {}
  BY <1>1 DEF PendingOf, Retained, EventsOf, OutcomesOf
<1>3. \A r \in Requests : call[r] = IdleCall /\ post[r] = "none"
  BY DEF Init
<1>4. IdleCall \in Calls
  BY DEF IdleCall, Calls, Answers
<1>5. TypeOK
  BY <1>1, <1>2, <1>4 DEF Init, TypeOK
<1>6. Good(room)
  <2>1. IsFiniteSet(PendingOf(room))
    BY <1>2, FS_EmptySet
  <2>2. Recorded(room) /\ Once(room)
    BY <1>2 DEF Recorded, Once
  <2>3. Correlated(room) /\ Settled(room)
    BY <1>2 DEF Correlated, Settled
  <2>4. Chosen(room)
    BY <1>1 DEF Chosen
  <2>5. QED
    BY <1>1, <2>1, <2>2, <2>3, <2>4 DEF Good
<1>7. Posted
  BY <1>3 DEF Posted, IdleCall
<1>8. \A a \in Agents : Wired(a) /\ Covered(a)
  BY <1>1, <1>2 DEF Init, Wired, Covered, Missing
<1>9. TrueDecisions
  BY <1>3, NullsAreNotValues DEF TrueDecisions, IdleCall
<1>10. Served
  BY <1>3 DEF Served
<1>11. QED
  BY <1>5, <1>6, <1>7, <1>8, <1>9, <1>10 DEF IInv

LEMMA StutterKeeps == ASSUME IInv, UNCHANGED vars PROVE IInv'
<1>1. UNCHANGED <<room, due, link, pushed, wire, received, alive, call, post, sends>>
  BY DEF vars, streams, runtime
<1>2. TypeOK'
  BY <1>1 DEF IInv, TypeOK
<1>3. Good(room)'
  BY <1>1, GoodStays
<1>4. \A a \in Agents : Wired(a)' /\ Covered(a)'
  BY <1>1, StreamStays
<1>5. TrueDecisions'
  BY <1>1, DecisionsStay
<1>6. Served'
  BY <1>1, ServedStays
<1>7. Posted'
  BY <1>1 DEF IInv, Posted
<1>8. QED
  BY <1>2, <1>3, <1>4, <1>5, <1>6, <1>7 DEF IInv

LEMMA NextKeeps == ASSUME IInv, [Next]_vars PROVE IInv'
<1>1. CASE RoomStep
  <2>1. ASSUME NEW r \in Requests, AdmitRequest(r) PROVE IInv'
    BY <2>1, AdmitKeeps
  <2>2. ASSUME NEW r \in Requests, DeadlinePasses(r) PROVE IInv'
    BY <2>2, DeadlineKeeps
  <2>3. ASSUME NEW r \in Requests, NEW o, Respond(r, o) PROVE IInv'
    BY <2>3, RespondKeeps
  <2>4. ASSUME NEW D, Alarm(D) PROVE IInv'
    BY <2>4, AlarmKeeps
  <2>5. ASSUME NEW a \in Agents, Leave(a) \/ Heartbeat(a) PROVE IInv'
    BY <2>5, LeaveKeeps, HeartbeatKeeps
  <2>6. CASE Chat
    BY <2>6, ChatKeeps
  <2>7. QED
    BY <1>1, <2>1, <2>2, <2>3, <2>4, <2>5, <2>6 DEF RoomStep
<1>2. ASSUME NEW a \in Agents, StreamStep(a) \/ Abandon(a) PROVE IInv'
  BY <1>2, LoseKeeps, NoticeLossKeeps, ReconnectKeeps, ReceiveKeeps, AbandonKeeps
     DEF StreamStep
<1>3. ASSUME NEW r \in Requests, CallStep(r) PROVE IInv'
  BY <1>3, AskKeeps, ResendKeeps, PostReturnsKeeps, TakeDecisionKeeps, GiveUpKeeps
     DEF CallStep
<1>4. CASE UNCHANGED vars
  BY <1>4, StutterKeeps
<1>5. QED
  BY <1>1, <1>2, <1>3, <1>4 DEF Next

LEMMA Invariant == Spec => []IInv
<1>1. QED
  BY InitInvariant, NextKeeps, PTL DEF Spec

\* The record, the streams and the calls keep their types (TypeOK): no handler
\* writes a record of an unknown Agent or a message without its Agent.
THEOREM TypeCorrect == Spec => []TypeOK
<1>1. IInv => TypeOK
  BY DEF IInv
<1>2. QED
  BY <1>1, Invariant, PTL

\* However many requests, posts, deadlines, departures and decisions race: a
\* request has one outcome in the ring, and a Harness that goes on was given
\* the option a Human chose on that very request (AnswerIsTheDecision).
THEOREM DecisionsAreTrue == Spec => []AnswerIsTheDecision
<1>1. IInv => AnswerIsTheDecision
  BY DEF IInv, Good, Once, TrueDecisions, Decided, AnswerIsTheDecision, OneOutcome
<1>2. QED
  BY <1>1, Invariant, PTL

\* A call that waits on the event stream has somebody who will answer it, or
\* the runtime is about to learn that nobody will (ParkedCallIsServed).
THEOREM CallsAreServed == Spec => []ParkedCallIsServed
<1>1. ASSUME IInv PROVE ParkedCallIsServed
  <2> SUFFICES ASSUME NEW r \in Requests, call[r].held, call[r].phase = "waiting"
               PROVE  \/ IsPending(room, r)
                      \/ call[r].agent \notin room.members
                      \/ link[call[r].agent] = "lost"
                      \/ \E i \in OutcomesOf(room, r) :
                            \/ i \notin Retained(room)
                            \/ /\ i > received[call[r].agent]
                               /\ \/ \E k \in 1..Len(wire[call[r].agent]) :
                                        i \in wire[call[r].agent][k].events
                                  \/ link[call[r].agent] = "closed"
    BY DEF ParkedCallIsServed
  <2> DEFINE a == call[r].agent
  <2>1. Answerable(r) /\ a \in Agents
    BY <1>1 DEF IInv, Posted, Served
  <2>2. ASSUME NEW i \in OutcomesOf(room, r), i \in Retained(room), i > received[a],
               link[a] = "open", a \in room.members
        PROVE  \E k \in 1..Len(wire[a]) : i \in wire[a][k].events
    <3>1. /\ room.messages[i].kind \in {"resolved", "expired"}
          /\ i \in EventsOf(room, r)
      BY <1>1, EventTypes DEF IInv, TypeOK
    <3>2. room.messages[i].agent = a
      BY <1>1, <3>1 DEF IInv, Good, Correlated
    <3>3. i \in Missing(a)
      BY <2>2, <3>1, <3>2 DEF Missing
    <3>4. QED
      BY <1>1, <2>1, <2>2, <3>3 DEF IInv, Covered, Sent
  <2>3. link[a] \in {"open", "lost", "closed"}
    BY <1>1, <2>1 DEF IInv, TypeOK
  <2>4. QED
    BY <2>1, <2>2, <2>3 DEF Answerable
<1>2. QED
  BY <1>1, Invariant, PTL

\* Every step keeps the record or lets it grow.
LEMMA NextGrows ==
    ASSUME IInv, [Next]_vars
    PROVE  room' = room \/ Grown(room, room')
<1>1. ASSUME NEW new, Grown(room, new), NEW c, PublishFrom(new, c)
      PROVE  Grown(room, room')
  BY <1>1 DEF PublishFrom
<1>2. ASSUME NEW r \in Requests, AdmitRequest(r) PROVE Grown(room, room')
  <2> DEFINE a == call[r].agent
             current == Expire(Load, due, {})
             new == IF a \in room.members THEN Ingest(current, a, r) ELSE Load
  <2>1. Publish(new) /\ call[r].phase # "idle" /\ a \in Agents
    BY <1>2 DEF AdmitRequest, IInv, Posted
  <2>2. /\ Good(current) /\ current \in Rooms
        /\ Grown(room, current) /\ current.members = room.members
    BY ExpiredLoad
  <2>3. room \in Rooms
    BY LoadStep
  <2> HIDE DEF current
  <2>4. ASSUME a \in room.members PROVE Grown(room, new)
    <3>1. Good(Ingest(current, a, r)) /\ Grown(current, Ingest(current, a, r))
      BY <2>1, <2>2, <2>4, IngestStep
    <3>2. Ingest(current, a, r) \in Rooms
      BY <3>1 DEF Good
    <3>3. Grown(room, Ingest(current, a, r))
      BY <2>2, <2>3, <3>1, <3>2, GrownChain
    <3>4. QED
      BY <2>4, <3>3
  <2>5. Grown(room, new)
    BY <2>4, LoadStep
  <2> HIDE DEF new
  <2>6. QED
    BY <1>1, <2>1, <2>5 DEF Publish
<1>3. ASSUME NEW r \in Requests, NEW o, Respond(r, o) PROVE Grown(room, room')
  <2>1. CASE Publish(Load)
    BY <1>1, <2>1, LoadStep DEF Publish
  <2>2. CASE Publish(Expire(Load, due, {Load.pending[r].agent}))
    BY <1>1, <2>2, ExpiredLoad DEF Publish
  <2>3. CASE IsPending(Load, r) /\ o \in Options /\ Publish(Resolve(Load, r, o))
    <3>1. r \in PendingOf(Load)
      BY <2>3 DEF PendingOf
    <3>2. Good(Resolve(Load, r, o)) /\ Grown(Load, Resolve(Load, r, o))
      BY <2>3, <3>1, LoadStep, ResolveStep
    <3>3. Grown(room, Resolve(Load, r, o))
      BY <3>2, AfterLoad
    <3>4. QED
      BY <1>1, <2>3, <3>3 DEF Publish
  <2>4. QED
    BY <1>3, <2>1, <2>2, <2>3 DEF Respond
<1>4. ASSUME NEW D, Alarm(D) PROVE Grown(room, room')
  BY <1>1, <1>4, RemovedLoad DEF Alarm, Publish
<1>5. ASSUME NEW a \in Agents, Leave(a) PROVE Grown(room, room')
  BY <1>1, <1>5, RemovedLoad DEF Leave, Publish
<1>6. ASSUME NEW a \in Agents, Heartbeat(a) PROVE Grown(room, room')
  BY <1>1, <1>6, LoadStep DEF Heartbeat
<1>7. ASSUME Chat PROVE Grown(room, room')
  <2> DEFINE new == [Load EXCEPT !.messages = Append(@, [kind |-> "chat"])]
  <2>1. Good(new) /\ Grown(Load, new) /\ Publish(new)
    BY <1>7, LoadStep, ChatStep DEF Chat
  <2> HIDE DEF new
  <2>2. Grown(room, new)
    BY <2>1, AfterLoad
  <2>3. QED
    BY <1>1, <2>1, <2>2 DEF Publish
<1>8. ASSUME NEW a \in Agents, Reconnect(a) PROVE Grown(room, room')
  BY <1>8, LoadStep DEF Reconnect
<1>9. CASE RoomStep
  BY <1>2, <1>3, <1>4, <1>5, <1>6, <1>7, <1>9 DEF RoomStep, DeadlinePasses
<1>10. ASSUME NEW a \in Agents, StreamStep(a) \/ Abandon(a)
       PROVE  room' = room \/ Grown(room, room')
  BY <1>8, <1>10 DEF StreamStep, Lose, NoticeLoss, Receive, Abandon
<1>11. ASSUME NEW r \in Requests, CallStep(r) PROVE room' = room
  BY <1>11 DEF CallStep, Ask, Resend, PostReturns, TakeDecision, GiveUp
<1>12. CASE UNCHANGED vars
  BY <1>12 DEF vars
<1>13. QED
  BY <1>9, <1>10, <1>11, <1>12 DEF Next

\* A request that ends leaves an outcome in the ring, unless the lease of its
\* Agent had expired: no handler forgets to tell the runtime (EndsAnnounced).
THEOREM EndsLeaveOutcomes == Spec => EndsAnnounced
<1>1. ASSUME IInv, [Next]_vars,
             NEW r \in Requests, IsPending(room, r), ~IsPending(room', r)
      PROVE  \/ OutcomesOf(room', r) \ OutcomesOf(room, r) # {}
             \/ room.pending[r].agent \notin room.members
  <2>1. r \in PendingOf(room) /\ Grown(room, room')
    BY <1>1, NextGrows DEF PendingOf
  <2>2. CASE \E j \in OutcomesOf(room', r) : j > Len(room.messages)
    <3>1. room \in Rooms
      BY <1>1 DEF IInv, TypeOK
    <3>2. PICK j \in OutcomesOf(room', r) : j > Len(room.messages)
      BY <2>2
    <3>3. j \notin OutcomesOf(room, r)
      <4>1. ASSUME j \in OutcomesOf(room, r) PROVE j <= Len(room.messages)
        BY <3>1, <4>1, RoomTypes DEF OutcomesOf, EventsOf
      <4>2. Len(room.messages) \in Nat
        BY <3>1, RoomTypes
      <4>3. ASSUME j \in OutcomesOf(room, r) PROVE j \in Nat
        BY <4>2, <4>3 DEF OutcomesOf, EventsOf
      <4>4. QED
        BY <3>2, <4>1, <4>2, <4>3
    <3>4. QED
      BY <3>2, <3>3
  <2>3. QED
    BY <1>1, <2>1, <2>2 DEF Grown
<1>2. IInv /\ [Next]_vars =>
         [\A r \in Requests :
             (IsPending(room, r) /\ ~IsPending(room', r)) =>
                 \/ OutcomesOf(room', r) \ OutcomesOf(room, r) # {}
                 \/ room.pending[r].agent \notin room.members]_vars
  BY <1>1
<1>3. QED
  BY <1>2, Invariant, PTL DEF Spec, EndsAnnounced

=============================================================================
