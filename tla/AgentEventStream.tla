-------------------------- MODULE AgentEventStream --------------------------
(***************************************************************************)
(* The events of a room on their way to an Agent: the message ring and the *)
(* attachment ring of the RoomSession Durable Object, which share one      *)
(* sequence (do/RoomSession.ts), the resident sockets and the held waits   *)
(* through which it delivers, and the Agent runtime that receives          *)
(* (agent/internal/runtime/runtime.go).                                    *)
(*                                                                         *)
(* A handler is one step, except an upload: it loads the record, waits for *)
(* the body of its request and then saves the record it loaded.            *)
(*                                                                         *)
(* An entry is its sequence and the Agents it is visible to; every event   *)
(* is taken to be addressed to its readers.                                *)
(***************************************************************************)
EXTENDS Integers, FiniteSets, Sequences, Functions

CONSTANTS
    Residents,       \* Agents whose runtime keeps an event socket
    Pollers,         \* Agents whose runtime calls wait_for_events
    None,
    MaxMessages,     \* MAX_MESSAGES
    MaxAttachments,  \* MAX_AGENT_ATTACHMENTS
    MaxEntries,      \* bound: the last sequence
    MaxUploads,      \* bound: uploads whose body is on its way
    MaxWire          \* bound: frames on their way to one runtime

Agents == Residents \cup Pollers

ASSUME KindsOfRuntime == Residents \cap Pollers = {}
ASSUME Bounds ==
    /\ {MaxMessages, MaxAttachments, MaxWire} \subseteq Nat \ {0}
    /\ {MaxEntries, MaxUploads} \subseteq Nat

VARIABLES
    room,      \* the persisted rings, oldest first, and nextMessageSequence
    uploads,   \* uploads that wait for their body, with the record (and the history)
               \* they loaded
    sock,      \* sock[a]: the cursor of a's resident socket and its frames
    held,      \* held[a]: the cursor of the wait the room holds for a
    reply,     \* reply[a]: the answer on its way to the poller a
    cursor,    \* the runtime's receipt cursor
    reader,    \* the frame the runtime is applying, and the cursor it read first
    late,      \* the same for a reader whose stream was given up meanwhile
    pending,   \* addressed triggers that wait for a turn
    ahead,     \* the pending triggers that are delivered already
    delivered, \* deliveredThrough
    history,   \* history: the readers of every sequence
    answered,  \* history: how many turns have consumed each sequence
    gaps,      \* history: the visible sequences a truncated frame or a rejoin skipped
    overwritten \* history: a record older than the persisted one was saved

roomvars == <<room, uploads, history, overwritten>>
wirevars == <<sock, held, reply>>
turnvars == <<pending, ahead, delivered, answered>>
rtvars == <<cursor, reader, late, turnvars, gaps>>
vars == <<roomvars, wirevars, rtvars>>

Sequences1 == 1..MaxEntries
Entries == [seq : Sequences1, readers : SUBSET Agents, brief : BOOLEAN]
Frames == [events : SUBSET Sequences1, cursor : 0..MaxEntries, gone : SUBSET Sequences1]
Applying == [frame : Frames, through : 0..MaxEntries]
Records == [next : 0..MaxEntries, messages : Seq(Entries), attachments : Seq(Entries)]
UploadKinds == {"attachment", "brief", "surface"}
Uploads == [kind : UploadKinds, readers : SUBSET Agents, loaded : Records,
            known : Seq(SUBSET Agents)]
Sockets == [cursor : 0..MaxEntries, wire : Seq(Frames)]

ASSUME NoneIsNoValue ==
    /\ None \notin Sockets /\ None \notin Frames /\ None \notin Applying
    /\ None \notin 0..MaxEntries

TypeOK ==
    /\ room \in Records /\ uploads \subseteq Uploads
    /\ history \in Seq(SUBSET Agents) /\ overwritten \in BOOLEAN
    /\ sock \in [Agents -> Sockets \cup {None}]
    /\ held \in [Agents -> 0..MaxEntries \cup {None}]
    /\ reply \in [Agents -> Frames \cup {None}]
    /\ reader \in [Agents -> Applying \cup {None}] /\ late \in [Agents -> Applying \cup {None}]
    /\ cursor \in [Agents -> 0..MaxEntries] /\ delivered \in [Agents -> 0..MaxEntries]
    /\ pending \in [Agents -> Seq(Sequences1)]
    /\ ahead \in [Agents -> SUBSET Sequences1] /\ gaps \in [Agents -> SUBSET Sequences1]
    /\ answered \in [Agents -> [Sequences1 -> Nat]]

-----------------------------------------------------------------------------
(* What a cursor is shown *)

Retained(r) == Range(r.messages) \cup Range(r.attachments)
SeqsOf(entries) == {e.seq : e \in entries}
Lower(m, n) == IF m < n THEN m ELSE n

\* Mutant: the oldest retained entry is taken for the floor.
FloorOldest(S) == IF S = {} THEN 0 ELSE CHOOSE f \in S : \A s \in S : f <= s

\* retainedEventCoverageFloor: the first of the newest sequences without a gap.
Floor(S) ==
    IF S = {} THEN 0
    ELSE LET newest == CHOOSE n \in S : \A s \in S : s <= n
         IN  CHOOSE f \in S : f..newest \subseteq S /\ f - 1 \notin S

\* agentEvents.  gone is what the flag "truncated" stands for.
FrameFor(r, a, c) ==
    LET from == Lower(c, r.next)
        floor == Floor(SeqsOf(Retained(r)))
        after == IF floor > 0 /\ from < floor - 1 THEN floor - 1 ELSE from
    IN  [events |-> SeqsOf({e \in Retained(r) : e.seq > after /\ a \in e.readers}),
         cursor |-> r.next,
         gone |-> from + 1 .. after]

\* The part of S that Agent a may see, for the histories.
Seen(a, S) == {s \in S \cap 1..Len(history) : a \in history[s]}

HasNews(f) == f.events # {} \/ f.gone # {}

-----------------------------------------------------------------------------
(* Delivery *)

\* pushAgentEventSocket
Pushed(s, f, force) ==
    IF force \/ HasNews(f) THEN [cursor |-> f.cursor, wire |-> Append(s.wire, f)] ELSE s

\* pushAgentEventSockets
PushSockets(r, force) ==
    sock' = [a \in Agents |-> IF sock[a] = None THEN None
                              ELSE Pushed(sock[a], FrameFor(r, a, sock[a].cursor), force)]

\* resolveAgentWaiters: held waits with news are answered, sockets are pushed.
Resolve(r) ==
    LET served == {a \in Agents : held[a] # None /\ HasNews(FrameFor(r, a, held[a]))}
    IN  /\ held' = [a \in Agents |-> IF a \in served THEN None ELSE held[a]]
        /\ reply' = [a \in Agents |-> IF a \in served THEN FrameFor(r, a, held[a]) ELSE reply[a]]
        /\ PushSockets(r, FALSE)

\* broadcastState, then resolveAgentWaiters or not
BroadcastState(r) ==
    /\ PushSockets(r, TRUE)
    /\ UNCHANGED <<held, reply>>

RoomForFrame == \A a \in Agents : sock[a] # None => Len(sock[a].wire) < MaxWire

-----------------------------------------------------------------------------
(* The room's handlers *)

\* appendMessage, saveRoom: the ring is bounded by count and by bytes, and the
\* newest message always stays.
Kept(s) == {SubSeq(s, Len(s) - n + 1, Len(s)) : n \in 1..Lower(Len(s), MaxMessages)}

\* "agent-send-text", chat, collab and permission messages
Say(R) ==
    LET e == [seq |-> room.next + 1, readers |-> R, brief |-> FALSE]
    IN  /\ room.next < MaxEntries /\ RoomForFrame
        /\ \E kept \in Kept(Append(room.messages, e)) :
             room' = [room EXCEPT !.next = e.seq, !.messages = kept]
        /\ history' = Append(history, R)
        /\ Resolve(room')
        /\ UNCHANGED <<uploads, overwritten, rtvars>>

\* A change of the roster, a Runtime Host or a grant.
Announce ==
    /\ RoomForFrame
    /\ BroadcastState(room)
    /\ UNCHANGED <<roomvars, rtvars>>

\* handleAttachmentUpload, handleSurfaceUpload: up to the body of the request.  A
\* brief is staged for a Task that does not exist yet: nobody reads it, and it
\* never evicts.
BeginUpload(kind, R) ==
    /\ Cardinality(uploads) < MaxUploads
    /\ kind # "attachment" => R = {}
    /\ kind = "brief" => Len(room.attachments) < MaxAttachments
    /\ uploads' = uploads \cup
         {[kind |-> kind, readers |-> R, loaded |-> room, known |-> history]}
    /\ UNCHANGED <<room, history, overwritten, wirevars, rtvars>>

\* The rest of handleAttachmentUpload: the record that was loaded is saved.
EndAttachment(u) ==
    LET e == [seq |-> u.loaded.next + 1, readers |-> u.readers, brief |-> u.kind = "brief"]
        ring == Append(u.loaded.attachments, e)
    IN  /\ u \in uploads /\ u.kind # "surface"
        /\ u.loaded.next < MaxEntries /\ RoomForFrame
        /\ room' = [u.loaded EXCEPT !.next = e.seq,
                      !.attachments = SubSeq(ring, Len(ring) - Lower(Len(ring), MaxAttachments) + 1, Len(ring))]
        /\ history' = Append(u.known, u.readers)
        /\ uploads' = uploads \ {u}
        /\ overwritten' = (overwritten \/ u.loaded # room)
        /\ Resolve(room')
        /\ UNCHANGED rtvars

\* The rest of handleSurfaceUpload: saveRoom, broadcastState
EndSurface(u) ==
    /\ u \in uploads /\ u.kind = "surface" /\ RoomForFrame
    /\ room' = u.loaded
    /\ history' = u.known
    /\ uploads' = uploads \ {u}
    /\ overwritten' = (overwritten \/ u.loaded # room)
    /\ BroadcastState(room')
    /\ UNCHANGED rtvars

\* "human-discard-task-attachment": a staged brief no Agent has seen is removed.
Discard(i) ==
    /\ room.attachments[i].brief /\ RoomForFrame
    /\ room' = [room EXCEPT !.attachments = SubSeq(@, 1, i - 1) \o SubSeq(@, i + 1, Len(@))]
    /\ BroadcastState(room')
    /\ UNCHANGED <<uploads, history, overwritten, rtvars>>

\* The instance ends and another takes over: what it held in memory is lost, the
\* hibernating sockets and their attachments are not.
Restart ==
    /\ uploads' = {} /\ held' = [a \in Agents |-> None]
    /\ UNCHANGED <<room, history, overwritten, sock, reply, rtvars>>

-----------------------------------------------------------------------------
(* The resident stream of a runtime *)

\* handleAgentEventConnection: the new socket starts at the runtime's cursor and
\* gets a first frame; the other sockets learn of it only if the Agent was not
\* connected.
Connect(a) ==
    /\ sock[a] = None
    /\ \E known \in BOOLEAN :
         sock' = [b \in Agents |->
                    IF b = a THEN Pushed([cursor |-> 0, wire |-> <<>>],
                                         FrameFor(room, a, Lower(cursor[a], room.next)), TRUE)
                    ELSE IF sock[b] = None \/ known THEN sock[b]
                    ELSE Pushed(sock[b], FrameFor(room, b, sock[b].cursor), TRUE)]
    /\ RoomForFrame
    /\ UNCHANGED <<roomvars, held, reply, rtvars>>

\* The connection breaks with what is on it.  A reader in the middle of a frame
\* goes on without it.
Lose(a) ==
    /\ sock[a] # None /\ (reader[a] = None \/ late[a] = None)
    /\ sock' = [sock EXCEPT ![a] = None]
    /\ late' = [late EXCEPT ![a] = IF reader[a] = None THEN @ ELSE reader[a]]
    /\ reader' = [reader EXCEPT ![a] = None]
    /\ UNCHANGED <<roomvars, held, reply, cursor, turnvars, gaps>>

\* handleAgentEventMessage: a heartbeat carries the runtime's cursor, which is
\* behind the socket's while frames are on their way.
Heartbeat(a) ==
    /\ sock[a] # None /\ RoomForFrame
    /\ sock' = [b \in Agents |->
                  IF sock[b] = None THEN None
                  ELSE LET c == IF b = a THEN Lower(cursor[a], room.next) ELSE sock[b].cursor
                       IN  Pushed([sock[b] EXCEPT !.cursor = c], FrameFor(room, b, c), FALSE)]
    /\ UNCHANGED <<roomvars, held, reply, rtvars>>

\* Receive and the start of advanceFromWait: receivedThrough is read.
Take(a) ==
    /\ sock[a] # None /\ sock[a].wire # <<>> /\ reader[a] = None
    /\ reader' = [reader EXCEPT ![a] = [frame |-> Head(sock[a].wire), through |-> cursor[a]]]
    /\ sock' = [sock EXCEPT ![a].wire = Tail(@)]
    /\ UNCHANGED <<roomvars, held, reply, cursor, late, turnvars, gaps>>

\* The events of a frame that are accepted.
Accepted(x) == {s \in x.frame.events : s > x.through}

\* acceptEvent: an addressed event becomes a trigger unless it is one already
\* or was consumed.
Triggers(a, S) == {s \in S : s > delivered[a] /\ s \notin Range(pending[a])}

\* The events of a frame come in the order of their sequences.
InOrder(S) ==
    [i \in 1..Cardinality(S) |->
        CHOOSE s \in S : Cardinality({t \in S : t < s}) = i - 1]

\* The rest of advanceFromWait
Advance(a, x) ==
    /\ pending' = [pending EXCEPT ![a] = @ \o InOrder(Triggers(a, Accepted(x)))]
    /\ gaps' = [gaps EXCEPT ![a] = @ \cup Seen(a, x.frame.gone)]
    /\ cursor' = [cursor EXCEPT ![a] = IF x.frame.cursor > @ THEN x.frame.cursor ELSE @]
    /\ UNCHANGED <<ahead, delivered, answered>>

Apply(a) ==
    /\ reader[a] # None
    /\ Advance(a, reader[a])
    /\ reader' = [reader EXCEPT ![a] = None]
    /\ UNCHANGED <<roomvars, wirevars, late>>

\* The reader of a stream that was given up ends the frame it had begun.
ApplyLate(a) ==
    /\ late[a] # None
    /\ Advance(a, late[a])
    /\ late' = [late EXCEPT ![a] = None]
    /\ UNCHANGED <<roomvars, wirevars, reader>>

-----------------------------------------------------------------------------
(* A runtime that polls, and turns *)

\* waitForAgent: a wait with news, or one that is not held, is answered at once.
\* A second wait of the same Agent is refused.
Wait(a) ==
    LET f == FrameFor(room, a, cursor[a])
        news == HasNews(f) \/ cursor[a] # room.next
    IN  /\ held[a] = None /\ reply[a] = None /\ reader[a] = None
        /\ \/ ~news /\ held' = [held EXCEPT ![a] = cursor[a]] /\ UNCHANGED reply
           \/ reply' = [reply EXCEPT ![a] = f] /\ UNCHANGED held
        /\ UNCHANGED <<roomvars, sock, rtvars>>

\* The timer of a held wait
WaitEnds(a) ==
    /\ held[a] # None /\ reply[a] = None
    /\ held' = [held EXCEPT ![a] = None]
    /\ reply' = [reply EXCEPT ![a] = FrameFor(room, a, held[a])]
    /\ UNCHANGED <<roomvars, sock, rtvars>>

LoseReply(a) ==
    /\ reply[a] # None
    /\ reply' = [reply EXCEPT ![a] = None]
    /\ UNCHANGED <<roomvars, sock, held, rtvars>>

\* waitLoop: one wait at a time, applied before the next.
TakeReply(a) ==
    /\ reply[a] # None /\ reader[a] = None
    /\ reader' = [reader EXCEPT ![a] = [frame |-> reply[a], through |-> cursor[a]]]
    /\ reply' = [reply EXCEPT ![a] = None]
    /\ UNCHANGED <<roomvars, sock, held, cursor, late, turnvars, gaps>>

\* The lease ended: the runtime joins anew and starts at the room's sequence,
\* with its pending triggers.
Rejoin(a) ==
    /\ sock[a] = None /\ held[a] = None /\ reply[a] = None /\ reader[a] = None
    /\ cursor[a] # room.next
    /\ cursor' = [cursor EXCEPT ![a] = room.next]
    /\ gaps' = [gaps EXCEPT ![a] = @ \cup Seen(a, cursor[a] + 1 .. room.next)]
    /\ UNCHANGED <<roomvars, wirevars, reader, late, turnvars>>

\* Mutant: the queue forgets a delivered trigger, deliveredThrough does not move.
DeliveredAsBefore(a, n) == delivered[a]

\* Mutant: deliveredThrough is taken for the next sequence to deliver.
DeliveredPast(a, n) == IF n = 0 THEN delivered[a] ELSE pending[a][n] + 1

\* collapseDeliveredPrefixLocked: the cursor passes the first n triggers, which a
\* late reader may have queued out of order.
DeliveredThrough(a, n) ==
    LET passed == {delivered[a]} \cup {pending[a][i] : i \in 1..n}
    IN  CHOOSE m \in passed : \A s \in passed : s <= m

\* A turn succeeds: its trigger is delivered, perhaps before an older one whose
\* turn waits for a retry, and the delivered prefix of the queue is dropped.
Turn(a) ==
    \E s \in Range(pending[a]) \ ahead[a], n \in 0..Len(pending[a]) :
      LET done == ahead[a] \cup {s}
          dropped == Range(SubSeq(pending[a], 1, n))
      IN  /\ dropped \subseteq done
          /\ n < Len(pending[a]) => pending[a][n + 1] \notin done
          /\ pending' = [pending EXCEPT ![a] = SubSeq(@, n + 1, Len(@))]
          /\ ahead' = [ahead EXCEPT ![a] = done \ dropped]
          /\ delivered' = [delivered EXCEPT ![a] = DeliveredThrough(a, n)]
          /\ answered' = [answered EXCEPT ![a][s] = @ + 1]
          /\ UNCHANGED <<roomvars, wirevars, cursor, reader, late, gaps>>

-----------------------------------------------------------------------------
Init ==
    /\ room = [next |-> 0, messages |-> <<>>, attachments |-> <<>>]
    /\ uploads = {} /\ history = <<>> /\ overwritten = FALSE
    /\ sock = [a \in Agents |-> None] /\ held = sock /\ reply = sock
    /\ reader = sock /\ late = sock
    /\ cursor = [a \in Agents |-> 0] /\ delivered = cursor
    /\ pending = [a \in Agents |-> <<>>]
    /\ answered = [a \in Agents |-> [s \in Sequences1 |-> 0]]
    /\ ahead = [a \in Agents |-> {}] /\ gaps = ahead

RoomStep ==
    \/ \E R \in SUBSET Agents : Say(R)
    \/ Announce
    \/ \E kind \in UploadKinds, R \in SUBSET Agents : BeginUpload(kind, R)
    \/ \E u \in uploads : EndAttachment(u) \/ EndSurface(u)
    \/ \E i \in 1..Len(room.attachments) : Discard(i)
    \/ Restart

ResidentStep(a) == Connect(a) \/ Lose(a) \/ Heartbeat(a) \/ Take(a)
PollerStep(a) == Wait(a) \/ WaitEnds(a) \/ LoseReply(a) \/ TakeReply(a)

Next ==
    \/ RoomStep
    \/ \E a \in Residents : ResidentStep(a)
    \/ \E a \in Pollers : PollerStep(a)
    \/ \E a \in Agents : Apply(a) \/ ApplyLate(a) \/ Rejoin(a) \/ Turn(a)

Spec == Init /\ [][Next]_vars

-----------------------------------------------------------------------------
(* Nobody waits for an event the room has: a held wait is answered and an   *)
(* open socket is pushed by the very handler that appends                   *)
(* (resolveAgentWaiters, RoomSession.ts:3006).                              *)
NobodyWaitsOnEvents ==
    ~overwritten =>
      \A a \in Agents :
        /\ held[a] # None => FrameFor(room, a, held[a]).events = {}
        /\ sock[a] # None => FrameFor(room, a, sock[a].cursor).events = {}

\* An event triggers one turn at most: a frame that is pushed again after a
\* heartbeat, sent again to a new socket or finished by the reader of an
\* abandoned stream never makes the Agent answer twice (runtime.go:1896).
AnsweredOnce == \A a \in Agents, s \in Sequences1 : answered[a][s] <= 1

\* Whatever a cursor is behind of, or a frame says again, reaches the Agent once.
EventsAreServed == NobodyWaitsOnEvents /\ AnsweredOnce

\* The room and its runtimes keep the promise of EventLog, until a stale record
\* is saved: no event behind an Agent's cursor was skipped unannounced.
Settled == [a \in Agents |-> Range(pending[a]) \cup gaps[a] \cup {s \in Sequences1 : answered[a][s] > 0}]

Log == INSTANCE EventLog WITH
           log <- history, pos <- cursor, settled <- Settled, void <- overwritten

LogKept == Log!Spec

\* "Deliberately does NOT touch messages, sequence numbers, agent waiters, or
\* attachments" (RoomSession.ts:9605): a surface update changes no event.
SurfaceLeavesEvents ==
    [][\A u \in uploads : EndSurface(u) => room' = room]_vars
=============================================================================
