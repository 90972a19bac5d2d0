---------------------------- MODULE TaskRegistry ----------------------------
(***************************************************************************)
(* The collaboration requests of a room ("Tasks") and their answers: the   *)
(* message ring, which is saved with the room, and the registry that       *)
(* correlates requests with answers, which the Durable Object only keeps   *)
(* in memory and rebuilds from the ring after a restart (do/collab.ts,     *)
(* do/RoomSession.ts).                                                     *)
(*                                                                         *)
(* A handler changes the registry before it saves the room, and the save   *)
(* may be refused for want of bytes.                                       *)
(***************************************************************************)
EXTENDS Integers, FiniteSets, SequencesExt

CONSTANTS
    People,       \* participants, Humans and Agents
    Ids,          \* requests, [from, target, n]: a retry repeats its request
    MaxMessages,  \* MAX_MESSAGES, the bound of the ring
    MaxRequests,  \* the bound of the registry
    Answers,      \* of "accepted", "declined", "completed" and "failed"
    MaxSequence   \* bound: the last message of a behaviour

VARIABLES
    ring,       \* the retained messages, oldest first
    next,       \* nextMessageSequence
    registry,   \* the tracked requests, oldest first
    warm,       \* collabRebuilt
    journal     \* history: every collaboration message that was saved

vars == <<ring, next, registry, warm, journal>>

Kinds == {"request"} \cup Answers
Sequences1 == 1..MaxSequence
Chat == [seq : Sequences1, kind : {"text"}]
Events == [seq : Sequences1, kind : Kinds, id : Ids, from : People, target : People]
Records == [id : Ids, from : People, target : People, seqs : [Kinds -> 0..MaxSequence]]

TypeOK ==
    /\ ring \in Seq(Chat \cup Events) /\ next \in 0..MaxSequence
    /\ registry \in Seq(Records) /\ warm \in BOOLEAN
    /\ journal \subseteq Events

Init ==
    /\ ring = <<>> /\ next = 0
    /\ registry = <<>> /\ warm = FALSE
    /\ journal = {}

-----------------------------------------------------------------------------
(* CollabRegistry *)

Find(reg, id) == {r \in Range(reg) : r.id = id}
Known(reg, id) == Find(reg, id) # {}
Entry(reg, id) == CHOOSE r \in Find(reg, id) : TRUE

LastN(s, n) == SubSeq(s, IF Len(s) > n THEN Len(s) - n + 1 ELSE 1, Len(s))
IsEvent(m) == m.kind \in Kinds

\* rebuild, the record of one id: its log, in the order of the ring.
First(log, kind) ==
    LET found == {log[i].seq : i \in {j \in 1..Len(log) : log[j].kind = kind}}
    IN  IF found = {} THEN 0 ELSE CHOOSE s \in found : \A u \in found : s <= u

Rebuilt(log) ==
    LET request == First(log, "request")
        asked == CHOOSE m \in Range(log) : m.seq = request
        own(m) == m.kind = "request" \/ m.from = asked.target
    IN  IF request = 0 THEN <<>>
        ELSE << [id |-> asked.id, from |-> asked.from, target |-> asked.target,
                 seqs |-> [k \in Kinds |-> First(SelectSeq(log, own), k)]] >>

\* The ids of the retained events, in the order of their first appearance.
Grouped(events) ==
    LET opens(i) == \A j \in 1..(i - 1) : events[j].id # events[i].id
        firsts == {i \in 1..Len(events) : opens(i)}
    IN  [n \in 1..Cardinality(firsts) |->
           events[CHOOSE i \in firsts : Cardinality({j \in firsts : j <= i}) = n].id]

Rebuild(messages) ==
    LET events == SelectSeq(messages, IsEvent)
        logOf(id) == SelectSeq(events, LAMBDA m : m.id = id)
        kept == LastN(Grouped(events), MaxRequests)
    IN  FlattenSeq([n \in 1..Len(kept) |-> Rebuilt(logOf(kept[n]))])

\* Mutant: an instance that was restarted goes on with an empty registry.
NeverRebuilt == registry

\* warmCollabRegistry
Warm == IF warm THEN registry ELSE Rebuild(ring)

\* recordRequest: a new request, after evictWhileFull
Record(reg, id, seq) ==
    Append(LastN(reg, MaxRequests - 1),
           [id |-> id, from |-> id.from, target |-> id.target,
            seqs |-> [k \in Kinds |-> IF k = "request" THEN seq ELSE 0]])

\* commitResponse
Commit(reg, id, kind, seq) ==
    [i \in 1..Len(reg) |-> IF reg[i].id = id THEN [reg[i] EXCEPT !.seqs[kind] = seq] ELSE reg[i]]

-----------------------------------------------------------------------------
(* The room's handlers *)

\* appendMessage: the ring is bounded by count and, before a save, by bytes;
\* the newest message stays.
Kept(messages) == {LastN(messages, n) : n \in 1..MaxMessages}

\* The tracked requests whose save was refused.
Unsaved(reg) == {r \in Range(reg) : ~ \E m \in journal : m.kind = "request" /\ m.id = r.id}

\* appendMessage and saveRoom of an event.  A save over MAX_PRIMARY_ROOM_BYTES
\* throws: the room stays as it was saved before.  Bound: there are fewer such
\* requests at a time than the registry has room for besides the ring.
Save(event) ==
    \/ /\ ring' \in Kept(Append(ring, event))
       /\ next' = event.seq
       /\ journal' = journal \cup {event}
    \/ /\ Cardinality(Unsaved(registry')) <= MaxRequests - MaxMessages
       /\ UNCHANGED <<ring, next, journal>>

\* "duplicate", "unknown_request" or "not_request_target": nothing is appended.
Refuse == registry' = Warm /\ UNCHANGED <<ring, next, journal>>

\* ingestCollabWorkRequest, of "agent-send-collab" and of a Human's collab-request.
Request(id) ==
    /\ next < MaxSequence
    /\ warm' = TRUE
    /\ IF Known(Warm, id)
       THEN Refuse
       ELSE /\ registry' = Record(Warm, id, next + 1)
            /\ Save([seq |-> next + 1, kind |-> "request", id |-> id,
                     from |-> id.from, target |-> id.target])

\* ingestCollabResponse, with the precheck and the routing of the registry: of
\* "agent-send-collab" and of a Human's collab-response and collab-result.
Respond(by, kind, id) ==
    /\ next < MaxSequence /\ warm' = TRUE
    /\ IF ~Known(Warm, id) \/ Entry(Warm, id).target # by \/ Entry(Warm, id).seqs[kind] # 0
       THEN Refuse
       ELSE /\ registry' = Commit(Warm, id, kind, next + 1)
            /\ Save([seq |-> next + 1, kind |-> kind, id |-> id, from |-> by,
                     target |-> Entry(Warm, id).from])

\* appendHumanText, "agent-send-text" and every other message of the room.
Say ==
    /\ next < MaxSequence
    /\ ring' \in Kept(Append(ring, [seq |-> next + 1, kind |-> "text"]))
    /\ next' = next + 1
    /\ UNCHANGED <<registry, warm, journal>>

\* The instance is evicted from memory.  Starting a room anew under the same
\* name does the same to the registry (resetCollabTracking) and empties the ring.
Restart ==
    /\ registry' = <<>> /\ warm' = FALSE
    /\ UNCHANGED <<ring, next, journal>>

\* An id is random: it is answered by those who saw it in the room.
Shown(id) == \E m \in journal : m.id = id

Next ==
    \/ \E id \in Ids : Request(id)
    \/ \E by \in People, kind \in Answers, id \in Ids : Shown(id) /\ Respond(by, kind, id)
    \/ Say
    \/ Restart

Spec == Init /\ [][Next]_vars

-----------------------------------------------------------------------------
(* Properties *)

\* Whoever reports the progress or the outcome of a request was asked to do it,
\* and the report goes to the participant who asked: across restarts, and when
\* the ring has lost the request but not the answers given so far.
AnswersReturnToTheAsker ==
    \A m \in journal : m.kind \in Answers =>
        \E q \in journal : /\ q.kind = "request" /\ q.id = m.id /\ q.seq < m.seq
                           /\ m.from = q.target /\ m.target = q.from

\* As long as the room retains a request, it is not put before the Agent again and
\* its asker is not told the same step twice: a retry, also one after a restart,
\* finds the first.
RetriesCollapse ==
    \A q, m, n \in Range(SelectSeq(ring, IsEvent)) :
        ~ /\ q.kind = "request" /\ m.id = q.id /\ n.id = q.id
          /\ q.seq <= m.seq /\ m.seq < n.seq /\ m.kind = n.kind

\* A request and its answers stay one exchange, whatever is retried, forgotten by the
\* ring or lost with the instance.
ExchangesStay == AnswersReturnToTheAsker /\ RetriesCollapse
=============================================================================
