-------------------------- MODULE RoomPermissions --------------------------
(***************************************************************************)
(* Permission requests: a Harness that must not act without an approval    *)
(* asks its Go runtime (agent/internal/runtime/permissions.go), which      *)
(* posts the request to the room (do/RoomSession.ts, permission.ts) and    *)
(* parks the call.  The decision of a Human, or the end of the request,    *)
(* comes back as a room message over the resident event stream.  Between   *)
(* the two stand a message ring that forgets, deadlines, departures, posts *)
(* whose answer is lost and a stream that drops and resumes from a cursor. *)
(*                                                                         *)
(* messages holds every message the room ever appended; a handler may look *)
(* only at the Retained ones.  Deadlines are abstracted to the set due of  *)
(* requests whose expiresAt has passed, the lease to the choice of an      *)
(* Agent that sends no heartbeats.                                         *)
(***************************************************************************)
EXTENDS Naturals, Sequences, FiniteSets

CONSTANTS
    Agents,         \* participant ids of Agents
    Requests,       \* correlation ids, fresh for each call of a Harness
    Options,        \* the native options a request offers
    OtherOption,    \* an option no request offers
    Cancel,         \* what a Harness is told instead of an option
    None,           \* "no value"
    MaxMessages,    \* MAX_MESSAGES, the length of the message ring
    MaxPending,     \* MAX_PENDING_PERMISSION_REQUESTS
    MaxLocal,       \* maxPendingRoomPermissions
    MaxSends,       \* bound: how often one request is posted
    MaxChats,       \* bound: ordinary messages
    MaxWire         \* bound: undelivered envelopes before a heartbeat

ASSUME NullsAreNotValues ==
    /\ None \notin Agents \cup Requests \cup Options \cup {Cancel, OtherOption}
    /\ Cancel \notin Options \cup {OtherOption}
    /\ OtherOption \notin Options
ASSUME BoundsAreNaturals ==
    /\ MaxMessages \in Nat \ {0}
    /\ {MaxPending, MaxLocal, MaxSends, MaxChats, MaxWire} \subseteq Nat

VARIABLES
    room,       \* the persisted room record
    due,        \* pending requests whose deadline has passed
    link,       \* the event stream of an Agent
    pushed,     \* the cursor the room keeps on the stream's socket
    wire,       \* envelopes sent and not yet received
    received,   \* the runtime's receipt cursor
    alive,      \* Agents whose runtime still holds the participant
    call,       \* the Harness call behind a request
    post,       \* the HTTP request that carries it
    sends       \* how often it was posted

streams == <<link, pushed, wire>>
runtime == <<received, alive, call, post, sends>>
vars == <<room, due, streams, runtime>>

-----------------------------------------------------------------------------
(* The room record and its operators *)

PendingRecords == [agent : Agents, sequence : Nat \ {0}]

ASSUME NoneIsNoRecord == None \notin PendingRecords

Messages ==
    [kind : {"request", "resolved", "expired"}, request : Requests,
     agent : Agents, option : Options \cup {None}]
    \cup [kind : {"chat"}]

Rooms == [members : SUBSET Agents,
          pending : [Requests -> PendingRecords \cup {None}],
          messages : Seq(Messages)]

IsPending(rm, r) == rm.pending[r] # None
PendingOf(rm) == {r \in Requests : IsPending(rm, r)}
Retained(rm) ==
    {i \in 1..Len(rm.messages) : i + MaxMessages > Len(rm.messages)}

EventsOf(rm, r) ==
    {i \in 1..Len(rm.messages) : /\ rm.messages[i].kind # "chat"
                                 /\ rm.messages[i].request = r}
OutcomesOf(rm, r) == {i \in EventsOf(rm, r) : rm.messages[i].kind # "request"}

\* The last retained message of request r, 0 if the ring has none.
LatestEvent(rm, r) ==
    LET known == EventsOf(rm, r) \cap Retained(rm)
    IN  IF known = {} THEN 0
        ELSE CHOOSE i \in known : \A j \in known : j <= i

\* Mutant: every request the ring knows counts as announced.
ClosedWhenKnown(rm, r) == LatestEvent(rm, r) # 0

Closed(rm, r) ==
    /\ LatestEvent(rm, r) # 0
    /\ rm.messages[LatestEvent(rm, r)].kind \in {"resolved", "expired"}

\* The load of every handler: a record without its Agent is dropped.
Normalize(rm) ==
    [rm EXCEPT !.pending = [r \in Requests |->
        IF IsPending(rm, r) /\ rm.pending[r].agent \in rm.members
        THEN rm.pending[r] ELSE None]]

Load == Normalize(room)

\* Mutant: deadlines are not looked at.
MustEndByDeparture(rm, late, departed) ==
    {r \in PendingOf(rm) : rm.pending[r].agent \in departed}

\* Every pending request that is due, or whose Agent has departed, ends; the
\* end is announced unless the ring already holds an outcome.
MustEnd(rm, late, departed) ==
    {r \in PendingOf(rm) : \/ r \in late
                           \/ rm.pending[r].agent \in departed
                           \/ rm.pending[r].agent \notin rm.members}

\* Several ends are announced one after another; the index's own order is
\* abstracted to that of the presentations.
Expire(rm, late, departed) ==
    LET ended == MustEnd(rm, late, departed)
        told == {r \in ended : ~Closed(rm, r)}
        Before(r) == {q \in told : rm.pending[q].sequence < rm.pending[r].sequence}
        Nth(k) == CHOOSE r \in told : Cardinality(Before(r)) = k - 1
    IN  [rm EXCEPT
          !.pending = [r \in Requests |-> IF r \in ended THEN None ELSE @[r]],
          !.messages = @ \o [k \in 1..Cardinality(told) |->
              [kind |-> "expired", request |-> Nth(k),
               agent |-> rm.pending[Nth(k)].agent, option |-> None]]]

RequestMessage(a, r) ==
    [kind |-> "request", request |-> r, agent |-> a, option |-> None]

\* Mutant: the record names the message before its own.
PresentOffByOne(rm, a, r) ==
    [rm EXCEPT !.messages = Append(@, RequestMessage(a, r)),
               !.pending[r] = [agent |-> a, sequence |-> Len(rm.messages)]]

\* Append the request's message and make it the one the record names.
Present(rm, a, r) ==
    [rm EXCEPT !.messages = Append(@, RequestMessage(a, r)),
               !.pending[r] = [agent |-> a, sequence |-> Len(rm.messages) + 1]]

\* ingestPermissionRequest: the room after it and the answer of the handler.
Recordable(rm, r) ==
    /\ ~IsPending(rm, r)
    /\ LatestEvent(rm, r) = 0
    /\ Cardinality(PendingOf(rm)) < MaxPending

Replayable(rm, a, r) ==
    /\ IsPending(rm, r)
    /\ rm.pending[r].agent = a
    /\ rm.pending[r].sequence \notin Retained(rm)

Duplicate(rm, a, r) ==
    IF IsPending(rm, r)
    THEN /\ rm.pending[r].agent = a
         /\ rm.pending[r].sequence \in Retained(rm)
    ELSE /\ LatestEvent(rm, r) # 0
         /\ rm.messages[LatestEvent(rm, r)] = RequestMessage(a, r)

Ingest(rm, a, r) ==
    IF Recordable(rm, r) \/ Replayable(rm, a, r) THEN Present(rm, a, r) ELSE rm

Accepted(rm, a, r) ==
    Recordable(rm, r) \/ Replayable(rm, a, r) \/ Duplicate(rm, a, r)

\* A valid response closes the request: the first one wins.
Resolve(rm, r, o) ==
    [rm EXCEPT
      !.pending[r] = None,
      !.messages = Append(@, [kind |-> "resolved", request |-> r,
                              agent |-> rm.pending[r].agent, option |-> o])]

Remove(rm, D) == [rm EXCEPT !.members = @ \ D]

-----------------------------------------------------------------------------
(* The resident event stream *)

Envelopes == [events : SUBSET (Nat \ {0}), cursor : Nat]

\* What an Agent sees of the ring after a cursor: the outcomes of its own
\* requests.  Its request messages are its own and not sent back; other events
\* change nothing here.
Visible(rm, a, cursor) ==
    {i \in Retained(rm) : /\ i > cursor
                          /\ rm.messages[i].kind \in {"resolved", "expired"}
                          /\ rm.messages[i].agent = a}

\* resolveAgentWaiters, broadcastState: each open stream gets what is new to
\* it, from the given cursors on; the stream of a departed Agent is closed.
PublishFrom(rm, cursor) ==
    LET Sent(a) == /\ link[a] = "open"
                   /\ a \in rm.members
                   /\ Visible(rm, a, cursor[a]) # {}
    IN  /\ room' = rm
        /\ due' = due \cap PendingOf(rm)
        /\ wire' = [a \in Agents |->
              IF Sent(a)
              THEN Append(wire[a], [events |-> Visible(rm, a, cursor[a]),
                                    cursor |-> Len(rm.messages)])
              ELSE wire[a]]
        /\ pushed' = [a \in Agents |->
              IF Sent(a) THEN Len(rm.messages) ELSE cursor[a]]
        /\ link' = [a \in Agents |->
              IF link[a] = "open" /\ a \notin rm.members THEN "lost" ELSE link[a]]

Publish(rm) == PublishFrom(rm, pushed)

-----------------------------------------------------------------------------
(* The runtime's calls *)

Answers == Options \cup {Cancel, None}

Calls == [phase : {"idle", "sending", "waiting", "done"},
          agent : Agents \cup {None},
          held : BOOLEAN,           \* still in pendingPermissions
          decision : Answers,       \* the one buffered decision
          answer : Answers]         \* what the Harness was told

IdleCall == [phase |-> "idle", agent |-> None, held |-> FALSE,
             decision |-> None, answer |-> None]

HeldBy(a) == {r \in Requests : call[r].held /\ call[r].agent = a}

Answer(c, x) == [c EXCEPT !.phase = "done", !.held = FALSE, !.answer = x]

\* cancelPendingPermissions
CancelCalls(a) ==
    call' = [r \in Requests |->
        IF r \in HeldBy(a)
        THEN [call[r] EXCEPT !.held = FALSE, !.decision = Cancel]
        ELSE call[r]]

Init ==
    /\ room = [members |-> Agents, pending |-> [r \in Requests |-> None],
               messages |-> <<>>]
    /\ due = {}
    /\ link = [a \in Agents |-> "open"]
    /\ pushed = [a \in Agents |-> 0]
    /\ wire = [a \in Agents |-> <<>>]
    /\ received = [a \in Agents |-> 0]
    /\ alive = Agents
    /\ call = [r \in Requests |-> IdleCall]
    /\ post = [r \in Requests |-> "none"]
    /\ sends = [r \in Requests |-> 0]

-----------------------------------------------------------------------------
(* Steps of the room *)

\* agent-send-permission
AdmitRequest(r) ==
    LET a == call[r].agent
        current == Expire(Load, due, {})
    IN  /\ post[r] = "flying"
        /\ IF a \in room.members
           THEN /\ Publish(Ingest(current, a, r))
                /\ post' = [post EXCEPT ![r] =
                      IF Accepted(current, a, r) THEN "accepted" ELSE "refused"]
           ELSE /\ Publish(Load)
                /\ post' = [post EXCEPT ![r] = "refused"]
        /\ UNCHANGED <<received, alive, call, sends>>

\* permission-response: a Human clicks an option of the approval card.  A
\* request found overdue ends together with every other one of its Agent.
Respond(r, o) ==
    LET current == Load
    IN  /\ EventsOf(room, r) # {}
        /\ IF ~IsPending(current, r) THEN Publish(current)
           ELSE IF r \in due
           THEN Publish(Expire(current, due, {current.pending[r].agent}))
           ELSE IF o \notin Options THEN Publish(current)
           ELSE Publish(Resolve(current, r, o))
        /\ UNCHANGED runtime

\* agent-leave, also by the runtime that stops
Leave(a) ==
    /\ a \in room.members
    /\ a \notin alive
    /\ Publish(Remove(Expire(Load, due, {a}), {a}))
    /\ UNCHANGED runtime

\* The alarm: deadlines first, then the Agents D whose lease has expired.
\* Only an Agent that sends no heartbeats can be among them.
Alarm(D) ==
    /\ D \subseteq {a \in room.members : link[a] # "open" \/ a \notin alive}
    /\ due # {} \/ D # {}
    /\ Publish(Remove(Expire(Load, due, {}), D))
    /\ UNCHANGED runtime

DeadlinePasses(r) ==
    /\ IsPending(room, r)
    /\ r \notin due
    /\ due' = due \cup {r}
    /\ UNCHANGED <<room, streams, runtime>>

Chats == {i \in 1..Len(room.messages) : room.messages[i].kind = "chat"}

Chat ==
    /\ Cardinality(Chats) < MaxChats
    /\ Publish([Load EXCEPT !.messages = Append(@, [kind |-> "chat"])])
    /\ UNCHANGED runtime

\* A heartbeat moves the socket's cursor to the runtime's, back too.
Heartbeat(a) ==
    /\ link[a] = "open"
    /\ a \in alive \cap room.members
    /\ pushed[a] # received[a]
    /\ Len(wire[a]) < MaxWire
    /\ PublishFrom(Load, [pushed EXCEPT ![a] = received[a]])
    /\ UNCHANGED runtime

-----------------------------------------------------------------------------
(* Steps of the transport and of the runtime *)

Lose(a) ==
    /\ link[a] = "open"
    /\ link' = [link EXCEPT ![a] = "lost"]
    /\ UNCHANGED <<room, due, pushed, wire, runtime>>

\* The reader fails: what is parked can get no decision and fails closed.
NoticeLoss(a) ==
    /\ link[a] = "lost"
    /\ link' = [link EXCEPT ![a] = "closed"]
    /\ wire' = [wire EXCEPT ![a] = <<>>]
    /\ CancelCalls(a)
    /\ UNCHANGED <<room, due, pushed, received, alive, post, sends>>

\* Mutant: a new stream starts at the present, not at the runtime's cursor.
ReconnectAtPresent(a) ==
    /\ link[a] = "closed"
    /\ a \in alive \cap room.members
    /\ wire' = [wire EXCEPT ![a] = <<[events |-> {},
                                       cursor |-> Len(room.messages)]>>]
    /\ room' = Load
    /\ due' = due \cap PendingOf(Load)
    /\ pushed' = [pushed EXCEPT ![a] = Len(room.messages)]
    /\ link' = [link EXCEPT ![a] = "open"]
    /\ UNCHANGED runtime

\* A new stream starts at the runtime's cursor and is caught up at once.
Reconnect(a) ==
    /\ link[a] = "closed"
    /\ a \in alive \cap room.members
    /\ wire' = [wire EXCEPT ![a] = <<[events |-> Visible(Load, a, received[a]),
                                       cursor |-> Len(room.messages)]>>]
    /\ room' = Load
    /\ due' = due \cap PendingOf(Load)
    /\ pushed' = [pushed EXCEPT ![a] = Len(room.messages)]
    /\ link' = [link EXCEPT ![a] = "open"]
    /\ UNCHANGED runtime

\* Mutant: a decision is handed to every held call of the Agent.
ReceiveUncorrelated(a) ==
    /\ wire[a] # <<>>
    /\ LET new == {i \in Head(wire[a]).events : i > received[a]}
           first == CHOOSE i \in new : \A j \in new : i <= j
           Decision(m) == IF m.kind = "resolved" THEN m.option ELSE Cancel
       IN  /\ call' = [r \in Requests |->
                 IF r \in HeldBy(a) /\ new # {}
                 THEN [call[r] EXCEPT !.held = FALSE,
                          !.decision = Decision(room.messages[first])]
                 ELSE call[r]]
           /\ received' = [received EXCEPT ![a] =
                 IF Head(wire[a]).cursor > @ THEN Head(wire[a]).cursor ELSE @]
    /\ wire' = [wire EXCEPT ![a] = Tail(@)]
    /\ UNCHANGED <<room, due, link, pushed, alive, post, sends>>

\* advanceFromWait and handleRoomPermissionEvent, for one envelope: events up
\* to the receipt cursor are duplicates, an event of no held call is ignored.
Receive(a) ==
    /\ wire[a] # <<>>
    /\ LET new == {i \in Head(wire[a]).events : i > received[a]}
           Of(r) == {i \in new : room.messages[i].request = r}
           First(r) == CHOOSE i \in Of(r) : \A j \in Of(r) : i <= j
           Decision(m) == IF m.kind = "resolved" THEN m.option ELSE Cancel
       IN  /\ call' = [r \in Requests |->
                 IF r \in HeldBy(a) /\ Of(r) # {}
                 THEN [call[r] EXCEPT !.held = FALSE,
                          !.decision = Decision(room.messages[First(r)])]
                 ELSE call[r]]
           /\ received' = [received EXCEPT ![a] =
                 IF Head(wire[a]).cursor > @ THEN Head(wire[a]).cursor ELSE @]
    /\ wire' = [wire EXCEPT ![a] = Tail(@)]
    /\ UNCHANGED <<room, due, link, pushed, alive, post, sends>>

\* respondToPermission: park the call, then post the request.
Ask(a, r) ==
    /\ a \in alive
    /\ call[r].phase = "idle"
    /\ IF Cardinality(HeldBy(a)) < MaxLocal
       THEN /\ call' = [call EXCEPT ![r] =
                 [IdleCall EXCEPT !.phase = "sending", !.agent = a, !.held = TRUE]]
            /\ post' = [post EXCEPT ![r] = "flying"]
            /\ sends' = [sends EXCEPT ![r] = 1]
       ELSE /\ call' = [call EXCEPT ![r] = Answer([@ EXCEPT !.agent = a], Cancel)]
            /\ UNCHANGED <<post, sends>>
    /\ UNCHANGED <<room, due, streams, received, alive>>

\* The same POST arrives once more: the handler is written for retries.
Resend(r) ==
    /\ call[r].phase = "sending"
    /\ sends[r] < MaxSends
    /\ post' = [post EXCEPT ![r] = "flying"]
    /\ sends' = [sends EXCEPT ![r] = @ + 1]
    /\ UNCHANGED <<room, due, streams, received, alive, call>>

\* The client's answer: the call waits, or fails.  The HTTP call may fail at
\* any time, whatever the room made or makes of the request.
PostReturns(r) ==
    /\ call[r].phase = "sending"
    /\ \/ /\ post[r] = "accepted"
          /\ call' = [call EXCEPT ![r].phase = "waiting"]
       \/ call' = [call EXCEPT ![r] = Answer(@, Cancel)]
    /\ UNCHANGED <<room, due, streams, received, alive, post, sends>>

\* The decision is read, or the turn's context ends (which the select may
\* prefer to a decision already there).
TakeDecision(r) ==
    /\ call[r].phase = "waiting"
    /\ call[r].decision # None
    /\ call' = [call EXCEPT ![r] = Answer(@, call[r].decision)]
    /\ UNCHANGED <<room, due, streams, received, alive, post, sends>>

GiveUp(r) ==
    /\ call[r].phase = "waiting"
    /\ call' = [call EXCEPT ![r] = Answer(@, Cancel)]
    /\ UNCHANGED <<room, due, streams, received, alive, post, sends>>

\* The runtime stops, or finds its participant gone and joins anew under a
\* fresh participant id.
Abandon(a) ==
    /\ a \in alive
    /\ alive' = alive \ {a}
    /\ CancelCalls(a)
    /\ link' = [link EXCEPT ![a] = "closed"]
    /\ wire' = [wire EXCEPT ![a] = <<>>]
    /\ UNCHANGED <<room, due, pushed, received, post, sends>>

-----------------------------------------------------------------------------
RoomStep ==
    \/ \E r \in Requests : AdmitRequest(r) \/ DeadlinePasses(r)
    \/ \E r \in Requests, o \in Options \cup {OtherOption} : Respond(r, o)
    \/ \E D \in SUBSET Agents : Alarm(D)
    \/ \E a \in Agents : Leave(a) \/ Heartbeat(a)
    \/ Chat

StreamStep(a) == Lose(a) \/ NoticeLoss(a) \/ Reconnect(a) \/ Receive(a)

CallStep(r) ==
    \/ \E a \in Agents : Ask(a, r)
    \/ Resend(r) \/ PostReturns(r) \/ TakeDecision(r) \/ GiveUp(r)

Next ==
    \/ RoomStep
    \/ \E a \in Agents : StreamStep(a) \/ Abandon(a)
    \/ \E r \in Requests : CallStep(r)

Spec == Init /\ [][Next]_vars

-----------------------------------------------------------------------------
(* Properties *)

\* Types of the room record, the streams and the runtime's calls.
TypeOK ==
    /\ room \in Rooms
    /\ due \subseteq PendingOf(room)
    /\ link \in [Agents -> {"open", "lost", "closed"}]
    /\ pushed \in [Agents -> Nat]
    /\ wire \in [Agents -> Seq(Envelopes)]
    /\ received \in [Agents -> Nat]
    /\ alive \subseteq Agents
    /\ call \in [Requests -> Calls]
    /\ post \in [Requests -> {"none", "flying", "accepted", "refused"}]
    /\ sends \in [Requests -> Nat]

\* A request has at most one outcome in the ring, however the decision, the
\* deadline, the departure and repeated posts race (the first one wins).
OneOutcome ==
    \A r \in Requests :
        \A i, j \in OutcomesOf(room, r) \cap Retained(room) : i = j

\* And a Harness acts only on the option a Human chose on this very request.
AnswerIsTheDecision ==
    /\ OneOutcome
    /\ \A r \in Requests : call[r].answer \in Options =>
        \E i \in OutcomesOf(room, r) :
             /\ room.messages[i].kind = "resolved"
             /\ room.messages[i].option = call[r].answer

\* A parked call has somebody who will answer it: the request is open in the
\* room, its outcome is on the way or still to be caught up with, or the
\* runtime is about to learn that stream or participant are gone.  Only the
\* ring may forget an outcome while the stream is down.
ParkedCallIsServed ==
    \A r \in Requests : call[r].held /\ call[r].phase = "waiting" =>
        LET a == call[r].agent IN
        \/ IsPending(room, r)
        \/ a \notin room.members
        \/ link[a] = "lost"
        \/ \E i \in OutcomesOf(room, r) :
              \/ i \notin Retained(room)
              \/ /\ i > received[a]
                 /\ \/ \E k \in 1..Len(wire[a]) : i \in wire[a][k].events
                    \/ link[a] = "closed"

\* A request that ends while its Agent is in the room, or by the Agent's leave,
\* leaves an outcome behind; only a lease that expires may end it silently.
EndsAnnounced ==
    [][\A r \in Requests :
          (IsPending(room, r) /\ ~IsPending(room', r)) =>
              \/ OutcomesOf(room', r) \ OutcomesOf(room, r) # {}
              \/ room.pending[r].agent \notin room.members]_vars

\* No approval card stays open for ever.
RequestEnds(r) == IsPending(room, r) ~> ~IsPending(room, r)

\* A parked call whose request has an outcome is released, by the outcome or by
\* the loss of the stream, unless the ring forgot the outcome or the Agent lost
\* its place in the room.
OutcomeReleasesCall(r) ==
    (call[r].held /\ OutcomesOf(room, r) # {}) ~>
        \/ ~call[r].held
        \/ OutcomesOf(room, r) \cap Retained(room) = {}
        \/ call[r].agent \notin room.members
=============================================================================
