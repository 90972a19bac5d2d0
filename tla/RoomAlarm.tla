----------------------------- MODULE RoomAlarm -----------------------------
(***************************************************************************)
(* Presence and deadlines of a room (do/RoomSession.ts, roomExpiry.ts).    *)
(* A Durable Object has one alarm.  It serves the lease of every Agent,    *)
(* the reconnect grace of every Human, the end of an empty room and the    *)
(* retry of failed media closes, and nearly every handler sets it anew.    *)
(* Sockets come and go beside it: the close of a socket is an event of its *)
(* own that may arrive after its successor is open.                        *)
(*                                                                         *)
(* Time passes in ticks.  lastSeenAt is kept as the age of the last sign   *)
(* of life, expiresAt and the alarm as the ticks left, so that the state   *)
(* space is finite without a horizon.                                      *)
(***************************************************************************)
EXTENDS Integers, FiniteSets

CONSTANTS
    Humans, Agents,
    NoRoom,         \* no record in storage
    LEASE,          \* AGENT_LEASE_MS
    GRACE,          \* RECONNECT_GRACE_MS
    RETRY,          \* MEDIA_CLEANUP_RETRY_MS
    EMPTY,          \* EMPTY_ROOM_TIMEOUT_MS
    HEARTBEAT,      \* a third of the lease, the runtime's ticker
    NO_EXPIRY,      \* a deadline that never comes
    MaxAge          \* bound: ages saturate here

Participants == Humans \cup Agents

ASSUME KindsAreDisjoint == Humans \cap Agents = {}
ASSUME DurationsArePositive ==
    /\ {LEASE, GRACE, RETRY, EMPTY, HEARTBEAT} \subseteq Nat \ {0}
    /\ NO_EXPIRY \in Nat /\ MaxAge \in Nat
    /\ \A t \in {LEASE, GRACE, RETRY, EMPTY} : t < NO_EXPIRY
    /\ LEASE < MaxAge /\ GRACE < MaxAge
    /\ HEARTBEAT < LEASE

VARIABLES
    room,       \* the persisted record
    age,        \* ticks since a participant's lastSeenAt
    alarm,      \* ticks left until the alarm, NO_EXPIRY without one
    sock,       \* the socket that bears a participant's connection nonce
    stale,      \* participants with an older socket whose close is to come
    since,      \* ticks since the runtime's last heartbeat on its stream
    attempt,    \* whether close calls for the cleanup queue are in flight
    waited      \* ticks the pending queue has waited without an attempt

sockets == <<sock, stale, since>>
cleanup == <<attempt, waited>>
vars == <<room, age, alarm, sockets, cleanup>>

RoomRecords == [members : SUBSET Participants,
                connected : SUBSET Participants,
                expires : Int,      \* ticks left of expiresAt
                pending : BOOLEAN]  \* pendingMediaCleanup is not empty

ASSUME NoRoomIsNoRecord == NoRoom \notin RoomRecords

EmptyRecord == [members |-> {}, connected |-> {}, expires |-> NO_EXPIRY,
                pending |-> FALSE]

Exists == room # NoRoom
Members == IF Exists THEN room.members ELSE {}

\* isExpired
IsExpired == Exists /\ room.expires <= 0

-----------------------------------------------------------------------------
(* Deadlines *)

\* Mutant: the deadline of an empty room is set only when it has none.
ExpiresAtKept(members, expires) ==
    IF members = {} /\ expires = NO_EXPIRY THEN EMPTY ELSE expires

\* computeExpiresAt: an occupied room has no deadline, an empty one keeps it.
ExpiresAt(members, expires) ==
    IF members # {} THEN NO_EXPIRY
    ELSE IF expires = NO_EXPIRY THEN EMPTY ELSE expires

\* Mutant: disconnected Humans set no deadline.
DeadlinesOfAgents(rm, seen) ==
    {rm.expires}
    \cup {LEASE - seen[p] : p \in rm.members \cap Agents}
    \cup (IF rm.pending THEN {RETRY} ELSE {})

Deadlines(rm, seen) ==
    {rm.expires}
    \cup {LEASE - seen[p] : p \in rm.members \cap Agents}
    \cup {GRACE - seen[p] : p \in (rm.members \cap Humans) \ rm.connected}
    \cup (IF rm.pending THEN {RETRY} ELSE {})

\* scheduleNextAlarm
Schedule(rm, seen) ==
    /\ alarm' \in Deadlines(rm, seen)
    /\ \A t \in Deadlines(rm, seen) : alarm' <= t

Save(rm, seen) == room' = rm /\ age' = seen /\ Schedule(rm, seen)

Overdue(rm, seen) ==
    {p \in rm.members : \/ p \in Agents /\ seen[p] >= LEASE
                        \/ /\ p \in Humans \ rm.connected
                           /\ seen[p] >= GRACE}

Seen(p) == [age EXCEPT ![p] = 0]

\* An Agent is connected from the start.
With(rm, p) ==
    [rm EXCEPT !.members = @ \cup {p},
               !.connected = IF p \in Agents THEN @ \cup {p} ELSE @,
               !.expires = ExpiresAt(rm.members \cup {p}, @)]

Without(rm, D) ==
    [rm EXCEPT !.members = @ \ D, !.connected = @ \ D,
               !.expires = ExpiresAt(rm.members \ D, @)]

\* Media of a departing Agent may have to be closed.
MayStage(rm, D) == {[rm EXCEPT !.pending = b] :
                      b \in {rm.pending} \cup (IF D \cap Agents = {} THEN {} ELSE {TRUE})}

\* expireRoom: the record, the alarm and every socket go.  Close calls under way
\* go on and may come back to a new generation of the room.
ExpireRoom ==
    /\ room' = NoRoom
    /\ alarm' = NO_EXPIRY
    /\ sock' = [p \in Participants |-> "none"]
    /\ stale' = {}
    /\ waited' = 0
    /\ UNCHANGED <<age, since, attempt>>

-----------------------------------------------------------------------------
(* Handlers *)

Init ==
    /\ room = NoRoom
    /\ age = [p \in Participants |-> 0]
    /\ alarm = NO_EXPIRY
    /\ sock = [p \in Participants |-> "none"]
    /\ stale = {}
    /\ since = [p \in Agents |-> 0]
    /\ attempt = FALSE
    /\ waited = 0

\* register, agent-register: a Human has still to open its socket.
Register(p) ==
    /\ p \notin Members
    /\ sock[p] = "none" /\ p \notin stale
    /\ IF IsExpired THEN ExpireRoom
       ELSE /\ Save(With(IF Exists THEN room ELSE EmptyRecord, p), Seen(p))
            /\ UNCHANGED <<sockets, cleanup>>

\* A socket opens and takes over the nonce.
TakeOver(p) ==
    /\ sock' = [sock EXCEPT ![p] = "open"]
    /\ stale' = IF sock[p] = "none" THEN stale ELSE stale \cup {p}
    /\ UNCHANGED cleanup

\* The browser's WebSocket: the alarm stays as it is.
ConnectHuman(h) ==
    /\ h \in Humans \cap Members
    /\ ~IsExpired
    /\ room' = [room EXCEPT !.connected = @ \cup {h}]
    /\ age' = Seen(h)
    /\ TakeOver(h)
    /\ UNCHANGED <<alarm, since>>

\* handleAgentEventConnection: refused once the lease is over.
ConnectAgent(a) ==
    /\ a \in Agents \cap Members
    /\ ~IsExpired
    /\ age[a] < LEASE
    /\ Save([room EXCEPT !.connected = @ \cup {a}], Seen(a))
    /\ TakeOver(a)
    /\ since' = [since EXCEPT ![a] = 0]

Drop(p) ==
    /\ sock[p] = "open"
    /\ sock' = [sock EXCEPT ![p] = "dropped"]
    /\ UNCHANGED <<room, age, alarm, stale, since, cleanup>>

\* Mutant: the close does not count as the last sign of life.
CloseEventUnseen(p) ==
    /\ sock[p] = "dropped"
    /\ IF p \in Members
       THEN Save([room EXCEPT !.connected = @ \ {p}], age)
       ELSE UNCHANGED <<room, age, alarm>>
    /\ sock' = [sock EXCEPT ![p] = "none"]
    /\ UNCHANGED <<stale, since, cleanup>>

\* The close of the socket whose nonce is current.
CloseEvent(p) ==
    /\ sock[p] = "dropped"
    /\ IF p \in Members
       THEN Save([room EXCEPT !.connected = @ \ {p}], Seen(p))
       ELSE UNCHANGED <<room, age, alarm>>
    /\ sock' = [sock EXCEPT ![p] = "none"]
    /\ UNCHANGED <<stale, since, cleanup>>

\* Mutant: the nonce is not compared.
StaleCloseDisconnects(p) ==
    /\ p \in stale
    /\ stale' = stale \ {p}
    /\ IF p \in Members
       THEN Save([room EXCEPT !.connected = @ \ {p}], Seen(p))
       ELSE UNCHANGED <<room, age, alarm>>
    /\ UNCHANGED <<sock, since, cleanup>>

\* The close of an older socket, told by its nonce.
StaleClose(p) ==
    /\ p \in stale
    /\ stale' = stale \ {p}
    /\ UNCHANGED <<room, age, alarm, sock, since, cleanup>>

\* reconnect: a Human's new media session; the nonce is withdrawn.
Reconnect(h) ==
    /\ h \in Humans \cap Members
    /\ ~IsExpired
    /\ Save([room EXCEPT !.connected = @ \ {h}], Seen(h))
    /\ sock' = [sock EXCEPT ![h] = "none"]
    /\ stale' = IF sock[h] = "none" THEN stale ELSE stale \cup {h}
    /\ UNCHANGED <<since, cleanup>>

Heartbeat(a) ==
    /\ a \in Agents \cap Members
    /\ sock[a] = "open"
    /\ since[a] = HEARTBEAT
    /\ Save([room EXCEPT !.connected = @ \cup {a}], Seen(a))
    /\ since' = [since EXCEPT ![a] = 0]
    /\ UNCHANGED <<sock, stale, cleanup>>

\* Any other authenticated call of an Agent: text, media, collaboration.
AgentCall(a) ==
    /\ a \in Agents \cap Members
    /\ ~IsExpired
    /\ Save(room, Seen(a))
    /\ UNCHANGED <<sockets, cleanup>>

\* attemptCleanupNow is called after the save.
TryCleanup(rm) == attempt' = (attempt \/ rm.pending) /\ waited' = 0

\* agent-leave and a Human's leave: what has to be closed is tried at once,
\* except when a Human leaves by a control request.
Leave(p) ==
    /\ p \in Members
    /\ ~IsExpired
    /\ \E rm \in MayStage(Without(room, {p}), {p}) :
          /\ Save(rm, age)
          /\ \/ TryCleanup(rm)
             \/ p \in Humans /\ UNCHANGED cleanup
    /\ sock' = [sock EXCEPT ![p] = "none"]
    /\ UNCHANGED <<stale, since>>

\* The end of a media grant stages what it authorized and tries to close it.
EndGrant ==
    /\ Members # {}
    /\ ~IsExpired
    /\ LET rm == [room EXCEPT !.pending = TRUE]
       IN  Save(rm, age) /\ TryCleanup(rm)
    /\ UNCHANGED sockets

\* attemptCleanupNow after its calls: nothing, a part, or all is confirmed.
AttemptEnds ==
    /\ attempt
    /\ attempt' = FALSE
    /\ \/ UNCHANGED <<room, alarm, waited>>
       \/ /\ Exists
          /\ \E left \in {FALSE, room.pending} :
                /\ room' = [room EXCEPT !.pending = left]
                /\ waited' = IF left THEN waited ELSE 0
          /\ Schedule(room', age)
    /\ UNCHANGED <<age, sockets>>

\* A handler finds the room expired before the alarm does.
LateHandler ==
    /\ IsExpired
    /\ ExpireRoom

\* alarm
Alarm ==
    /\ Exists
    /\ alarm <= 0
    /\ IF IsExpired THEN ExpireRoom
       ELSE LET gone == Overdue(room, age)
            IN  /\ \E rm \in MayStage(IF gone = {} THEN room
                                      ELSE Without(room, gone), gone) :
                      Save(rm, age) /\ TryCleanup(rm)
                /\ sock' = [p \in Participants |->
                              IF p \in gone THEN "none" ELSE sock[p]]
                /\ UNCHANGED <<stale, since>>

-----------------------------------------------------------------------------
(* Time: the alarm and the runtime's ticker are punctual to the tick. *)

Later(t) == IF t = NO_EXPIRY THEN t ELSE t - 1

Tick ==
    /\ alarm > 0
    /\ \A a \in Agents \cap Members : sock[a] = "open" => since[a] < HEARTBEAT
    /\ room' = IF Exists THEN [room EXCEPT !.expires = Later(@)] ELSE room
    /\ alarm' = Later(alarm)
    /\ age' = [p \in Participants |->
                 IF age[p] < MaxAge THEN age[p] + 1 ELSE age[p]]
    /\ since' = [a \in Agents |->
                   IF since[a] < HEARTBEAT THEN since[a] + 1 ELSE since[a]]
    /\ waited' = IF Exists /\ room.pending /\ ~attempt /\ waited < MaxAge
                 THEN waited + 1 ELSE waited
    /\ UNCHANGED <<sock, stale, attempt>>

Next ==
    \/ \E p \in Participants :
          Register(p) \/ Drop(p) \/ CloseEvent(p) \/ StaleClose(p) \/ Leave(p)
    \/ \E h \in Humans : ConnectHuman(h) \/ Reconnect(h)
    \/ \E a \in Agents : ConnectAgent(a) \/ Heartbeat(a) \/ AgentCall(a)
    \/ EndGrant \/ AttemptEnds \/ LateHandler \/ Alarm \/ Tick

Spec == Init /\ [][Next]_vars

\* Time passes, the alarm runs at least once, a dead socket is noticed, and a
\* runtime's ticker ticks.  Nobody has to come back.
Fairness ==
    /\ WF_vars(Tick) /\ WF_vars(Alarm)
    /\ \A p \in Participants : WF_vars(CloseEvent(p))
    /\ \A a \in Agents : WF_vars(Heartbeat(a))

FairSpec == Spec /\ Fairness

-----------------------------------------------------------------------------
(* Properties *)

\* Types of the record, the clocks and the sockets.  The alarm is never set in
\* the past: whoever becomes subject to a deadline has just been seen.
TypeOK ==
    /\ room \in RoomRecords \cup {NoRoom}
    /\ age \in [Participants -> 0..MaxAge]
    /\ alarm \in Nat
    /\ sock \in [Participants -> {"none", "open", "dropped"}]
    /\ stale \subseteq Participants
    /\ since \in [Agents -> 0..HEARTBEAT]
    /\ attempt \in BOOLEAN
    /\ waited \in 0..MaxAge

\* No deadline is missed although one alarm serves them all and every handler
\* overwrites it: no lease, no grace and no expiry is ever past its tick.
NothingOverdue ==
    Exists =>
        /\ room.expires >= 0
        /\ \A a \in room.members \cap Agents : age[a] <= LEASE
        /\ \A h \in (room.members \cap Humans) \ room.connected : age[h] <= GRACE

\* A room with somebody in it has no expiry (roomExpiry.ts).
OccupiedNeverExpires ==
    (Exists /\ room.members # {}) => room.expires = NO_EXPIRY

\* Who holds an open socket is in the room until it leaves: neither the close
\* of an older socket nor a lease that heartbeats renew removes it.
OpenSocketStays ==
    [][\A p \in Participants :
          (p \in Members /\ sock[p] = "open" /\ p \notin Members') => Leave(p)]_vars

\* An abandoned room ends, and a Human without a socket gives a new sign of life
\* or is removed.
EmptyRoomEnds == (Exists /\ Members = {}) ~> (~Exists \/ Members # {})
AbsentHumanGoes ==
    \A h \in Humans :
        (h \in Members /\ sock[h] = "none" /\ age[h] > 0) ~>
            (h \notin Members \/ sock[h] # "none" \/ age[h] = 0)
AbsenceEnds == EmptyRoomEnds /\ AbsentHumanGoes

\* A failed media close is retried sooner than a lease would run out.
RetryBeforeLease == waited < LEASE
=============================================================================
