-------------------------- MODULE RoomAlarmProofs --------------------------
(***************************************************************************)
(* One alarm is enough: for all durations and any number of participants   *)
(* no deadline of the room is missed, and an occupied room never expires.  *)
(*                                                                         *)
(* NothingOverdue is not inductive.  The strengthening is that the alarm   *)
(* stands no later than the earliest deadline (AlarmCovers), whichever     *)
(* handler set it last; it is what a handler that saves without scheduling *)
(* would break.                                                            *)
(***************************************************************************)
EXTENDS RoomAlarm, TLAPS

Ages == [Participants -> 0..MaxAge]

\* A record that may be saved with the given ages.
Sound(rm, seen) ==
    /\ rm \in RoomRecords
    /\ seen \in Ages
    /\ rm.members # {} => rm.expires = NO_EXPIRY
    /\ rm.expires >= 0
    /\ \A a \in rm.members \cap Agents : seen[a] <= LEASE
    /\ \A h \in (rm.members \cap Humans) \ rm.connected : seen[h] <= GRACE

AlarmCovers == Exists => \A t \in Deadlines(room, age) : alarm <= t

IInv ==
    /\ TypeOK
    /\ Exists => Sound(room, age)
    /\ AlarmCovers

\* What the handlers do to the sockets and the attempts.
SideTypes ==
    /\ sock \in [Participants -> {"none", "open", "dropped"}]
    /\ stale \subseteq Participants
    /\ since \in [Agents -> 0..HEARTBEAT]
    /\ attempt \in BOOLEAN
    /\ waited \in 0..MaxAge

\* No deadline of a sound record has passed.
LEMMA DeadlinesAreAhead ==
    ASSUME NEW rm, NEW seen, Sound(rm, seen)
    PROVE  Deadlines(rm, seen) \subseteq Nat
<1>1. \A p \in Participants : seen[p] \in Nat
  BY DurationsArePositive DEF Sound, Ages
<1>2. rm.expires \in Nat /\ {LEASE, GRACE, RETRY} \subseteq Nat
  BY DurationsArePositive DEF Sound, RoomRecords
<1>3. \A a \in rm.members \cap Agents : LEASE - seen[a] \in Nat
  BY <1>1, <1>2 DEF Sound, Participants
<1>4. \A h \in (rm.members \cap Humans) \ rm.connected : GRACE - seen[h] \in Nat
  BY <1>1, <1>2 DEF Sound, Participants
<1>5. QED
  BY <1>2, <1>3, <1>4 DEF Deadlines

\* Saving a sound record restores the invariant.
LEMMA SaveKeeps ==
    ASSUME NEW rm, NEW seen, Sound(rm, seen), Save(rm, seen), SideTypes'
    PROVE  IInv'
<1>1. room' = rm /\ age' = seen
  BY DEF Save
<1>2. alarm' \in Nat /\ \A t \in Deadlines(rm, seen) : alarm' <= t
  BY DeadlinesAreAhead DEF Save, Schedule
<1>3. TypeOK'
  BY <1>1, <1>2 DEF TypeOK, SideTypes, Sound, Ages
<1>4. AlarmCovers'
  BY <1>1, <1>2 DEF AlarmCovers
<1>5. Sound(room, age)'
  BY <1>1 DEF Sound
<1>6. QED
  BY <1>3, <1>4, <1>5 DEF IInv

\* A record whose members shrink and whose expiry is recomputed stays sound.
LEMMA WithoutSound ==
    ASSUME NEW rm, NEW seen, NEW D, Sound(rm, seen)
    PROVE  Sound(Without(rm, D), seen)
<1> DEFINE new == Without(rm, D)
<1>1. /\ new.members = rm.members \ D
      /\ new.connected = rm.connected \ D
      /\ new.pending = rm.pending
      /\ new.expires = ExpiresAt(rm.members \ D, rm.expires)
  BY DEF Without, Sound, RoomRecords
<1>2. new.expires \in Int /\ new.expires >= 0
  BY <1>1, DurationsArePositive DEF ExpiresAt, Sound, RoomRecords
<1>3. new.members # {} => new.expires = NO_EXPIRY
  BY <1>1 DEF ExpiresAt
<1>4. new \in RoomRecords
  BY <1>2 DEF Without, Sound, RoomRecords
<1> HIDE DEF new
<1>5. Sound(new, seen)
  BY <1>1, <1>2, <1>3, <1>4 DEF Sound
<1>6. QED
  BY <1>5 DEF new

\* Staging media for closing changes nothing else.
LEMMA StageSound ==
    ASSUME NEW rm, NEW seen, NEW D, Sound(rm, seen), NEW new \in MayStage(rm, D)
    PROVE  Sound(new, seen)
<1>1. PICK b \in BOOLEAN : new = [rm EXCEPT !.pending = b]
  BY DEF MayStage, Sound, RoomRecords
<1>2. /\ new.members = rm.members /\ new.connected = rm.connected
      /\ new.expires = rm.expires /\ new \in RoomRecords
  BY <1>1 DEF Sound, RoomRecords
<1>3. QED
  BY <1>2 DEF Sound

\* A sign of life of one participant.
LEMMA SeenSound ==
    ASSUME NEW rm, Sound(rm, age), NEW p \in Participants, NEW C \in SUBSET Participants,
           C = rm.connected \cup {p} \/ C = rm.connected \ {p} \/ C = rm.connected
    PROVE  Sound([rm EXCEPT !.connected = C], Seen(p))
<1> DEFINE new == [rm EXCEPT !.connected = C]
<1>1. /\ new.members = rm.members /\ new.connected = C
      /\ new.expires = rm.expires /\ new \in RoomRecords
  BY DEF Sound, RoomRecords
<1>2. /\ Seen(p) \in Ages /\ Seen(p)[p] = 0
      /\ \A q \in Participants : q # p => Seen(p)[q] = age[q]
  BY DurationsArePositive DEF Seen, Ages, Sound
<1> HIDE DEF new
<1>3. \A a \in new.members \cap Agents : Seen(p)[a] <= LEASE
  BY <1>1, <1>2, DurationsArePositive DEF Sound, Participants
<1>4. \A h \in (new.members \cap Humans) \ new.connected : Seen(p)[h] <= GRACE
  BY <1>1, <1>2, DurationsArePositive DEF Sound, Participants
<1>5. Sound(new, Seen(p))
  BY <1>1, <1>2, <1>3, <1>4 DEF Sound
<1>6. QED
  BY <1>5 DEF new

-----------------------------------------------------------------------------
(* One lemma per kind of step *)

\* The deletion of an expired room.
LEMMA ExpireKeeps == ASSUME IInv, ExpireRoom PROVE IInv'
<1>1. room' = NoRoom /\ alarm' \in Nat /\ waited' \in 0..MaxAge
  BY DurationsArePositive DEF ExpireRoom
<1>2. sock' \in [Participants -> {"none", "open", "dropped"}] /\ stale' \subseteq Participants
  BY DEF ExpireRoom
<1>3. attempt' \in BOOLEAN
  BY DEF IInv, TypeOK, ExpireRoom
<1>4. age' \in [Participants -> 0..MaxAge] /\ since' \in [Agents -> 0..HEARTBEAT]
  BY DEF IInv, TypeOK, ExpireRoom
<1>5. TypeOK'
  BY <1>1, <1>2, <1>3, <1>4 DEF TypeOK
<1>6. ~Exists'
  BY DEF ExpireRoom, Exists
<1>7. QED
  BY <1>5, <1>6 DEF IInv, AlarmCovers

\* The record after a registration.
LEMMA WithFields ==
    ASSUME NEW rm \in RoomRecords, NEW p \in Participants
    PROVE  /\ With(rm, p).members = rm.members \cup {p}
           /\ With(rm, p).connected =
                 IF p \in Agents THEN rm.connected \cup {p} ELSE rm.connected
           /\ With(rm, p).expires = NO_EXPIRY
           /\ With(rm, p) \in RoomRecords
<1> DEFINE m == rm.members \cup {p}
<1> DEFINE c == IF p \in Agents THEN rm.connected \cup {p} ELSE rm.connected
<1>1. m # {} /\ m \subseteq Participants /\ c \subseteq Participants
  BY DEF RoomRecords
<1>2. ExpiresAt(m, rm.expires) = NO_EXPIRY /\ NO_EXPIRY \in Int
  BY <1>1, DurationsArePositive DEF ExpiresAt
<1> HIDE DEF m, c
<1>3. With(rm, p) = [rm EXCEPT !.members = m, !.connected = c, !.expires = NO_EXPIRY]
  BY <1>2 DEF With, m, c, RoomRecords
<1> DEFINE new == With(rm, p)
<1> HIDE DEF new
<1>4. new.members = m /\ new.connected = c /\ new.expires = NO_EXPIRY
  BY <1>3 DEF RoomRecords, new
<1>5. new \in RoomRecords
  BY <1>1, <1>2, <1>3 DEF RoomRecords, new
<1>6. QED
  BY <1>4, <1>5 DEF m, c, new

LEMMA RegisterKeeps == ASSUME IInv, NEW p \in Participants, Register(p) PROVE IInv'
<1>1. CASE IsExpired
  BY <1>1, ExpireKeeps DEF Register
<1>2. CASE ~IsExpired
  <2> DEFINE rm == IF Exists THEN room ELSE EmptyRecord
  <2>1. Save(With(rm, p), Seen(p)) /\ UNCHANGED <<sockets, cleanup>>
    BY <1>2 DEF Register
  <2>2. rm \in RoomRecords
    BY DurationsArePositive DEF IInv, Sound, EmptyRecord, RoomRecords
  <2>3. age \in Ages
    BY DEF IInv, TypeOK, Ages
  <2>4. \A a \in rm.members \cap Agents : age[a] <= LEASE
    BY DEF IInv, Sound, EmptyRecord
  <2>5. \A h \in (rm.members \cap Humans) \ rm.connected : age[h] <= GRACE
    BY DEF IInv, Sound, EmptyRecord
  <2> HIDE DEF rm
  <2> DEFINE new == With(rm, p)
  <2>6. /\ new.members = rm.members \cup {p}
        /\ new.connected = IF p \in Agents THEN rm.connected \cup {p} ELSE rm.connected
        /\ new.expires = NO_EXPIRY
        /\ new \in RoomRecords
    BY <2>2, WithFields
  <2>7. /\ Seen(p) \in Ages /\ Seen(p)[p] = 0
        /\ \A q \in Participants : q # p => Seen(p)[q] = age[q]
    BY <2>3, DurationsArePositive DEF Seen, Ages
  <2> HIDE DEF new
  <2>8. \A a \in new.members \cap Agents : Seen(p)[a] <= LEASE
    BY <2>4, <2>6, <2>7, DurationsArePositive DEF Participants
  <2>9. \A h \in (new.members \cap Humans) \ new.connected : Seen(p)[h] <= GRACE
    <3> SUFFICES ASSUME NEW h \in (new.members \cap Humans) \ new.connected
                 PROVE  Seen(p)[h] <= GRACE
      OBVIOUS
    <3>1. CASE h = p
      BY <3>1, <2>7, DurationsArePositive
    <3>2. CASE h # p
      BY <3>2, <2>5, <2>6, <2>7 DEF Participants
    <3>3. QED
      BY <3>1, <3>2
  <2>10. Sound(new, Seen(p))
    BY <2>6, <2>7, <2>8, <2>9, DurationsArePositive DEF Sound
  <2>11. SideTypes'
    BY <2>1 DEF SideTypes, IInv, TypeOK, sockets, cleanup
  <2>12. QED
    BY <2>1, <2>10, <2>11, SaveKeeps DEF new
<1>3. QED
  BY <1>1, <1>2

\* A Human's socket opens: one deadline fewer, and the alarm may stay.
LEMMA ConnectHumanKeeps == ASSUME IInv, NEW h \in Humans, ConnectHuman(h) PROVE IInv'
<1> DEFINE new == [room EXCEPT !.connected = @ \cup {h}]
<1>1. Exists /\ h \in room.members /\ room' = new /\ age' = Seen(h) /\ alarm' = alarm
  BY DEF ConnectHuman, Members
<1>2. Sound(room, age) /\ room \in RoomRecords /\ h \in Participants
  BY <1>1 DEF IInv, Sound, Participants
<1>3. new = [room EXCEPT !.connected = room.connected \cup {h}]
  OBVIOUS
<1>4. room.connected \cup {h} \in SUBSET Participants
  BY <1>2 DEF RoomRecords
<1>5. Sound(new, Seen(h))
  BY <1>2, <1>3, <1>4, SeenSound
<1>6. Sound(room, age)'
  BY <1>1, <1>5 DEF Sound
<1>7. /\ new.members = room.members /\ new.connected = room.connected \cup {h}
      /\ new.expires = room.expires /\ new.pending = room.pending
  BY <1>2 DEF RoomRecords
<1>8. \A q \in Participants \ {h} : Seen(h)[q] = age[q]
  BY DEF Seen, IInv, TypeOK
<1> HIDE DEF new
<1>9. Deadlines(new, Seen(h)) \subseteq Deadlines(room, age)
  BY <1>7, <1>8, KindsAreDisjoint DEF Deadlines, Participants
<1>10. AlarmCovers'
  BY <1>1, <1>9 DEF AlarmCovers, IInv, Exists
<1>11. TypeOK'
  BY <1>1, <1>2, <1>5 DEF TypeOK, IInv, Sound, Ages, ConnectHuman, TakeOver, cleanup
<1>12. QED
  BY <1>6, <1>10, <1>11 DEF IInv

\* The handlers that note a sign of life and schedule.
LEMMA SignOfLifeKeeps ==
    ASSUME IInv, NEW p \in Participants, p \in Members, SideTypes',
           NEW C \in SUBSET Participants,
           \/ C = room.connected \cup {p}
           \/ C = room.connected \ {p}
           \/ C = room.connected,
           Save([room EXCEPT !.connected = C], Seen(p))
    PROVE  IInv'
<1>1. Sound(room, age)
  BY DEF IInv, Members
<1>2. Sound([room EXCEPT !.connected = C], Seen(p))
  BY <1>1, SeenSound
<1>3. QED
  BY <1>2, SaveKeeps

LEMMA MemberFacts ==
    ASSUME IInv, NEW p \in Members
    PROVE  /\ Exists /\ p \in Participants /\ room \in RoomRecords
           /\ room.connected \cup {p} \in SUBSET Participants
           /\ room.connected \ {p} \in SUBSET Participants
BY DEF IInv, Members, Sound, RoomRecords

LEMMA PresenceKeeps ==
    ASSUME IInv, NEW p \in Participants,
           \/ p \in Agents /\ (ConnectAgent(p) \/ Heartbeat(p) \/ AgentCall(p))
           \/ p \in Humans /\ Reconnect(p)
           \/ CloseEvent(p) /\ p \in Members
    PROVE  IInv'
<1>1. p \in Members
  BY DEF ConnectAgent, Heartbeat, AgentCall, Reconnect
<1>2. SideTypes'
  BY DurationsArePositive DEF IInv, TypeOK, SideTypes, ConnectAgent, TakeOver, Heartbeat,
        AgentCall, Reconnect, CloseEvent, sockets, cleanup
<1>3. room \in RoomRecords
  BY <1>1, MemberFacts
<1>4. CASE p \in Agents /\ (ConnectAgent(p) \/ Heartbeat(p))
  <2>1. Save([room EXCEPT !.connected = room.connected \cup {p}], Seen(p))
    BY <1>4 DEF ConnectAgent, Heartbeat
  <2>2. QED
    BY <2>1, <1>1, <1>2, MemberFacts, SignOfLifeKeeps
<1>5. CASE p \in Agents /\ AgentCall(p)
  <2>1. room = [room EXCEPT !.connected = room.connected]
    BY <1>3 DEF RoomRecords
  <2>2. Save([room EXCEPT !.connected = room.connected], Seen(p))
    BY <1>5, <2>1 DEF AgentCall
  <2>3. room.connected \in SUBSET Participants
    BY <1>3 DEF RoomRecords
  <2>4. QED
    BY <2>2, <2>3, <1>1, <1>2, SignOfLifeKeeps
<1>6. CASE (p \in Humans /\ Reconnect(p)) \/ (CloseEvent(p) /\ p \in Members)
  <2>1. Save([room EXCEPT !.connected = room.connected \ {p}], Seen(p))
    BY <1>6 DEF Reconnect, CloseEvent
  <2>2. QED
    BY <2>1, <1>1, <1>2, MemberFacts, SignOfLifeKeeps
<1>7. QED
  BY <1>4, <1>5, <1>6

\* Steps that touch neither the record nor the clocks.
LEMMA QuietKeeps ==
    ASSUME IInv, UNCHANGED <<room, age, alarm>>, SideTypes'
    PROVE  IInv'
<1>1. TypeOK'
  BY DEF IInv, TypeOK, SideTypes
<1>2. (Exists => Sound(room, age))'
  BY DEF IInv, Exists, Sound
<1>3. AlarmCovers'
  BY DEF IInv, AlarmCovers, Exists, Deadlines
<1>4. QED
  BY <1>1, <1>2, <1>3 DEF IInv

LEMMA SocketKeeps ==
    ASSUME IInv, NEW p \in Participants,
           Drop(p) \/ StaleClose(p) \/ (CloseEvent(p) /\ p \notin Members)
    PROVE  IInv'
<1>1. UNCHANGED <<room, age, alarm>>
  BY DEF Drop, StaleClose, CloseEvent
<1>2. SideTypes'
  BY DEF IInv, TypeOK, SideTypes, Drop, StaleClose, CloseEvent, cleanup
<1>3. QED
  BY <1>1, <1>2, QuietKeeps

\* What an attempt does to its bookkeeping.
LEMMA CleanupTypes ==
    ASSUME IInv, NEW rm \in RoomRecords, TryCleanup(rm) \/ UNCHANGED cleanup
    PROVE  attempt' \in BOOLEAN /\ waited' \in 0..MaxAge
<1>1. 0 \in 0..MaxAge
  BY DurationsArePositive
<1>2. rm.pending \in BOOLEAN
  BY DEF RoomRecords
<1>3. QED
  BY <1>1, <1>2 DEF IInv, TypeOK, TryCleanup, cleanup

LEMMA LeaveKeeps == ASSUME IInv, NEW p \in Participants, Leave(p) PROVE IInv'
<1>1. Sound(Without(room, {p}), age)
  BY WithoutSound DEF IInv, Leave, Members
<1>2. PICK rm \in MayStage(Without(room, {p}), {p}) :
          Save(rm, age) /\ (TryCleanup(rm) \/ UNCHANGED cleanup)
  BY DEF Leave
<1>3. Sound(rm, age)
  BY <1>1, StageSound
<1>4. SideTypes'
  BY <1>2, <1>3, CleanupTypes DEF IInv, TypeOK, SideTypes, Leave, Sound
<1>5. QED
  BY <1>2, <1>3, <1>4, SaveKeeps

LEMMA EndGrantKeeps == ASSUME IInv, EndGrant PROVE IInv'
<1> DEFINE new == [room EXCEPT !.pending = TRUE]
<1>1. Sound(room, age)
  BY DEF IInv, EndGrant, Members
<1>2. /\ new.members = room.members /\ new.connected = room.connected
      /\ new.expires = room.expires /\ new \in RoomRecords
  BY <1>1 DEF Sound, RoomRecords
<1>3. Sound(new, age)
  BY <1>1, <1>2 DEF Sound
<1>4. Save(new, age) /\ TryCleanup(new) /\ UNCHANGED sockets
  BY DEF EndGrant
<1>5. SideTypes'
  BY <1>2, <1>4, CleanupTypes DEF IInv, TypeOK, SideTypes, sockets
<1>6. QED
  BY <1>3, <1>4, <1>5, SaveKeeps

LEMMA AttemptKeeps == ASSUME IInv, AttemptEnds PROVE IInv'
<1>1. CASE UNCHANGED <<room, alarm, waited>>
  <2>1. SideTypes' /\ UNCHANGED age
    BY <1>1 DEF IInv, TypeOK, SideTypes, AttemptEnds, sockets
  <2>2. QED
    BY <1>1, <2>1, QuietKeeps
<1>2. CASE ~UNCHANGED <<room, alarm, waited>>
  <2>1. Exists /\ Schedule(room', age) /\ UNCHANGED <<age, sockets>>
    BY <1>2 DEF AttemptEnds
  <2>2. PICK left \in {FALSE, room.pending} :
            /\ room' = [room EXCEPT !.pending = left]
            /\ waited' = IF left THEN waited ELSE 0
    BY <1>2 DEF AttemptEnds
  <2> DEFINE new == [room EXCEPT !.pending = left]
  <2>3. Sound(room, age)
    BY <2>1 DEF IInv
  <2>4. /\ new.members = room.members /\ new.connected = room.connected
        /\ new.expires = room.expires /\ new \in RoomRecords
    BY <2>3 DEF Sound, RoomRecords
  <2>5. Sound(new, age)
    BY <2>3, <2>4 DEF Sound
  <2>6. SideTypes'
    <3>1. waited' \in 0..MaxAge
      BY <2>2, DurationsArePositive DEF IInv, TypeOK
    <3>2. attempt' \in BOOLEAN
      BY DEF AttemptEnds
    <3>3. QED
      BY <2>1, <3>1, <3>2 DEF IInv, TypeOK, SideTypes, sockets
  <2>7. Save(new, age)
    BY <2>1, <2>2 DEF Save
  <2>8. QED
    BY <2>5, <2>6, <2>7, SaveKeeps
<1>3. QED
  BY <1>1, <1>2

LEMMA AlarmKeeps == ASSUME IInv, Alarm PROVE IInv'
<1>1. CASE IsExpired
  BY <1>1, ExpireKeeps DEF Alarm
<1>2. CASE ~IsExpired
  <2> DEFINE gone == Overdue(room, age)
  <2> DEFINE base == IF gone = {} THEN room ELSE Without(room, gone)
  <2>1. PICK rm \in MayStage(base, gone) :
            Save(rm, age) /\ TryCleanup(rm)
    BY <1>2 DEF Alarm
  <2>2. Sound(room, age)
    BY DEF IInv, Alarm
  <2>3. Sound(base, age)
    BY <2>2, WithoutSound
  <2>4. Sound(rm, age)
    BY <2>1, <2>3, StageSound
  <2>5. SideTypes'
    BY <1>2, <2>1, <2>4, CleanupTypes
    DEF IInv, TypeOK, SideTypes, Alarm, Sound
  <2>6. QED
    BY <2>1, <2>4, <2>5, SaveKeeps
<1>3. QED
  BY <1>1, <1>2

\* Time: the alarm is not due, so no deadline is, and all come a tick nearer.
LEMMA TickKeeps == ASSUME IInv, Tick PROVE IInv'
<1>1. /\ alarm \in Nat /\ alarm > 0 /\ alarm' = Later(alarm)
      /\ age' = [p \in Participants |-> IF age[p] < MaxAge THEN age[p] + 1 ELSE age[p]]
  BY DEF Tick, IInv, TypeOK
<1>2. \A p \in Participants : age[p] \in 0..MaxAge /\ age'[p] <= age[p] + 1 /\ age'[p] \in 0..MaxAge
  BY <1>1, DurationsArePositive DEF IInv, TypeOK
<1>3. SideTypes'
  BY DurationsArePositive DEF IInv, TypeOK, SideTypes, Tick
<1>4. age' \in Ages /\ alarm' \in Nat
  BY <1>1, <1>2, DurationsArePositive DEF Ages, Later
<1>5. CASE ~Exists
  <2>1. room' = room
    BY <1>5 DEF Tick
  <2>2. TypeOK'
    BY <2>1, <1>3, <1>4 DEF IInv, TypeOK, SideTypes, Ages
  <2>3. QED
    BY <1>5, <2>1, <2>2 DEF IInv, AlarmCovers, Exists
<1>6. CASE Exists
  <2> DEFINE new == [room EXCEPT !.expires = Later(@)]
  <2>1. Sound(room, age) /\ room \in RoomRecords
    BY <1>6 DEF IInv, Sound
  <2>2. \A t \in Deadlines(room, age) : alarm <= t
    BY <1>6 DEF IInv, AlarmCovers
  <2>3. room' = new
    BY <1>6 DEF Tick
  <2>4. alarm <= room.expires
    BY <2>2 DEF Deadlines
  <2>5. \A a \in room.members \cap Agents : alarm <= LEASE - age[a]
    BY <2>2 DEF Deadlines
  <2>6. \A h \in (room.members \cap Humans) \ room.connected : alarm <= GRACE - age[h]
    BY <2>2 DEF Deadlines
  <2>7. room.pending => alarm <= RETRY
    BY <2>2 DEF Deadlines
  <2>8. /\ new.members = room.members /\ new.connected = room.connected
        /\ new.pending = room.pending /\ new.expires = Later(room.expires)
    BY <2>1 DEF RoomRecords
  <2>9. new.expires \in Int /\ new.expires >= 0 /\ alarm' <= new.expires
    BY <1>1, <2>1, <2>4, <2>8, DurationsArePositive DEF Later, RoomRecords
  <2>10. new \in RoomRecords
    BY <2>1, <2>9 DEF RoomRecords
  <2> HIDE DEF new
  <2>11. new.members # {} => new.expires = NO_EXPIRY
    BY <2>1, <2>8 DEF Sound, Later
  <2>12. \A a \in new.members \cap Agents : age'[a] <= LEASE /\ alarm' <= LEASE - age'[a]
    <3> SUFFICES ASSUME NEW a \in new.members \cap Agents
                 PROVE  age'[a] <= LEASE /\ alarm' <= LEASE - age'[a]
      OBVIOUS
    <3>1. /\ age[a] \in Int /\ age'[a] \in Int /\ age[a] >= 0 /\ age'[a] <= age[a] + 1
      BY <1>2 DEF Participants
    <3>2. alarm <= LEASE - age[a]
      BY <2>5, <2>8
    <3>3. QED
      BY <3>1, <3>2, <1>1, DurationsArePositive DEF Later
  <2>13. \A h \in (new.members \cap Humans) \ new.connected :
            age'[h] <= GRACE /\ alarm' <= GRACE - age'[h]
    <3> SUFFICES ASSUME NEW h \in (new.members \cap Humans) \ new.connected
                 PROVE  age'[h] <= GRACE /\ alarm' <= GRACE - age'[h]
      OBVIOUS
    <3>1. /\ age[h] \in Int /\ age'[h] \in Int /\ age[h] >= 0 /\ age'[h] <= age[h] + 1
      BY <1>2 DEF Participants
    <3>2. alarm <= GRACE - age[h]
      BY <2>6, <2>8
    <3>3. QED
      BY <3>1, <3>2, <1>1, DurationsArePositive DEF Later
  <2>14. new.pending => alarm' <= RETRY
    BY <1>1, <2>7, <2>8, DurationsArePositive DEF Later
  <2>15. Sound(room, age)'
    BY <1>4, <2>3, <2>9, <2>10, <2>11, <2>12, <2>13 DEF Sound
  <2>16. AlarmCovers'
    BY <2>3, <2>9, <2>12, <2>13, <2>14 DEF AlarmCovers, Deadlines
  <2>17. TypeOK'
    BY <1>3, <1>4, <2>3, <2>10 DEF TypeOK, SideTypes, Ages
  <2>18. QED
    BY <2>15, <2>16, <2>17 DEF IInv
<1>7. QED
  BY <1>5, <1>6

-----------------------------------------------------------------------------
(* The invariant holds *)

LEMMA InitKeeps == ASSUME Init PROVE IInv
<1>1. TypeOK
  <2>1. 0 \in 0..MaxAge /\ 0 \in 0..HEARTBEAT /\ NO_EXPIRY \in Nat
    BY DurationsArePositive
  <2>2. QED
    BY <2>1 DEF Init, TypeOK
<1>2. ~Exists
  BY DEF Init, Exists
<1>3. QED
  BY <1>1, <1>2 DEF IInv, AlarmCovers

LEMMA NextKeeps == ASSUME IInv, [Next]_vars PROVE IInv'
<1>1. CASE UNCHANGED vars
  <2>1. SideTypes' /\ UNCHANGED <<room, age, alarm>>
    BY <1>1 DEF vars, sockets, cleanup, IInv, TypeOK, SideTypes
  <2>2. QED
    BY <2>1, QuietKeeps
<1>2. ASSUME NEW p \in Participants, Register(p) PROVE IInv'
  BY <1>2, RegisterKeeps
<1>3. ASSUME NEW p \in Participants, Drop(p) \/ StaleClose(p) PROVE IInv'
  BY <1>3, SocketKeeps
<1>4. ASSUME NEW p \in Participants, CloseEvent(p) PROVE IInv'
  BY <1>4, SocketKeeps, PresenceKeeps
<1>5. ASSUME NEW p \in Participants, Leave(p) PROVE IInv'
  BY <1>5, LeaveKeeps
<1>6. ASSUME NEW h \in Humans, ConnectHuman(h) PROVE IInv'
  BY <1>6, ConnectHumanKeeps
<1>7. ASSUME NEW h \in Humans, Reconnect(h) PROVE IInv'
  BY <1>7, PresenceKeeps DEF Participants
<1>8. ASSUME NEW a \in Agents, ConnectAgent(a) \/ Heartbeat(a) \/ AgentCall(a) PROVE IInv'
  BY <1>8, PresenceKeeps DEF Participants
<1>9. CASE EndGrant
  BY <1>9, EndGrantKeeps
<1>10. CASE AttemptEnds
  BY <1>10, AttemptKeeps
<1>11. CASE LateHandler
  BY <1>11, ExpireKeeps DEF LateHandler
<1>12. CASE Alarm
  BY <1>12, AlarmKeeps
<1>13. CASE Tick
  BY <1>13, TickKeeps
<1>14. QED
  BY <1>1, <1>2, <1>3, <1>4, <1>5, <1>6, <1>7, <1>8, <1>9, <1>10, <1>11, <1>12, <1>13
  DEF Next

LEMMA Invariant == Spec => []IInv
<1>1. Init => IInv
  BY InitKeeps
<1>2. IInv /\ [Next]_vars => IInv'
  BY NextKeeps
<1>3. QED
  BY <1>1, <1>2, PTL DEF Spec

\* The room record, the marks, the sockets and the alarm keep their types.
THEOREM TypeCorrect == Spec => []TypeOK
<1>1. IInv => TypeOK
  BY DEF IInv
<1>2. QED
  BY <1>1, Invariant, PTL

\* No lease, no grace and no expiry is past its tick, for all durations: one
\* alarm that every handler overwrites misses nothing.
THEOREM NoDeadlineMissed == Spec => []NothingOverdue
<1>1. IInv => NothingOverdue
  BY DEF IInv, Sound, NothingOverdue
<1>2. QED
  BY <1>1, Invariant, PTL

\* A room with somebody in it never has an expiry.
THEOREM OccupiedRoomStays == Spec => []OccupiedNeverExpires
<1>1. IInv => OccupiedNeverExpires
  BY DEF IInv, Sound, OccupiedNeverExpires
<1>2. QED
  BY <1>1, Invariant, PTL

-----------------------------------------------------------------------------
(* Who holds an open socket *)

\* A Human with an open socket is connected; an Agent's last sign of life is no
\* older than its runtime's last heartbeat.
SocketIsAlive ==
    \A p \in Members :
        sock[p] = "open" => /\ p \in Humans => p \in room.connected
                            /\ p \in Agents => age[p] <= since[p]

\* The participants other than p that stay are as they were, or newly seen.
OthersKept(p) ==
    \A q \in Members' \ {p} :
        /\ q \in Members
        /\ sock'[q] = sock[q]
        /\ q \in room.connected => q \in room'.connected
        /\ age'[q] = age[q]
        /\ q \in Agents => since'[q] = since[q]

\* Nobody but p leaves with an open socket.
OthersStay(p) == \A q \in Members \ {p} : sock[q] = "open" => q \in Members'

Kept ==
    /\ SocketIsAlive'
    /\ \A p \in Members : (sock[p] = "open" /\ p \notin Members') => Leave(p)

LEMMA MembersTyped ==
    ASSUME IInv
    PROVE  /\ Members \subseteq Participants
           /\ Exists => room \in RoomRecords
           /\ Exists => Members = room.members
BY DEF IInv, Members, Sound, RoomRecords

\* An occupied room is not expired.
LEMMA OccupiedIsNotExpired == ASSUME IInv, IsExpired PROVE Members = {}
BY DurationsArePositive DEF IInv, Sound, IsExpired, Members

LEMMA ExpiryEmpties == ASSUME IInv, IsExpired, ExpireRoom PROVE Kept
<1>1. Members = {} /\ Members' = {}
  BY OccupiedIsNotExpired DEF ExpireRoom, Members, Exists
<1>2. QED
  BY <1>1 DEF Kept, SocketIsAlive

\* A step of one participant that leaves the others as they are.
LEMMA StepOfOne ==
    ASSUME IInv, SocketIsAlive, NEW p \in Participants,
           OthersKept(p), OthersStay(p),
           p \in Members' /\ sock'[p] = "open" =>
               /\ p \in Humans => p \in room'.connected
               /\ p \in Agents => age'[p] <= since'[p],
           p \in Members /\ sock[p] = "open" /\ p \notin Members' => Leave(p)
    PROVE  Kept
<1>1. SocketIsAlive'
  <2> SUFFICES ASSUME NEW q \in Members', sock'[q] = "open"
               PROVE  /\ q \in Humans => q \in room'.connected
                      /\ q \in Agents => age'[q] <= since'[q]
    BY DEF SocketIsAlive
  <2>1. CASE q = p
    BY <2>1
  <2>2. CASE q # p
    BY <2>2 DEF SocketIsAlive, OthersKept
  <2>3. QED
    BY <2>1, <2>2
<1>2. QED
  BY <1>1 DEF Kept, OthersStay

LEMMA SeenAges ==
    ASSUME IInv, NEW p \in Participants
    PROVE  /\ Seen(p)[p] = 0
           /\ \A q \in Participants \ {p} : Seen(p)[q] = age[q]
BY DEF IInv, TypeOK, Seen


LEMMA SavedMembers ==
    ASSUME NEW rm \in RoomRecords, room' = rm
    PROVE  Members' = rm.members
BY NoRoomIsNoRecord DEF Members, Exists

\* Only the connection of one member changes.
LEMMA ConnectionFields ==
    ASSUME IInv, Exists, NEW C \in SUBSET Participants,
           room' = [room EXCEPT !.connected = C]
    PROVE  Members' = Members /\ room'.connected = C
<1> DEFINE new == [room EXCEPT !.connected = C]
<1>1. new \in RoomRecords /\ new.members = room.members /\ new.connected = C
  BY MembersTyped DEF RoomRecords
<1>2. room' = new
  OBVIOUS
<1> HIDE DEF new
<1>3. Members' = new.members
  BY <1>1, <1>2, SavedMembers
<1>4. QED
  BY <1>1, <1>2, <1>3, MembersTyped

LEMMA RegisterKept ==
    ASSUME IInv, SocketIsAlive, NEW p \in Participants, Register(p)
    PROVE  Kept
<1>1. CASE IsExpired
  BY <1>1, ExpiryEmpties DEF Register
<1>2. CASE ~IsExpired
  <2> DEFINE rm == IF Exists THEN room ELSE EmptyRecord
  <2>1. Save(With(rm, p), Seen(p)) /\ UNCHANGED <<sockets, cleanup>>
    BY <1>2 DEF Register
  <2>2. rm \in RoomRecords /\ rm.members = Members
    BY MembersTyped, DurationsArePositive DEF EmptyRecord, RoomRecords, Members
  <2>3. \A q \in Members : rm = room
    BY DEF Members
  <2> HIDE DEF rm
  <2>4. room' = With(rm, p) /\ age' = Seen(p)
    BY <2>1 DEF Save
  <2>5. /\ Members' = Members \cup {p}
        /\ rm.connected \subseteq room'.connected
    BY <2>2, <2>4, WithFields, SavedMembers
  <2>6. sock' = sock /\ since' = since /\ sock[p] = "none"
    BY <2>1 DEF Register, sockets
  <2>7. OthersKept(p) /\ OthersStay(p)
    BY <2>3, <2>4, <2>5, <2>6, SeenAges, MembersTyped DEF OthersKept, OthersStay
  <2>8. QED
    BY <2>5, <2>6, <2>7, StepOfOne
<1>3. QED
  BY <1>1, <1>2

\* The steps that note a sign of life of p and may change its connection.
LEMMA ContactKept ==
    ASSUME IInv, SocketIsAlive, NEW p \in Participants, p \in Members,
           NEW C \in SUBSET Participants, room.connected \ {p} \subseteq C,
           room' = [room EXCEPT !.connected = C], age' = Seen(p),
           \A q \in Participants \ {p} : sock'[q] = sock[q],
           \A q \in Agents : since'[q] = since[q] \/ (q = p /\ since'[q] \in Nat),
           sock'[p] = "open" /\ p \in Humans => p \in C
    PROVE  Kept
<1>1. Exists
  BY DEF Members
<1>2. Members' = Members /\ room'.connected = C
  BY <1>1, ConnectionFields
<1>3. p \in Agents => since'[p] \in Nat
  BY DurationsArePositive DEF IInv, TypeOK
<1>4. OthersKept(p)
  BY <1>2, SeenAges, MembersTyped DEF OthersKept
<1>5. OthersStay(p)
  BY <1>2 DEF OthersStay
<1>6. age'[p] = 0
  BY SeenAges
<1>7. p \in Agents => age'[p] <= since'[p]
  BY <1>3, <1>6
<1>8. QED
  BY <1>2, <1>4, <1>5, <1>7, StepOfOne

LEMMA ConnectedPlus ==
    ASSUME IInv, NEW p \in Members
    PROVE  /\ room.connected \cup {p} \in SUBSET Participants
           /\ room.connected \ {p} \in SUBSET Participants
           /\ room.connected \in SUBSET Participants
           /\ room = [room EXCEPT !.connected = room.connected]
BY MembersTyped DEF Members, RoomRecords

LEMMA ConnectKept ==
    ASSUME IInv, SocketIsAlive, NEW p \in Participants,
           \/ p \in Humans /\ ConnectHuman(p)
           \/ p \in Agents /\ (ConnectAgent(p) \/ Heartbeat(p))
    PROVE  Kept
<1>1. p \in Members /\ age' = Seen(p)
  BY DEF ConnectHuman, ConnectAgent, Heartbeat, Save
<1>2. room' = [room EXCEPT !.connected = room.connected \cup {p}]
  BY DEF ConnectHuman, ConnectAgent, Heartbeat, Save
<1>3. \A q \in Participants \ {p} : sock'[q] = sock[q]
  BY DEF IInv, TypeOK, ConnectHuman, ConnectAgent, Heartbeat, TakeOver
<1>4. \A q \in Agents : since'[q] = since[q] \/ (q = p /\ since'[q] \in Nat)
  BY DEF IInv, TypeOK, ConnectHuman, ConnectAgent, Heartbeat
<1>5. QED
  BY <1>1, <1>2, <1>3, <1>4, ConnectedPlus, ContactKept

LEMMA ReconnectKept ==
    ASSUME IInv, SocketIsAlive, NEW p \in Participants,
           (p \in Humans /\ Reconnect(p)) \/ (CloseEvent(p) /\ p \in Members)
    PROVE  Kept
<1>1. p \in Members /\ age' = Seen(p) /\ since' = since
  BY DEF Reconnect, CloseEvent, Save
<1>2. room' = [room EXCEPT !.connected = room.connected \ {p}]
  BY DEF Reconnect, CloseEvent, Save
<1>3. sock' = [sock EXCEPT ![p] = "none"]
  BY DEF Reconnect, CloseEvent
<1>4. sock'[p] = "none" /\ \A q \in Participants \ {p} : sock'[q] = sock[q]
  BY <1>3 DEF IInv, TypeOK
<1>5. QED
  BY <1>1, <1>2, <1>4, ConnectedPlus, ContactKept

LEMMA AgentCallKept ==
    ASSUME IInv, SocketIsAlive, NEW p \in Agents, AgentCall(p)
    PROVE  Kept
<1>1. p \in Members /\ p \in Participants
  BY DEF AgentCall, Participants
<1>2. room' = [room EXCEPT !.connected = room.connected] /\ age' = Seen(p)
  BY <1>1, ConnectedPlus DEF AgentCall, Save
<1>3. sock' = sock /\ since' = since
  BY DEF AgentCall, sockets
<1>4. p \notin Humans
  BY KindsAreDisjoint
<1>5. QED
  BY <1>1, <1>2, <1>3, <1>4, ConnectedPlus, ContactKept

\* Nothing that SocketIsAlive speaks of changes, or less is open.
LEMMA QuietKept ==
    ASSUME IInv, SocketIsAlive,
           Members' = Members, Members # {} => room'.connected = room.connected,
           age' = age, since' = since,
           \A q \in Participants : sock'[q] = "open" => sock[q] = "open"
    PROVE  Kept
BY MembersTyped DEF Kept, SocketIsAlive

LEMMA SocketKept ==
    ASSUME IInv, SocketIsAlive, NEW p \in Participants,
           Drop(p) \/ StaleClose(p) \/ (CloseEvent(p) /\ p \notin Members)
    PROVE  Kept
<1>1. UNCHANGED <<room, age, since>>
  BY DEF Drop, StaleClose, CloseEvent
<1>2. \A q \in Participants : sock'[q] = "open" => sock[q] = "open"
  BY DEF IInv, TypeOK, Drop, StaleClose, CloseEvent
<1>3. Members' = Members
  BY <1>1 DEF Members, Exists
<1>4. QED
  BY <1>1, <1>2, <1>3, QuietKept

LEMMA CleanupKept ==
    ASSUME IInv, SocketIsAlive, EndGrant \/ AttemptEnds
    PROVE  Kept
<1>1. age' = age /\ sock' = sock /\ since' = since
  BY DEF EndGrant, AttemptEnds, Save, sockets
<1>2. CASE room' = room
  <2>1. Members' = Members
    BY <1>2 DEF Members, Exists
  <2>2. QED
    BY <1>1, <1>2, <2>1, QuietKept
<1>3. CASE room' # room
  <2>1. Exists /\ \E b \in BOOLEAN : room' = [room EXCEPT !.pending = b]
    BY <1>3, MembersTyped DEF EndGrant, AttemptEnds, Save, Members, RoomRecords
  <2>2. PICK b \in BOOLEAN : room' = [room EXCEPT !.pending = b]
    BY <2>1
  <2> DEFINE new == [room EXCEPT !.pending = b]
  <2>3. /\ new \in RoomRecords
        /\ new.members = room.members /\ new.connected = room.connected
    BY <2>1, MembersTyped DEF RoomRecords
  <2>4. room' = new
    BY <2>2
  <2> HIDE DEF new
  <2>5. Members' = Members
    BY <2>1, <2>3, <2>4, SavedMembers, MembersTyped
  <2>6. QED
    BY <1>1, <2>3, <2>4, <2>5, QuietKept
<1>4. QED
  BY <1>2, <1>3

\* The record after departures, with what may have been staged.
LEMMA DepartureFields ==
    ASSUME NEW rm \in RoomRecords, NEW D, NEW new \in MayStage(Without(rm, D), D),
           Without(rm, D) \in RoomRecords
    PROVE  /\ new \in RoomRecords
           /\ new.members = rm.members \ D /\ new.connected = rm.connected \ D
<1>1. /\ Without(rm, D).members = rm.members \ D
      /\ Without(rm, D).connected = rm.connected \ D
  BY DEF Without, RoomRecords
<1> DEFINE base == Without(rm, D)
<1> HIDE DEF base
<1>2. PICK b \in BOOLEAN : new = [base EXCEPT !.pending = b]
  BY DEF MayStage, RoomRecords, base
<1>3. base \in RoomRecords
  BY DEF base
<1>4. new \in RoomRecords /\ new.members = base.members /\ new.connected = base.connected
  BY <1>2, <1>3 DEF RoomRecords
<1>5. QED
  BY <1>1, <1>4 DEF base

LEMMA LeaveKept ==
    ASSUME IInv, SocketIsAlive, NEW p \in Participants, Leave(p)
    PROVE  Kept
<1>1. Sound(room, age) /\ room \in RoomRecords /\ Members = room.members
  BY MembersTyped DEF IInv, Leave, Members
<1>2. Without(room, {p}) \in RoomRecords
  BY <1>1, WithoutSound DEF Sound
<1>3. PICK rm \in MayStage(Without(room, {p}), {p}) : Save(rm, age)
  BY DEF Leave
<1>4. room' = rm /\ age' = age /\ since' = since /\ sock' = [sock EXCEPT ![p] = "none"]
  BY <1>3 DEF Leave, Save
<1>5. /\ rm \in RoomRecords
      /\ rm.members = room.members \ {p} /\ rm.connected = room.connected \ {p}
  BY <1>1, <1>2, DepartureFields
<1>6. Members' = Members \ {p} /\ room'.connected = room.connected \ {p}
  BY <1>1, <1>4, <1>5, SavedMembers
<1>7. \A q \in Participants \ {p} : sock'[q] = sock[q]
  BY <1>4 DEF IInv, TypeOK
<1>8. OthersKept(p) /\ OthersStay(p)
  BY <1>4, <1>6, <1>7, MembersTyped DEF OthersKept, OthersStay
<1>9. QED
  BY <1>6, <1>8, StepOfOne

\* The alarm removes nobody with an open socket.
LEMMA AlarmKept == ASSUME IInv, SocketIsAlive, Alarm PROVE Kept
<1>1. CASE IsExpired
  BY <1>1, ExpiryEmpties DEF Alarm
<1>2. CASE ~IsExpired
  <2> DEFINE gone == Overdue(room, age)
  <2> DEFINE base == IF gone = {} THEN room ELSE Without(room, gone)
  <2>1. Sound(room, age) /\ room \in RoomRecords /\ Members = room.members
    BY MembersTyped DEF IInv, Alarm
  <2>2. Without(room, gone) \in RoomRecords
    BY <2>1, WithoutSound DEF Sound
  <2>3. PICK rm \in MayStage(base, gone) : Save(rm, age)
    BY <1>2 DEF Alarm
  <2>4. /\ room' = rm /\ age' = age /\ since' = since
        /\ \A q \in Participants : sock'[q] = "open" => sock[q] = "open"
    BY <1>2, <2>3 DEF Alarm, Save
  <2>5. /\ rm \in RoomRecords
        /\ rm.members = room.members \ gone /\ rm.connected = room.connected \ gone
    <3>1. CASE gone = {}
      <4>1. PICK b \in BOOLEAN : rm = [room EXCEPT !.pending = b]
        BY <2>1, <3>1 DEF MayStage, RoomRecords
      <4>2. rm \in RoomRecords /\ rm.members = room.members /\ rm.connected = room.connected
        BY <2>1, <4>1 DEF RoomRecords
      <4>3. QED
        BY <3>1, <4>2
    <3>2. CASE gone # {}
      BY <2>1, <2>2, <3>2, DepartureFields
    <3>3. QED
      BY <3>1, <3>2
  <2> HIDE DEF gone, base
  <2>6. Members' = Members \ gone /\ room'.connected = room.connected \ gone
    BY <2>1, <2>4, <2>5, SavedMembers
  <2>7. \A q \in gone : q \in Members /\ sock[q] # "open"
    <3> SUFFICES ASSUME NEW q \in gone, sock[q] = "open" PROVE FALSE
      BY <2>1 DEF gone, Overdue
    <3>1. q \in Members /\ q \in Participants
      BY <2>1 DEF gone, Overdue, RoomRecords
    <3>2. CASE q \in Agents
      <4>1. age[q] <= since[q] /\ age[q] \in Nat /\ since[q] \in 0..HEARTBEAT
        BY <3>1, <3>2, DurationsArePositive DEF SocketIsAlive, IInv, TypeOK
      <4>2. age[q] >= LEASE
        BY <3>2, KindsAreDisjoint DEF gone, Overdue
      <4>3. QED
        BY <4>1, <4>2, DurationsArePositive
    <3>3. CASE q \notin Agents
      BY <3>1, <3>3 DEF SocketIsAlive, gone, Overdue, Participants
    <3>4. QED
      BY <3>2, <3>3
  <2>8. SocketIsAlive'
    BY <2>4, <2>6, MembersTyped DEF SocketIsAlive
  <2>9. QED
    BY <2>6, <2>7, <2>8 DEF Kept
<1>3. QED
  BY <1>1, <1>2

\* The ticker stops time before an open stream has been silent for too long.
LEMMA TickKept == ASSUME IInv, SocketIsAlive, Tick PROVE Kept
<1>1. /\ Members' = Members /\ sock' = sock
      /\ Members # {} => room'.connected = room.connected
  <2>1. CASE ~Exists
    BY <2>1 DEF Tick, Members, Exists
  <2>2. CASE Exists
    <3> DEFINE new == [room EXCEPT !.expires = Later(@)]
    <3>1. Later(room.expires) \in Int
      BY <2>2, MembersTyped, DurationsArePositive DEF Later, RoomRecords
    <3>2. /\ new \in RoomRecords
          /\ new.members = room.members /\ new.connected = room.connected
      BY <2>2, <3>1, MembersTyped DEF RoomRecords
    <3>3. room' = new /\ sock' = sock
      BY <2>2 DEF Tick
    <3> HIDE DEF new
    <3>4. QED
      BY <2>2, <3>2, <3>3, SavedMembers, MembersTyped
  <2>3. QED
    BY <2>1, <2>2
<1>2. SocketIsAlive'
  <2> SUFFICES ASSUME NEW q \in Members, sock[q] = "open"
               PROVE  /\ q \in Humans => q \in room'.connected
                      /\ q \in Agents => age'[q] <= since'[q]
    BY <1>1 DEF SocketIsAlive
  <2>1. q \in Humans => q \in room'.connected
    BY <1>1 DEF SocketIsAlive
  <2>2. ASSUME q \in Agents PROVE age'[q] <= since'[q]
    <3>1. /\ q \in Participants
          /\ age[q] \in Nat /\ since[q] \in Nat /\ age[q] <= since[q]
      BY <2>2, DurationsArePositive DEF SocketIsAlive, IInv, TypeOK, Participants
    <3>2. since[q] < HEARTBEAT
      BY <2>2 DEF Tick
    <3>3. since'[q] = since[q] + 1
      BY <2>2, <3>2 DEF Tick
    <3>4. age'[q] = IF age[q] < MaxAge THEN age[q] + 1 ELSE age[q]
      BY <3>1 DEF Tick
    <3>5. QED
      BY <3>1, <3>3, <3>4
  <2>3. QED
    BY <2>1, <2>2
<1>3. QED
  BY <1>1, <1>2 DEF Kept

LEMMA NextKept == ASSUME IInv, SocketIsAlive, [Next]_vars PROVE Kept
<1>1. CASE UNCHANGED vars
  <2>1. UNCHANGED <<room, age, since, sock>>
    BY <1>1 DEF vars, sockets
  <2>2. Members' = Members
    BY <2>1 DEF Members, Exists
  <2>3. QED
    BY <2>1, <2>2, QuietKept
<1>2. ASSUME NEW p \in Participants, Register(p) PROVE Kept
  BY <1>2, RegisterKept
<1>3. ASSUME NEW p \in Participants, Drop(p) \/ StaleClose(p) PROVE Kept
  BY <1>3, SocketKept
<1>4. ASSUME NEW p \in Participants, CloseEvent(p) PROVE Kept
  BY <1>4, SocketKept, ReconnectKept
<1>5. ASSUME NEW p \in Participants, Leave(p) PROVE Kept
  BY <1>5, LeaveKept
<1>6. ASSUME NEW h \in Humans, ConnectHuman(h) PROVE Kept
  BY <1>6, ConnectKept DEF Participants
<1>7. ASSUME NEW h \in Humans, Reconnect(h) PROVE Kept
  BY <1>7, ReconnectKept DEF Participants
<1>8. ASSUME NEW a \in Agents, ConnectAgent(a) \/ Heartbeat(a) PROVE Kept
  BY <1>8, ConnectKept DEF Participants
<1>9. ASSUME NEW a \in Agents, AgentCall(a) PROVE Kept
  BY <1>9, AgentCallKept
<1>10. CASE EndGrant \/ AttemptEnds
  BY <1>10, CleanupKept
<1>11. CASE LateHandler
  BY <1>11, ExpiryEmpties DEF LateHandler
<1>12. CASE Alarm
  BY <1>12, AlarmKept
<1>13. CASE Tick
  BY <1>13, TickKept
<1>14. QED
  BY <1>1, <1>2, <1>3, <1>4, <1>5, <1>6, <1>7, <1>8, <1>9, <1>10, <1>11, <1>12, <1>13
  DEF Next

\* A participant with an open socket is in the room until it leaves: the close
\* of an older socket does not disconnect it and the alarm does not sweep it.
THEOREM OpenSocketKeepsPlace == Spec => OpenSocketStays
<1> DEFINE Stays == \A p \in Participants :
                      (p \in Members /\ sock[p] = "open" /\ p \notin Members') => Leave(p)
<1>1. Init => SocketIsAlive
  BY DEF Init, SocketIsAlive, Members, Exists
<1>2. IInv /\ SocketIsAlive /\ [Next]_vars => SocketIsAlive' /\ Stays
  BY NextKept DEF Kept
<1>3. IInv /\ SocketIsAlive /\ [Next]_vars => [Stays]_vars
  BY <1>2
<1>4. Spec => [][Stays]_vars
  BY <1>1, <1>2, <1>3, Invariant, PTL DEF Spec
<1>5. QED
  BY <1>4 DEF OpenSocketStays
=============================================================================
