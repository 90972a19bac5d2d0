----------------------------- MODULE RoomMedia -----------------------------
(***************************************************************************)
(* Agent media in one room: the RoomSession Durable Object that owns the   *)
(* grants and the durable cleanup queue (app/src/do/RoomSession.ts), the   *)
(* stateless Workers that create SFU tracks on an Agent's behalf           *)
(* (app/src/sfu/server.ts), and the SFU that carries the tracks.           *)
(*                                                                         *)
(* A Durable Object handler is one atomic step, except that a tracks/close *)
(* call leaves the handler's room record behind: the attempts in flight    *)
(* are the records of closers. A Worker request is a sequence of steps, one *)
(* per Durable Object or SFU call.                                         *)
(***************************************************************************)
EXTENDS MediaGrants

CONSTANTS
  Workers,     \* slots for Worker requests that run at the same time
  HostsOf,     \* HostsOf[a]: the Runtime Hosts Agent a may register
  Projections, \* readiness <<stt, tts>> a Runtime Host may report
  MaxClosers   \* bound of the model: cleanup attempts in flight

ASSUME HostsOfAssumption == HostsOf \in [Agents -> SUBSET Hosts]
ASSUME ProjectionsAssumption == Projections \subseteq BOOLEAN \X BOOLEAN
ASSUME MaxClosersAssumption == MaxClosers \in Nat

VARIABLES
  room,      \* the persisted room record
  enabled,   \* AGENT_MEDIA_ENABLED of the running deployment
  worker,    \* worker[w]: the request in slot w
  closers,   \* cleanup attempts between their snapshot and their reconciliation
  ingress,   \* tracks the SFU carries from a Human to an Agent
  egress,    \* tracks the SFU carries from an Agent to the Humans
  forfeited  \* history: tracks given up because their room had expired

vars == <<room, enabled, worker, closers, ingress, egress, forfeited>>
sfu == <<ingress, egress>>

Purposes == {"meeting-notes", "live-transcript", "voice-reply"}
Steps == {"idle", "admitted", "authorized", "cleared", "created", "refused",
          "unresolved"}

Requests ==
  [step : Steps, agent : Agents \union {NoAgent},
   session : Sessions \union {NoSession}, mid : Mids \union {NoMid},
   purpose : Purposes \union {"session"}]

Idle == [step |-> "idle", agent |-> NoAgent, session |-> NoSession,
         mid |-> NoMid, purpose |-> "session"]

Closers == [todo : SUBSET Tracks, confirmed : SUBSET Tracks, reconcile : BOOLEAN]

TypeOK ==
  /\ room \in RoomRecords
  /\ enabled \in BOOLEAN
  /\ worker \in [Workers -> Requests]
  /\ closers \subseteq Closers
  /\ ingress \subseteq Tracks
  /\ egress \subseteq Tracks
  /\ forfeited \subseteq Tracks

(***************************************************************************)
(* Where a track is accounted for.                                         *)
(***************************************************************************)
TrackedSubscriptions(r) == UNION {SubscribedTracks(r, a) : a \in Agents}
TrackedPublications(r) == UNION {PublishedTracks(r, a) : a \in Agents}
Tracked(r) == TrackedSubscriptions(r) \union TrackedPublications(r)

Holding == {"created", "refused", "unresolved"}
TrackOf(w) == <<worker[w].session, worker[w].mid>>
InHand == {TrackOf(w) : w \in {v \in Workers : worker[v].step \in Holding}}

ClosersTracks == UNION {c.todo \union c.confirmed : c \in closers}

\* Every track anybody still knows about: an id outside it is as good as new.
Known == Tracked(room) \union room.pending \union InHand \union ClosersTracks
           \union ingress \union egress \union forfeited

KnownSessions ==
  {t[1] : t \in Known} \union {room.session[a] : a \in Agents}
    \union {worker[w].session : w \in Workers}

Init ==
  /\ room = EmptyRoom
  /\ enabled = TRUE
  /\ worker = [w \in Workers |-> Idle]
  /\ closers = {}
  /\ ingress = {} /\ egress = {}
  /\ forfeited = {}

-----------------------------------------------------------------------------
\* activeRoom(), loadRoom(): the normalized record every handler starts from;
\* it is persisted even when the handler then refuses. The parameter r of the
\* handlers below is this record.
Load == Normalize(room, enabled)

\* saveRoom(r) and, after it, attemptCleanupNow(r.pendingMediaCleanup), which
\* snapshots the queue and leaves the handler's step.
StartCloser(r, reconcile) ==
  /\ closers' = closers \union
       (IF r.pending = {} THEN {}
        ELSE {[todo |-> r.pending, confirmed |-> {}, reconcile |-> reconcile]})
  /\ Cardinality(closers') <= MaxClosers

SaveAndClose(r) ==
  /\ room' = r
  /\ StartCloser(r, TRUE)
  /\ UNCHANGED <<enabled, worker, sfu, forfeited>>

Save(r) ==
  /\ room' = r
  /\ UNCHANGED <<enabled, worker, closers, sfu, forfeited>>

(***************************************************************************)
(* Presence.                                                               *)
(***************************************************************************)
\* Any handler that only reads or that refuses.
ReadRoom(r) ==
  /\ room.alive
  /\ Save(r)

\* "register": the first Human of a generation creates its record.
RegisterHuman ==
  /\ ~room.alive
  /\ Save(EmptyRoom)

\* registerRuntimeHost: the one projection of Host h, shared by its Agents,
\* becomes p = <<stt, tts>>.
Project(r, h, p) ==
  [r EXCEPT !.stt = IF p[1] THEN @ \union {h} ELSE @ \ {h},
            !.tts = IF p[2] THEN @ \union {h} ELSE @ \ {h}]

Admit(r, a, h) ==
  [r EXCEPT !.members = @ \union {a}, !.connected = @ \union {a}, !.hostOf[a] = h]

\* "agent-register", "agent-create-room": an id is never used twice, so a
\* request of an earlier participant cannot be taken for one of a new one. The
\* Agent may come without a Runtime Host.
RegisterAgent(r, a) ==
  LET base == IF room.alive THEN r ELSE EmptyRoom
  IN  /\ a \notin r.members
      /\ \A w \in Workers : worker[w].agent # a
      /\ \/ Save(Admit(base, a, NoHost))
         \/ \E h \in HostsOf[a], p \in Projections :
              Save(Admit(Project(base, h, p), a, h))

\* handleAgentEventClose, for the socket that owns the connection nonce.
EventSocketCloses(r, a) ==
  /\ room.alive
  /\ a \in r.members \intersect r.connected
  /\ Save([r EXCEPT !.connected = @ \ {a}])

\* handleAgentEventConnection, while the lease is still valid.
EventSocketConnects(r, a) ==
  /\ room.alive
  /\ a \in r.members \ r.connected
  /\ Save([r EXCEPT !.connected = @ \union {a}])

\* transitionAgentVoiceForRuntimeHostUpdate: a grant does not follow its Agent
\* to another Host, and a Host that loses TTS loses the grants of its Agents.
RevokedByUpdate(r, a, h, p) ==
  {b \in r.voice :
     \/ /\ b = a
        /\ r.hostOf[a] \notin {NoHost, h}
     \/ /\ h \in r.tts /\ ~p[2]
        /\ b \in OnHost(r, h) \union {a}}

\* "agent-update-runtime-host"
UpdateRuntimeHost(r, a, h, p) ==
  LET revoked == RevokedByUpdate(r, a, h, p)
      hosted == [Project(r, h, p) EXCEPT !.hostOf[a] = h, !.voice = @ \ revoked]
  IN  /\ room.alive
      /\ a \in r.members
      /\ SaveAndClose(CollectHosts(Stage(hosted, {}, revoked), enabled))

\* "agent-leave"
Leave(r, a) ==
  /\ room.alive
  /\ a \in r.members
  /\ SaveAndClose(Depart(r, enabled, {a}))

\* alarm(): departs the Agents D whose lease has run out (possibly none) and
\* retries the queue.
Alarm(r, D) ==
  /\ room.alive
  /\ D \subseteq r.members
  /\ SaveAndClose(Depart(r, enabled, D))

\* expireRoom(): an empty room's record is deleted; its queue gets one attempt
\* that nothing reconciles.
Expire(r) ==
  /\ room.alive
  /\ r.members = {}
  /\ room' = [EmptyRoom EXCEPT !.alive = FALSE]
  /\ StartCloser(r, FALSE)
  /\ forfeited' = forfeited \union r.pending
  /\ UNCHANGED <<enabled, worker, sfu>>

\* A deployment or an eviction restarts the Durable Object: storage survives,
\* the attempts in flight do not.
Restart ==
  /\ closers' = {}
  /\ enabled' \in BOOLEAN
  /\ UNCHANGED <<room, worker, sfu, forfeited>>

-----------------------------------------------------------------------------
(***************************************************************************)
(* The Human's control messages.                                           *)
(***************************************************************************)
MeetingNotesStart(r, a) ==
  /\ room.alive /\ enabled
  /\ a \in r.members \intersect r.connected
  /\ r.notes # a
  /\ Cardinality(PendingSessions(r)) < MaxPendingEntries
  /\ SaveAndClose(RevokeSubscribed([r EXCEPT !.notes = a], enabled, r.notes))

MeetingNotesStop(r) ==
  /\ room.alive
  /\ SaveAndClose(RevokeSubscribed([r EXCEPT !.notes = NoAgent], enabled, r.notes))

LiveTranscriptStart(r, h) ==
  /\ room.alive /\ enabled
  /\ r.producer = NoHost
  /\ HostReady(r, h)
  /\ Save([r EXCEPT !.producer = h])

LiveTranscriptStop(r) ==
  /\ room.alive
  /\ SaveAndClose(StopLiveTranscript(r))

AgentVoiceOn(r, a) ==
  /\ room.alive /\ enabled
  /\ a \in r.members \intersect r.connected
  /\ r.hostOf[a] \in r.tts
  /\ a \notin r.voice
  /\ HasCapacity(r, r.session[a], 1)
  /\ SaveAndClose([r EXCEPT !.voice = @ \union {a}])

AgentVoiceOff(r, a) ==
  /\ room.alive
  /\ a \in r.voice
  /\ SaveAndClose([Stage(r, {}, {a}) EXCEPT !.voice = @ \ {a}])

-----------------------------------------------------------------------------
(***************************************************************************)
(* A Worker's request: agent-session.                                      *)
(***************************************************************************)
Become(w, q) == worker' = [worker EXCEPT ![w] = q]

\* "agent-media-admit"
AdmitSession(r, w, a) ==
  /\ worker[w] = Idle
  /\ room.alive /\ enabled
  /\ a \in r.members
  /\ SharedMediaAuthorized(r, enabled, a)
  /\ room' = r
  /\ Become(w, [Idle EXCEPT !.step = "admitted", !.agent = a])
  /\ UNCHANGED <<enabled, closers, sfu, forfeited>>

\* Mutant: rotating the session forgets what the old one carried.
AttachSessionUnstaged(r, w, s) ==
  LET a == worker[w].agent
  IN  /\ worker[w].step = "admitted"
      /\ s \notin KnownSessions
      /\ room.alive /\ a \in r.members /\ SharedMediaAuthorized(r, enabled, a)
      /\ room' = [r EXCEPT !.session[a] = s, !.subscribed[a] = {},
                           !.published[a] = NoMid]
      /\ StartCloser(room', TRUE)
      /\ Become(w, Idle)
      /\ UNCHANGED <<enabled, sfu, forfeited>>

\* /sessions/new has answered s; "agent-media-attach" replaces the Agent's
\* media state, staging the old one, if the Agent is still authorized.
AttachSession(r, w, s) ==
  LET a == worker[w].agent
  IN  /\ worker[w].step = "admitted"
      /\ s \notin KnownSessions
      /\ IF room.alive /\ a \in r.members /\ SharedMediaAuthorized(r, enabled, a)
           THEN /\ room' = [Stage(r, {a}, {a}) EXCEPT !.session[a] = s]
                /\ StartCloser(room', TRUE)
           ELSE room' = r /\ UNCHANGED closers
      /\ Become(w, Idle)
      /\ UNCHANGED <<enabled, sfu, forfeited>>

(***************************************************************************)
(* A Worker's request: tracks, with one remote track (meeting-notes,       *)
(* live-transcript) or one local track (voice-reply).                      *)
(***************************************************************************)
Granted(r, a, purpose) ==
  \/ purpose = "meeting-notes" /\ r.notes = a
  \/ purpose = "live-transcript" /\ LiveTranscriptAuthorized(r, enabled, a)
  \/ purpose = "voice-reply" /\ a \in r.voice

\* findParticipant(participantId, token, sessionId)
Found(r, a, s) == room.alive /\ a \in r.members /\ r.session[a] = s

\* "authorize" before any SFU call: the grant, and room for one more track.
Authorize(r, w, a, purpose) ==
  LET s == r.session[a]
  IN  /\ worker[w] = Idle
      /\ Found(r, a, s) /\ s # NoSession
      /\ Granted(r, a, purpose)
      /\ IF purpose = "voice-reply"
           THEN enabled /\ r.published[a] = NoMid
           ELSE Cardinality(r.subscribed[a]) + 1 <= MaxSubscribedMids
      /\ HasCapacity(r, s, 1)
      /\ room' = r
      /\ Become(w, [step |-> IF purpose = "voice-reply" THEN "cleared"
                             ELSE "authorized",
                    agent |-> a, session |-> s, mid |-> NoMid,
                    purpose |-> purpose])
      /\ UNCHANGED <<enabled, closers, sfu, forfeited>>

\* "authorize" once more for the remote track itself.
Reauthorize(r, w) ==
  LET q == worker[w]
  IN  /\ q.step = "authorized"
      /\ room' = r
      /\ Become(w, IF Found(r, q.agent, q.session) /\ Granted(r, q.agent, q.purpose)
                     THEN [q EXCEPT !.step = "cleared"] ELSE Idle)
      /\ UNCHANGED <<enabled, closers, sfu, forfeited>>

\* tracks/new: the SFU carries a new track.
CreateTrack(w, m) ==
  LET q == worker[w]
      t == <<q.session, m>>
  IN  /\ q.step = "cleared"
      /\ t \notin Known
      /\ Become(w, [q EXCEPT !.step = "created", !.mid = m])
      /\ IF q.purpose = "voice-reply"
           THEN egress' = egress \union {t} /\ UNCHANGED ingress
           ELSE ingress' = ingress \union {t} /\ UNCHANGED egress
      /\ UNCHANGED <<room, enabled, closers, forfeited>>

CreateTrackFails(w) ==
  /\ worker[w].step = "cleared"
  /\ Become(w, Idle)
  /\ UNCHANGED <<room, enabled, closers, sfu, forfeited>>

\* "agent-track-subscribed" and "agent-track-published" check everything
\* again: the grant may have gone while the SFU was working.
Accepts(r, q) ==
  /\ Found(r, q.agent, q.session)
  /\ Granted(r, q.agent, q.purpose)
  /\ IF q.purpose = "voice-reply"
       THEN \/ r.published[q.agent] = q.mid
            \/ r.published[q.agent] = NoMid /\ HasCapacity(r, q.session, 1)
       ELSE /\ Cardinality(r.subscribed[q.agent] \union {q.mid}) <= MaxSubscribedMids
            /\ HasCapacity(r, q.session, 0)

Record(r, q) ==
  IF q.purpose = "voice-reply" THEN [r EXCEPT !.published[q.agent] = q.mid]
  ELSE [r EXCEPT !.subscribed[q.agent] = @ \union {q.mid}]

RegisterTrack(r, w) ==
  LET q == worker[w]
  IN  /\ q.step = "created"
      /\ IF Accepts(r, q)
           THEN room' = Record(r, q) /\ Become(w, Idle)
           ELSE room' = r /\ Become(w, [q EXCEPT !.step = "refused"])
      /\ UNCHANGED <<enabled, closers, sfu, forfeited>>

\* The effect of one tracks/close on the SFU.
Carry(T) == ingress' = ingress \ T /\ egress' = egress \ T

\* compensateUnacceptedAgentMedia: one tracks/close. A call that is not
\* answered may have closed the track all the same.
CompensateSucceeds(w) ==
  /\ worker[w].step = "refused"
  /\ Carry({TrackOf(w)})
  /\ Become(w, Idle)
  /\ UNCHANGED <<room, enabled, closers, forfeited>>

CompensateFails(w) ==
  /\ worker[w].step = "refused"
  /\ (Carry({TrackOf(w)}) \/ UNCHANGED sfu)
  /\ Become(w, [worker[w] EXCEPT !.step = "unresolved"])
  /\ UNCHANGED <<room, enabled, closers, forfeited>>

\* "agent-media-cleanup-pending": refused only by an expired room.
HandOff(r, w) ==
  LET t == TrackOf(w)
  IN  /\ worker[w].step = "unresolved"
      /\ IF room.alive
           THEN room' = [r EXCEPT !.pending = @ \union {t}] /\ UNCHANGED forfeited
           ELSE forfeited' = forfeited \union {t} /\ UNCHANGED room
      /\ Become(w, Idle)
      /\ UNCHANGED <<enabled, closers, sfu>>

-----------------------------------------------------------------------------
(***************************************************************************)
(* attemptCleanupNow after its snapshot: one tracks/close per session, then *)
(* a fresh load from which only the confirmed mids are removed.            *)
(***************************************************************************)
OfSession(T, s) == {t \in T : t[1] = s}

CloseSession(c, s) ==
  LET effect == OfSession(c.todo, s)
      rest == [c EXCEPT !.todo = @ \ effect]
      done == [rest EXCEPT !.confirmed = @ \union effect]
  IN  /\ effect # {}
      /\ \/ /\ closers' = (closers \ {c}) \union {done}
            /\ Carry(effect)
         \/ /\ closers' = (closers \ {c}) \union {rest}
            /\ (Carry(effect) \/ UNCHANGED sfu)
      /\ UNCHANGED <<room, enabled, worker, forfeited>>

\* Mutant: a confirmed close clears the session's whole entry.
ReconcileSession(r, c) ==
  /\ c.todo = {}
  /\ closers' = closers \ {c}
  /\ room' = [r EXCEPT !.pending =
                {t \in @ : \A u \in c.confirmed : u[1] # t[1]}]
  /\ UNCHANGED <<enabled, worker, sfu, forfeited>>

Reconcile(r, c) ==
  /\ c.todo = {}
  /\ closers' = closers \ {c}
  /\ room' = IF c.reconcile /\ c.confirmed # {}
               THEN [r EXCEPT !.pending = @ \ c.confirmed] ELSE room
  /\ UNCHANGED <<enabled, worker, sfu, forfeited>>

-----------------------------------------------------------------------------
RoomStep ==
  \/ ReadRoom(Load)
  \/ RegisterHuman
  \/ \E a \in Agents :
       \/ RegisterAgent(Load, a)
       \/ EventSocketCloses(Load, a)
       \/ EventSocketConnects(Load, a)
       \/ \E h \in HostsOf[a], p \in Projections : UpdateRuntimeHost(Load, a, h, p)
       \/ Leave(Load, a)
  \/ \E D \in SUBSET Agents : Alarm(Load, D)
  \/ Expire(Load)
  \/ Restart

HumanStep ==
  \/ \E a \in Agents :
       MeetingNotesStart(Load, a) \/ AgentVoiceOn(Load, a) \/ AgentVoiceOff(Load, a)
  \/ MeetingNotesStop(Load)
  \/ \E h \in Hosts : LiveTranscriptStart(Load, h)
  \/ LiveTranscriptStop(Load)

WorkerStep(w) ==
  \/ \E a \in Agents :
       AdmitSession(Load, w, a) \/ \E p \in Purposes : Authorize(Load, w, a, p)
  \/ \E s \in Sessions : AttachSession(Load, w, s)
  \/ Reauthorize(Load, w)
  \/ \E m \in Mids : CreateTrack(w, m)
  \/ CreateTrackFails(w)
  \/ RegisterTrack(Load, w)
  \/ CompensateSucceeds(w)
  \/ CompensateFails(w)
  \/ HandOff(Load, w)

CloserStep ==
  \/ \E c \in closers, s \in Sessions : CloseSession(c, s)
  \/ \E c \in closers : Reconcile(Load, c)

Next == RoomStep \/ HumanStep \/ (\E w \in Workers : WorkerStep(w)) \/ CloserStep

Spec == Init /\ [][Next]_vars
-----------------------------------------------------------------------------
(***************************************************************************)
(* Properties.                                                             *)
(***************************************************************************)
\* No live Human audio is ever forgotten: a track the SFU carries to an Agent
\* is in the Agent's record, in the durable cleanup queue or in the hands of
\* the Worker that made it - unless the room that owed its closing expired.
NoForgottenSubscription ==
  ingress \subseteq TrackedSubscriptions(room) \union room.pending
                      \union InHand \union forfeited

\* Cleanup never tears down media the room still authorizes: neither the queue
\* nor an attempt already in flight names a track of a participant record.
CleanupSparesTrackedMedia ==
  /\ room.pending \intersect Tracked(room) = {}
  /\ \A c \in closers : (c.todo \union c.confirmed) \intersect Tracked(room) = {}

\* An Agent that reports one Runtime Host for as long as it is in the room, as
\* the runtime does: it derives the id from its own seed and the room.
StaysOnHost(a) == \A g, h \in HostsOf[a] : g = h

\* Subscriptions are recorded only for the note-taker and for the members of
\* the Live Transcript producer: whatever ends the grant stages them. Other
\* Agents may move; the subscriptions of an Agent that moves are not followed.
SubscribedImpliesGrant ==
  \A a \in room.members :
    (StaysOnHost(a) /\ room.subscribed[a] # {}) =>
      \/ room.notes = a
      \/ room.producer # NoHost /\ room.hostOf[a] = room.producer

\* A recorded voice publication always has its Agent Voice grant.
PublishedImpliesGrant ==
  \A a \in room.members : room.published[a] # NoMid => a \in room.voice

\* What an Agent receives or publishes of voice follows the grants of the room.
MediaImpliesGrant == SubscribedImpliesGrant /\ PublishedImpliesGrant

MayHear(r, a) == r.notes = a \/ LiveTranscriptAuthorized(r, enabled, a)

\* The grants are independent: stopping or reassigning one never takes down the
\* media another one authorizes. An Agent that may hear the room before and
\* after a step keeps its subscriptions, and a published voice goes only with
\* its own grant, unless the whole session is replaced.
GrantsAreIndependent ==
  [][\A a \in Agents :
       room'.session[a] = room.session[a] =>
         /\ MayHear(room, a) /\ MayHear(room', a) =>
              room.subscribed[a] \subseteq room'.subscribed[a]
         /\ room'.published[a] = room.published[a]
              \/ room.published[a] = NoMid \/ a \notin room'.voice]_vars

\* Reconciliation is narrow: a track leaves the queue only when it is no longer
\* carried, whatever was queued while the close was in flight.
QueueDrainsOnlyClosed ==
  [][\A t \in room.pending \ room'.pending :
       t \notin ingress' \union egress' \/ t \in forfeited']_vars
=============================================================================
