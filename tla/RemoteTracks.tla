---------------------------- MODULE RemoteTracks ----------------------------
(***************************************************************************)
(* How one browser comes to hear one other participant: the room tells it  *)
(* of a publication, the browser subscribes at the SFU through the Worker  *)
(* and negotiates, one operation at a time, and each of publication,       *)
(* control socket and media session may be replaced meanwhile              *)
(* (hooks/useSfuChatRoom.ts, sfu/server.ts, do/RoomSession.ts).            *)
(*                                                                         *)
(* A subscription key is the publisher's session: the name of the track    *)
(* does not depend on the session.  publication numbers tell apart what    *)
(* one session publishes under that name in turn.                          *)
(***************************************************************************)
EXTENDS Integers, FiniteSets, SequencesExt

CONSTANTS
    HumanAttempts,  \* 1 + the length of REMOTE_TRACK_SUBSCRIPTION_RETRY_DELAYS_MS
    AgentAttempts,  \* MAX_AGENT_AUDIO_SUBSCRIPTION_ATTEMPTS
    MaxFaults,      \* bound: what is replaced, lost or fails in one behaviour
    MaxFrames       \* bound: frames on their way to the browser

VARIABLES
    kind,       \* of the publisher, "human" or "agent"
    media,      \* the publisher in the record of the room
    listener,   \* the browser's participant in the record of the room
    live,       \* live[s]: the publication session s has at the SFU, 0 if none
    carried,    \* carried[m]: what the SFU sends to the browser as mid m
    published,  \* publications so far
    page,       \* the browser's media session, its PeerConnection and reconnectMedia
    socket,     \* websocketRef, numbered, and whether it is open
    down,       \* frames on their way to the browser
    up,         \* up[n]: frames of the browser's n-th socket on their way to the room
    view,       \* participantMapRef, the publisher's entry
    marked,     \* subscribedTracksRef
    ready,      \* readySubscribedTracksRef
    bindings,   \* remoteTrackBindingsRef
    retries,    \* the retry timers
    queue,      \* negotiationQueueRef, the operation at its head under way
    stream,     \* the mid whose stream is attached, 0 if none
    faults,     \* bound
    acked,      \* history: sessions some negotiation of which completed
    givenUp,    \* history: a request failed and nothing repeats it
    unseen      \* history: sessions the end of whose publication the browser did not see

roomvars == <<kind, media, listener, live, carried, published>>
tracks == <<marked, ready, bindings, retries, queue, stream>>
history == <<acked, givenUp, unseen>>
vars == <<roomvars, page, socket, down, up, view, tracks, faults, history>>

Numbers == 1..MaxFaults + 1      \* sessions, publications and sockets
OrNone == 0..MaxFaults + 1
States == [session : OrNone, shown : BOOLEAN]
Frames == [kind : {"state"}, state : States] \cup [kind : {"published"}, session : Numbers]
Ups == [kind : {"resync", "close"}] \cup [kind : {"voice-ready"}, session : Numbers]
Steps == {"queued", "asked", "answered", "describing", "renegotiating", "renegotiated"}
Answers == {"none", "offer", "undescribed", "transient", "failed"}
Operations == [key : Numbers, media : Numbers, attempt : 1..HumanAttempts, step : Steps,
               mid : Nat, answer : Answers, attached : BOOLEAN]

TypeOK ==
    /\ media \in [session : OrNone, connected : BOOLEAN, booked : BOOLEAN,
                  shown : BOOLEAN, ready : BOOLEAN]
    /\ listener \in [session : Numbers, nonce : OrNone]
    /\ live \in [Numbers -> OrNone] /\ published \in OrNone
    /\ carried \in Seq([pub : Numbers, key : Numbers, media : Numbers, flows : BOOLEAN])
    /\ page \in [phase : {"up", "closing", "asking", "answered", "granted", "waiting"},
                 session : Numbers, pc : BOOLEAN]
    /\ down \in Seq(Frames) /\ \A n \in Numbers : up[n] \in Seq(Ups)
    /\ view \in States /\ socket \in [last : Numbers, open : BOOLEAN]
    /\ ready \cup marked \subseteq Numbers
    /\ \A b \in bindings : b.key = carried[b.mid].key
    /\ \A r, q \in retries : r.key = q.key => r = q
    /\ queue \in Seq(Operations)
    /\ stream \in 0..Len(carried)

NoMedia == [session |-> 0, connected |-> TRUE, booked |-> FALSE, shown |-> FALSE, ready |-> FALSE]

\* The browser is in the room when the publisher comes.
Init ==
    /\ kind \in {"human", "agent"}
    /\ media = NoMedia
    /\ listener = [session |-> 1, nonce |-> 1]
    /\ live = [s \in Numbers |-> 0] /\ carried = <<>> /\ published = 0
    /\ page = [phase |-> "up", session |-> 1, pc |-> TRUE]
    /\ socket = [last |-> 1, open |-> TRUE] /\ down = <<>> /\ up = [n \in Numbers |-> <<>>]
    /\ view = [session |-> 0, shown |-> FALSE]
    /\ marked = {} /\ ready = {} /\ bindings = {} /\ retries = {} /\ queue = <<>>
    /\ stream = 0 /\ faults = 0 /\ acked = {} /\ givenUp = FALSE /\ unseen = {}

Fault == faults < MaxFaults /\ faults' = faults + 1

-----------------------------------------------------------------------------
(* The room *)

\* stateFor: participants that are connected.
State(m) == IF m.connected THEN [session |-> m.session, shown |-> m.shown]
            ELSE [session |-> 0, shown |-> FALSE]

Send(frame) ==
    /\ Len(down) < MaxFrames
    /\ down' = IF socket.open THEN Append(down, frame) ELSE down

BroadcastState == Send([kind |-> "state", state |-> State(media')])

Withdraws ==
    /\ BroadcastState
    /\ unseen' = IF socket.open THEN unseen ELSE unseen \cup {media.session}

Others == UNCHANGED <<kind, listener, carried, page, socket, up, view, tracks, acked, givenUp>>
RoomOnly == Others /\ UNCHANGED unseen

\* "reconnect" of a Human, whose socket follows, and "agent-media-attach": the
\* publisher has a new session.  Nobody is told.
NextSession ==
    /\ media.session <= MaxFaults
    /\ IF media.session = 0 THEN UNCHANGED faults ELSE Fault
    /\ media' = [NoMedia EXCEPT !.session = media.session + 1, !.connected = kind = "agent"]
    /\ live' = [s \in Numbers |-> 0]
    /\ UNCHANGED <<published, down>> /\ RoomOnly

\* The publisher's socket is accepted.
Returns ==
    /\ kind = "human" /\ ~media.connected
    /\ media' = [media EXCEPT !.connected = TRUE]
    /\ BroadcastState
    /\ UNCHANGED <<live, published, faults>> /\ RoomOnly

\* webSocketClose, of the publisher
Disconnects ==
    /\ kind = "human" /\ media.connected /\ media.session > 0 /\ Fault
    /\ media' = [media EXCEPT !.connected = FALSE]
    /\ BroadcastState
    /\ UNCHANGED <<live, published>> /\ RoomOnly

\* tracks/new of the publisher.  An Agent's is registered by "agent-track-published"
\* and not announced yet.
Publishes ==
    /\ media.session > 0 /\ live[media.session] = 0 /\ ~media.shown
    /\ published <= MaxFaults
    /\ published' = published + 1
    /\ live' = [live EXCEPT ![media.session] = published']
    /\ media' = [media EXCEPT !.booked = kind = "agent"]
    /\ UNCHANGED <<down, faults>> /\ RoomOnly

\* "publish", and "agent-track-active"
Announces ==
    /\ media.session > 0 /\ live[media.session] > 0 /\ ~media.shown
    /\ media' = [media EXCEPT !.shown = TRUE]
    /\ Send([kind |-> "published", session |-> media.session])
    /\ UNCHANGED <<live, published, faults>> /\ RoomOnly

\* The publisher closes its track at the SFU, and "unpublish" follows.
StopsPublishing ==
    /\ kind = "human" /\ media.shown /\ live[media.session] > 0 /\ Fault
    /\ live' = [live EXCEPT ![media.session] = 0]
    /\ UNCHANGED <<media, published, down>> /\ RoomOnly

\* "unpublish"
Unpublishes ==
    /\ kind = "human" /\ media.shown /\ live[media.session] = 0
    /\ media' = [media EXCEPT !.shown = FALSE]
    /\ Withdraws
    /\ UNCHANGED <<live, published, faults>> /\ Others

\* Agent Voice is revoked: stageAgentMediaRevocation and the close at the SFU.
Revoked ==
    /\ kind = "agent" /\ media.booked /\ Fault
    /\ live' = [live EXCEPT ![media.session] = 0]
    /\ media' = [media EXCEPT !.booked = FALSE, !.shown = FALSE, !.ready = FALSE]
    /\ Withdraws
    /\ UNCHANGED published /\ Others

\* clearAgentVoiceReadiness, when another Human leaves
OtherLeaves ==
    /\ kind = "agent" /\ media.ready /\ Fault
    /\ media' = [media EXCEPT !.ready = FALSE]
    /\ BroadcastState
    /\ UNCHANGED <<live, published>> /\ RoomOnly

\* "agent-voice-ready"
HearOfReady(session) ==
    media' = [media EXCEPT !.ready = @ \/ (media.booked /\ session = media.session)]

\* webSocketClose: only of the socket that owns the nonce.
HearOfClose(n) ==
    IF listener.nonce = n
      THEN /\ listener' = [listener EXCEPT !.nonce = 0]
           /\ media' = [media EXCEPT !.ready = FALSE]
      ELSE UNCHANGED <<listener, media>>

\* webSocketMessage and webSocketClose; a message of an older socket is handled like
\* any other.
RoomHears(n) ==
    /\ up[n] # <<>>
    /\ up' = [up EXCEPT ![n] = Tail(@)]
    /\ LET frame == Head(up[n])
       IN  \/ /\ frame.kind = "resync" /\ UNCHANGED <<media, listener>>
              /\ IF socket = [last |-> n, open |-> TRUE] THEN Send([kind |-> "state", state |-> State(media)])
                 ELSE UNCHANGED down
           \/ /\ frame.kind = "voice-ready" /\ HearOfReady(frame.session)
              /\ UNCHANGED <<listener, down>>
           \/ /\ frame.kind = "close" /\ HearOfClose(n)
              /\ UNCHANGED down
    /\ UNCHANGED <<kind, live, carried, published, page, socket, view, tracks, faults, history>>

-----------------------------------------------------------------------------
(* The browser's bookkeeping.  t is the record of the variables in tracks. *)

Now == [marked |-> marked, ready |-> ready, bindings |-> bindings, retries |-> retries,
        queue |-> queue, stream |-> stream]

Becomes(t) ==
    /\ marked' = t.marked /\ ready' = t.ready /\ bindings' = t.bindings
    /\ retries' = t.retries /\ queue' = t.queue /\ stream' = t.stream

Unmark(t, key) == [t EXCEPT !.marked = @ \ {key}, !.ready = @ \ {key}]

\* removeRemoteTrackBinding
Unbind(t, mid) ==
    LET gone == {b \in t.bindings : b.mid = mid}
        rest == [t EXCEPT !.bindings = @ \ gone]
        lost == {b.key : b \in gone} \ {b.key : b \in rest.bindings}
    IN  [rest EXCEPT !.marked = @ \ lost, !.ready = @ \ lost]

\* resetRemoteParticipant
ResetParticipant(t) ==
    [t EXCEPT !.marked = {}, !.ready = {}, !.bindings = {}, !.retries = {}, !.stream = 0]

\* resetRemoteTrackSubscription
ResetTrack(t, key) ==
    [Unmark(t, key) EXCEPT
        !.retries = IF kind = "human" THEN {r \in @ : r.key # key} ELSE @,
        !.bindings = {b \in @ : b.key # key}, !.stream = 0]

\* isCurrentSubscriberSession.  A reconnect replaces the PeerConnection before the
\* session.
CurrentSession(n) == page.session = n /\ page.phase \in {"up", "closing", "granted"}

\* isCurrentRemoteSubscription, isCurrentAgentAudioPublication
Current(op) ==
    /\ CurrentSession(op.media)
    /\ view.session = op.key
    /\ kind = "agent" => view.shown

\* sendSocketMessage
Tell(frame) ==
    up' = IF socket.open THEN [up EXCEPT ![socket.last] = Append(@, frame)] ELSE up

VoiceReady(key) == [kind |-> "voice-ready", session |-> key]

\* subscribeTrack up to its place in the queue
Subscribe(t, key, attempt) ==
    IF key \in t.marked THEN t
    ELSE [t EXCEPT
            !.marked = @ \cup {key},
            !.queue = Append(@, [key |-> key, media |-> page.session, attempt |-> attempt,
                                 step |-> "queued", mid |-> 0, answer |-> "none",
                                 attached |-> FALSE])]

\* Mutant: a completed negotiation is not told again.
ResubscribeOnly(t, v, connected) ==
    /\ Becomes(IF connected /\ v.shown THEN Subscribe(t, v.session, 1) ELSE t)
    /\ UNCHANGED up

\* resubscribeRemoteMedia: subscribes to what v shows, and tells the room again of a
\* negotiation that was completed.
Resubscribe(t, v, connected) ==
    IF connected /\ v.shown
      THEN /\ Becomes(Subscribe(t, v.session, 1))
           /\ IF kind = "agent" /\ v.session \in t.marked \cap t.ready
                THEN Tell(VoiceReady(v.session)) ELSE UNCHANGED up
      ELSE Becomes(t) /\ UNCHANGED up

\* applyRoomState: nothing is reset for a publisher of whom no media was known.
Apply(t, state) ==
    IF \/ view.session \notin {0, state.session}
       \/ kind = "agent" /\ view.shown /\ ~state.shown
      THEN ResetParticipant(t)
    ELSE IF view.shown /\ ~state.shown THEN ResetTrack(t, view.session)
    ELSE t

\* "trackPublished"
ApplyPublished(t, key) ==
    IF view.session # key THEN ResetParticipant(t)
    ELSE IF view.shown /\ (t.stream # 0 \/ \E b \in t.bindings : b.key = key)
      THEN ResetTrack(t, key)
    ELSE t

\* socket.onmessage
BrowserHears ==
    /\ down # <<>> /\ down' = Tail(down)
    /\ LET frame == Head(down)
       IN  \/ /\ frame.kind = "state"
              /\ view' = frame.state
              /\ Resubscribe(Apply(Now, frame.state), view', page.pc)
           \/ /\ frame.kind = "published"
              /\ view' = [session |-> frame.session, shown |-> TRUE]
              /\ Resubscribe(ApplyPublished(Now, frame.session), view', page.pc)
    /\ UNCHANGED <<roomvars, page, socket, faults, history>>

-----------------------------------------------------------------------------
(* The control socket, the PeerConnection and their replacement *)

\* The room accepts the next socket of the browser, and socket.onopen: the room sends
\* the state, the browser asks for it.
Opens ==
    /\ ~socket.open /\ page.phase \in {"up", "granted"}
    /\ LET n == socket.last + 1
       IN  /\ socket' = [last |-> n, open |-> TRUE]
           /\ listener' = [listener EXCEPT !.nonce = n]
           /\ up' = [up EXCEPT ![n] = <<[kind |-> "resync"]>>]
    /\ down' = <<[kind |-> "state", state |-> State(media)]>>
    /\ UNCHANGED <<kind, media, live, carried, published, page, view, tracks, faults, history>>

\* A state that no longer shows the publication that the browser knows of.
Withdrawn(frame) ==
    /\ IF frame.kind = "state" THEN ~frame.state.shown ELSE FALSE
    /\ \/ frame.state.session = view.session
       \/ ~media.shown
       \/ [kind |-> "published", session |-> view.session] \in Range(down)

\* What was on its way on the socket, to the browser and perhaps to the room, is lost.
Closes(frames) ==
    /\ socket' = [socket EXCEPT !.open = FALSE] /\ down' = <<>>
    /\ unseen' = IF view.shown /\ \E frame \in Range(down) : Withdrawn(frame)
                   THEN unseen \cup {view.session} ELSE unseen
    /\ up' = [up EXCEPT ![socket.last] = frames \o <<[kind |-> "close"]>>]

Drops ==
    /\ socket.open /\ page.phase \in {"up", "granted"} /\ Fault
    /\ \E frames \in {<<>>, up[socket.last]} : Closes(frames)
    /\ UNCHANGED <<roomvars, page, view, tracks, acked, givenUp>>

\* reconnectMedia: nothing comes of a request while an earlier one is under way.
RequestReconnect ==
    IF page.phase = "up"
      THEN /\ page' = [page EXCEPT !.phase = "closing"]
           /\ IF socket.open THEN Closes(up[socket.last]) ELSE UNCHANGED <<socket, up, down, unseen>>
           /\ UNCHANGED givenUp
      ELSE /\ UNCHANGED <<page, socket, up, down, unseen>> /\ givenUp' = TRUE

\* pc.onconnectionstatechange: "failed" or "disconnected"
PcFails ==
    /\ page.pc /\ Fault
    /\ IF page.phase = "up" THEN RequestReconnect
       ELSE page' = [page EXCEPT !.pc = FALSE] /\ givenUp' = TRUE /\ UNCHANGED <<socket, up, down, unseen>>
    /\ UNCHANGED <<roomvars, view, tracks, acked>>

\* connectMediaSession: the data channels of the old session are closed, everything
\* that hangs on its PeerConnection is forgotten, and the new one is made.
ReplacePc ==
    /\ page.phase = "closing"
    /\ page' = [page EXCEPT !.phase = "asking", !.pc = FALSE]
    /\ Becomes(ResetParticipant(Now))
    /\ UNCHANGED <<roomvars, socket, down, up, view, faults, history>>

\* "reconnect" of the browser, after the Worker made a session at the SFU
RoomReconnects ==
    /\ page.phase = "asking"
    /\ page' = [page EXCEPT !.phase = "answered"]
    /\ listener' = [session |-> listener.session + 1, nonce |-> 0]
    /\ UNCHANGED <<kind, media, live, carried, published, socket, down, up, view, tracks, faults, history>>

\* The request fails before it reaches the room, and a timer repeats it.
ReconnectFails ==
    /\ page.phase = "asking" /\ Fault
    /\ page' = [page EXCEPT !.phase = "waiting"]
    /\ UNCHANGED <<roomvars, socket, down, up, view, tracks, history>>

Moves(from, to) == page.phase = from /\ page' = [page EXCEPT !.phase = to]

ReconnectStep ==
    /\ \/ Moves("waiting", "closing")
       \/ /\ page.phase = "answered"
          /\ page' = [page EXCEPT !.phase = "granted", !.session = listener.session]
       \/ Moves("granted", "up") /\ (page.pc \/ givenUp)
    /\ UNCHANGED <<roomvars, socket, down, up, view, tracks, faults, history>>

\* Mutant: a connection that completes after the state is no occasion to subscribe.
ConnectsQuietly ==
    /\ page.phase = "granted" /\ ~page.pc
    /\ page' = [page EXCEPT !.pc = TRUE]
    /\ UNCHANGED <<roomvars, socket, down, up, view, tracks, faults, history>>

\* pc.onconnectionstatechange: "connected"
Connects ==
    /\ page.phase = "granted" /\ ~page.pc
    /\ page' = [page EXCEPT !.pc = TRUE]
    /\ Resubscribe(Now, view, TRUE)
    /\ UNCHANGED <<roomvars, socket, down, view, faults, history>>

-----------------------------------------------------------------------------
(* One operation of the negotiation queue *)

Op == Head(queue)
AtStep(step) == IF queue = <<>> THEN FALSE ELSE Op.step = step
Step(op) == [Now EXCEPT !.queue = <<op>> \o Tail(queue)]
Done(t) == [t EXCEPT !.queue = Tail(@)]
Give(op) == Becomes(Step(op))

\* A stale operation ends.  cancelStaleAgentAudioSubscription forgets the Agent's
\* marker and binding; a Human's operation leaves both.
Cancelled(op) ==
    IF kind = "human" THEN Now
    ELSE Unbind(IF CurrentSession(op.media) THEN Unmark(Now, op.key) ELSE Now, op.mid)

\* The catch of subscribeTrack.
Failed(op) ==
    LET t == Unbind(Now, op.mid)
    IN  IF ~CurrentSession(op.media) THEN t
        ELSE IF op.mid # 0 /\ kind = "human"
          THEN [t EXCEPT !.marked = @ \cup {op.key}, !.ready = @ \ {op.key}]
        ELSE Unmark(t, op.key)

InBrowser == UNCHANGED <<roomvars, page, socket, down, view>>
AtSfu == UNCHANGED <<kind, media, listener, live, published, page, socket, down, up, view, acked, unseen>>

\* before_tracks_new
Begin ==
    /\ AtStep("queued")
    /\ IF Current(Op) THEN Give([Op EXCEPT !.step = "asked"])
       ELSE Becomes(Done(IF kind = "agent" THEN Cancelled(Op) ELSE Unmark(Now, Op.key)))
    /\ UNCHANGED <<up, faults, history>> /\ InBrowser

\* "authorize" of the request and of its track
Authorized(op) == listener.session = op.media /\ media.session = op.key /\ media.shown

Admit(op) ==
    carried' = Append(carried, [pub |-> live[op.key], key |-> op.key, media |-> op.media,
                                flows |-> FALSE])

Answered(op, answer) == [op EXCEPT !.step = "answered", !.answer = answer]

\* The Worker's tracks/new is answered as it should be.
TracksNew ==
    /\ AtStep("asked")
    /\ IF Authorized(Op) /\ live[Op.key] > 0
         THEN Admit(Op) /\ Give([Answered(Op, "offer") EXCEPT !.mid = Len(carried) + 1])
         ELSE /\ UNCHANGED carried
              /\ Give(Answered(Op, IF Authorized(Op) THEN "transient" ELSE "failed"))
    /\ UNCHANGED <<faults, givenUp>> /\ AtSfu

\* It fails, or its answer is lost; a publication is not to be found yet; or the mid
\* comes without an offer.
TracksNewFails ==
    /\ AtStep("asked") /\ Fault
    /\ \/ Give(Answered(Op, "failed")) /\ UNCHANGED carried /\ givenUp' = TRUE
       \/ /\ kind = "human" /\ Authorized(Op)
          /\ Give(Answered(Op, "transient")) /\ UNCHANGED <<carried, givenUp>>
       \/ /\ Authorized(Op) /\ live[Op.key] > 0 /\ Admit(Op)
          /\ \/ Give(Answered(Op, "failed")) /\ givenUp' = TRUE
             \/ /\ Give([Answered(Op, "undescribed") EXCEPT !.mid = Len(carried) + 1])
                /\ UNCHANGED givenUp
    /\ AtSfu

\* scheduleRemoteTrackSubscriptionRetry, scheduleAgentAudioSubscriptionRetry
Schedule(t, op) ==
    IF \E r \in t.retries : r.key = op.key THEN t
    ELSE [t EXCEPT !.retries = @ \cup {[key |-> op.key, attempt |-> op.attempt + 1,
                                        media |-> op.media]}]

\* Mutant: one retry too many.
RetriableOnceMore(op) ==
    IF kind = "human" THEN op.answer = "transient" /\ op.attempt <= HumanAttempts
    ELSE op.answer = "undescribed" /\ op.attempt <= HumanAttempts

Retriable(op) ==
    IF kind = "human" THEN op.answer = "transient" /\ op.attempt < HumanAttempts
    ELSE op.answer = "undescribed" /\ op.attempt < AgentAttempts

\* The mid was admitted: no other may be asked for until the session is replaced.
KeepsMarker(op) == kind = "human" /\ op.answer = "undescribed"

\* The answer to tracks/new arrives.
TakeAnswer ==
    /\ AtStep("answered") /\ UNCHANGED <<roomvars, view, faults, acked>>
    /\ IF Op.answer # "failed" /\ Current(Op) /\ KeepsMarker(Op)
         THEN /\ Becomes(Done([Now EXCEPT !.marked = @ \cup {Op.key}, !.ready = @ \ {Op.key}]))
              /\ RequestReconnect
         ELSE /\ UNCHANGED <<page, socket, up, down, unseen>>
              /\ \/ /\ Op.answer = "failed"
                    /\ Becomes(Done(Failed(Op))) /\ UNCHANGED givenUp
                 \/ /\ Op.answer # "failed" /\ ~Current(Op)
                    /\ Becomes(Done(Cancelled(Op))) /\ UNCHANGED givenUp
                 \/ /\ Op.answer = "offer" /\ Current(Op) /\ UNCHANGED givenUp
                    /\ Becomes([Step([Op EXCEPT !.step = "describing"]) EXCEPT
                                  !.bindings = @ \cup {[mid |-> Op.mid, key |-> Op.key]}])
                 \/ /\ Op.answer \in {"undescribed", "transient"} /\ Current(Op)
                    /\ Becomes(Done(IF Retriable(Op) THEN Schedule(Now, Op) ELSE Unmark(Now, Op.key)))
                    /\ givenUp' = (givenUp \/ (Op.answer = "undescribed" /\ ~Retriable(Op)))

\* pc.ontrack: the stream of the mid is attached, unless its binding has gone.
OnTrack(t, op) ==
    IF [mid |-> op.mid, key |-> op.key] \in t.bindings
      THEN [t EXCEPT !.bindings = @ \ {[mid |-> op.mid, key |-> op.key]}, !.stream = op.mid,
                     !.queue[1].attached = TRUE]
      ELSE t

\* The descriptions are applied and the track appears.
Describe ==
    /\ AtStep("describing")
    /\ LET t == OnTrack(Now, Op)
       IN  Becomes(IF Current(Op) THEN [t EXCEPT !.queue[1].step = "renegotiating"]
                   ELSE Done(Cancelled(Op)))
    /\ UNCHANGED <<up, faults, history>> /\ InBrowser

\* The track does not appear.
DescribeSilently ==
    /\ AtStep("describing") /\ Current(Op) /\ Fault
    /\ Give([Op EXCEPT !.step = "renegotiating"])
    /\ UNCHANGED <<up, history>> /\ InBrowser

\* The Worker's renegotiate.
Renegotiate ==
    /\ AtStep("renegotiating")
    /\ IF listener.session = Op.media
         THEN /\ carried' = [carried EXCEPT ![Op.mid].flows = TRUE]
              /\ Give([Op EXCEPT !.step = "renegotiated"])
         ELSE UNCHANGED carried /\ Give([Op EXCEPT !.step = "renegotiated", !.answer = "failed"])
    /\ UNCHANGED <<faults, givenUp>> /\ AtSfu

RenegotiateFails ==
    /\ AtStep("renegotiating") /\ Fault
    /\ \E flows \in BOOLEAN : carried' = [carried EXCEPT ![Op.mid].flows = flows]
    /\ Give([Op EXCEPT !.step = "renegotiated", !.answer = "failed"])
    /\ givenUp' = TRUE /\ AtSfu

\* The rest of subscribeTrack: an Agent's voice is acknowledged.
Renegotiated ==
    /\ AtStep("renegotiated")
    /\ \/ /\ Op.answer = "failed"
          /\ Becomes(Done(Failed(Op))) /\ UNCHANGED <<up, history>>
       \/ /\ Op.answer # "failed" /\ ~Current(Op)
          /\ Becomes(Done(Cancelled(Op))) /\ UNCHANGED <<up, history>>
       \/ /\ Op.answer # "failed" /\ Current(Op)
          /\ IF kind = "agent" /\ (Op.attached \/ \E b \in bindings : b.mid = Op.mid)
               THEN /\ Becomes(Done([Now EXCEPT !.ready = @ \cup {Op.key}]))
                    /\ Tell(VoiceReady(Op.key)) /\ acked' = acked \cup {Op.key}
               ELSE Becomes(Done(Now)) /\ UNCHANGED <<up, acked>>
          /\ UNCHANGED <<givenUp, unseen>>
    /\ UNCHANGED faults /\ InBrowser

\* The timer of a binding whose track did not appear.
Timeout(b) ==
    /\ b \in bindings /\ UNCHANGED <<roomvars, view, faults, acked>>
    /\ ~AtStep("describing")
    /\ IF kind = "human"
         THEN /\ Becomes([Unbind(Now, b.mid) EXCEPT !.marked = @ \cup {b.key}, !.ready = @ \ {b.key}])
              /\ RequestReconnect
         ELSE /\ Becomes(Unbind(Now, b.mid)) /\ givenUp' = TRUE
              /\ UNCHANGED <<page, socket, up, down, unseen>>

\* The timer of a retry.
RetryFires(r) ==
    /\ r \in retries
    /\ LET t == [Now EXCEPT !.retries = @ \ {r}]
           unmarked == Unmark(t, r.key)
       IN  Becomes(IF ~CurrentSession(r.media) THEN t
                   ELSE IF view = [session |-> r.key, shown |-> TRUE] /\ page.pc
                     THEN Subscribe(unmarked, r.key, r.attempt)
                   ELSE unmarked)
    /\ UNCHANGED <<up, faults, history>> /\ InBrowser

-----------------------------------------------------------------------------

RoomStep ==
    \/ NextSession \/ Returns \/ Disconnects \/ Publishes \/ Announces
    \/ StopsPublishing \/ Unpublishes \/ Revoked \/ OtherLeaves

Failure ==
    \/ Drops \/ PcFails \/ ReconnectFails \/ TracksNewFails \/ DescribeSilently
    \/ RenegotiateFails

\* What goes on by itself: frames arrive, calls are answered, timers fire.
Progress ==
    \/ \E n \in Numbers : RoomHears(n)
    \/ BrowserHears \/ Opens
    \/ ReplacePc \/ RoomReconnects \/ ReconnectStep \/ Connects
    \/ Begin \/ TracksNew \/ TakeAnswer \/ Describe \/ Renegotiate \/ Renegotiated
    \/ \E b \in bindings : Timeout(b)
    \/ \E r \in retries : RetryFires(r)

Next == RoomStep \/ Failure \/ Progress

Spec == Init /\ [][Next]_vars /\ WF_vars(Progress)

-----------------------------------------------------------------------------
(* Properties *)

Offered ==
    IF media.session = 0 THEN FALSE
    ELSE media.connected /\ media.shown /\ live[media.session] > 0

Hears ==
    IF stream = 0 THEN FALSE
    ELSE /\ carried[stream].media = page.session /\ carried[stream].flows
         /\ carried[stream].key = media.session
         /\ carried[stream].pub = live[media.session]

Excused == givenUp \/ media.session \in unseen

(* Whoever keeps offering a track is heard in the end, whatever was        *)
(* replaced before: publication, session of the publisher, control socket  *)
(* or PeerConnection of the browser, in any order with the state, the      *)
(* announcement, the operations of the queue and the retries.  A request   *)
(* that fails in a way the code does not repeat is excepted, and a session *)
(* that publishes again after an end the browser did not see: nothing in a *)
(* state tells the two publications apart.                                 *)
Heard == Hears \/ Excused
OfferedIsHeard == <>[]Offered => <>[]Heard

(* The room learns that an Agent that keeps offering its voice is heard,   *)
(* whatever became of an earlier acknowledgement.                          *)
VoiceIsReady == <>[](Offered /\ kind = "agent") => <>[](media.ready \/ Excused)

(* The Agent is told to speak only when the negotiation of its session was *)
(* completed by a browser.                                                 *)
ReadyWasNegotiated == media.ready => media.session \in acked
=============================================================================
