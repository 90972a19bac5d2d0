--------------------------- MODULE RemoteChannels ---------------------------
(***************************************************************************)
(* How one browser comes to receive the data channel of one other          *)
(* participant: the files of a Human, the App lane of a Human, or the      *)
(* private lane of an Agent (hooks/useSfuChatRoom.ts, sfu/server.ts,       *)
(* do/RoomSession.ts).  Requests to the SFU are answered late, several     *)
(* attempts of one lane may be under way, and only the one that owns the   *)
(* lane may use its answer.                                                *)
(*                                                                         *)
(* Sessions of the publisher and of the browser are numbered; a channel at *)
(* the SFU has a number of its own, so that its replacement under the same *)
(* session and name is another one.                                        *)
(***************************************************************************)
EXTENDS Integers, Sequences, FiniteSets

CONSTANTS
    Attempts,   \* 1 + the length of ROOM_APP_RETRY_DELAYS_MS
    MaxFaults,  \* bound: what is replaced, lost or fails in one behaviour
    MaxFrames,  \* bound: frames on their way to the browser
    MaxOps      \* bound: attempts under way and channels that are open

VARIABLES
    lane,       \* "file", "app" or "direct"
    media,      \* the publisher in the record of the room
    source,     \* the publisher's channel at the SFU
    listener,   \* the browser's participant in the record of the room
    page,       \* the browser's session, its PeerConnection, whether its own channels exist
    socket,     \* the control socket is open
    down,       \* frames on their way to the browser
    up,         \* what the browser has sent
    view,       \* participantMapRef, the publisher's entry
    ops,        \* attempts under way and the one that is ready
    owner,      \* remote...ChannelAttemptsRef, 0 if none
    ready,      \* remote...ChannelsRef, 0 if none
    retry,      \* remoteRoomAppChannelRetriesRef
    faults,     \* bound
    givenUp,    \* history: the last attempt failed and nothing repeats it
    overtaken   \* history: the browser heard of a new session by a publication

roomvars == <<lane, media, source, listener>>
laneVars == <<ops, owner, ready, retry, givenUp, overtaken>>
vars == <<roomvars, page, socket, down, up, view, laneVars, faults>>

None == [session |-> 0, attempt |-> 0, media |-> 0]
Slots == 1..MaxOps
Numbers == 0..2 * MaxFaults + 3
Free == [session |-> 0, media |-> 0, attempt |-> 0, step |-> "free", source |-> 0, closed |-> FALSE]
States == [session : Numbers, ready : BOOLEAN]

TypeOK ==
    /\ media \in [session : Numbers, connected : BOOLEAN, ready : BOOLEAN,
                  told : BOOLEAN, published : BOOLEAN]
    /\ source \in [last : Numbers, open : BOOLEAN, for : Numbers]
    /\ listener \in [session : Numbers, connected : BOOLEAN, ready : BOOLEAN]
    /\ page \in [phase : {"up", "closing", "asking", "granted"}, session : Numbers,
                 pc : BOOLEAN, enabled : BOOLEAN]
    /\ view \in States /\ up \subseteq {"resync", "ready"}
    /\ \A n \in Slots :
          ops[n].step \in {"free", "asked", "answered", "refused", "opening", "ready"}
    /\ owner # 0 => ops[owner].step \in {"asked", "answered", "refused", "opening"}
    /\ ready # 0 => ops[ready].step = "ready"
    /\ owner = 0 \/ (ready = 0 /\ retry = None)
    /\ retry.attempt \in 0..Attempts

Init ==
    /\ lane \in {"file", "app", "direct"}
    /\ media = [session |-> 0, connected |-> lane = "direct", ready |-> FALSE,
                told |-> FALSE, published |-> FALSE]
    /\ source = [last |-> 0, open |-> FALSE, for |-> 0]
    /\ listener = [session |-> 1, connected |-> TRUE, ready |-> TRUE]
    /\ page = [phase |-> "up", session |-> 1, pc |-> TRUE, enabled |-> TRUE]
    /\ socket = TRUE /\ down = <<>> /\ up = {}
    /\ view = [session |-> 0, ready |-> FALSE]
    /\ ops = [n \in Slots |-> Free] /\ owner = 0 /\ ready = 0 /\ retry = None
    /\ faults = 0 /\ givenUp = FALSE /\ overtaken = FALSE

Fault == faults < MaxFaults /\ faults' = faults + 1

-----------------------------------------------------------------------------
(* The room, the publisher and the SFU *)

\* stateFor
State(m) == IF m.connected THEN [session |-> m.session, ready |-> m.ready]
            ELSE [session |-> 0, ready |-> FALSE]

Send(frame) ==
    /\ Len(down) < MaxFrames
    /\ down' = IF socket THEN Append(down, frame) ELSE down

BroadcastState == Send([kind |-> "state", state |-> State(media')])

RoomOnly == UNCHANGED <<lane, listener, page, socket, up, view, laneVars>>

\* The session of the browser that an Agent serves, if the browser is its only Human:
\* projectRuntimeParticipantTransportState.
Wanted == IF listener.connected /\ listener.ready THEN listener.session ELSE 0

\* "reconnect" of a Human, which leaves appDataChannelReady as it was, and
\* agent-participant-data-transport-attach.
NextSession ==
    /\ media.session <= MaxFaults
    /\ lane = "direct" => Wanted # 0
    /\ IF media.session = 0 THEN UNCHANGED faults ELSE Fault
    /\ media' = [session |-> media.session + 1, connected |-> lane = "direct",
                 ready |-> lane = "app" /\ media.ready, told |-> FALSE, published |-> FALSE]
    /\ source' = [source EXCEPT !.open = FALSE, !.for = 0]
    /\ IF lane = "direct" THEN BroadcastState ELSE UNCHANGED down
    /\ RoomOnly

\* The publisher's socket is accepted.
Returns ==
    /\ lane # "direct" /\ ~media.connected /\ media.session > 0
    /\ media' = [media EXCEPT !.connected = TRUE, !.told = FALSE]
    /\ BroadcastState
    /\ UNCHANGED <<source, faults>> /\ RoomOnly

\* webSocketClose, of the publisher.  An Agent's transport goes with its event socket, and
\* its next one is a new session.
Disconnects ==
    /\ media.connected /\ media.session > 0 /\ Fault
    /\ media' = [media EXCEPT !.connected = FALSE]
    /\ BroadcastState
    /\ UNCHANGED source /\ RoomOnly

\* The publisher makes its channel at the SFU: establishDataChannelTransport; for an
\* Agent RuntimeParticipantTransport.Start, and Update, of which nobody is told.
Allocates ==
    /\ media.session > 0 /\ ~source.open
    /\ lane = "direct" => media.connected /\ Wanted # 0
    /\ source' = [last |-> source.last + 1, open |-> TRUE, for |-> Wanted]
    /\ UNCHANGED <<media, down, faults>> /\ RoomOnly

\* deauthorizeParticipantProjection: the Human has another session, or none.
Retires ==
    /\ lane = "direct" /\ source.open /\ source.for # Wanted
    /\ source' = [source EXCEPT !.open = FALSE, !.for = 0]
    /\ UNCHANGED <<media, down, faults>> /\ RoomOnly

\* "datachannel-ready" of the publisher, again on each of its sockets, and
\* agent-participant-data-transport-ready
Announces ==
    /\ media.connected /\ source.open /\ ~media.told
    /\ lane = "direct" => Wanted # 0
    /\ media' = [media EXCEPT !.ready = TRUE, !.told = TRUE]
    /\ BroadcastState
    /\ UNCHANGED <<source, faults>> /\ RoomOnly

\* publish-confirm of a track: it does not wait for the publisher's socket.
Publishes ==
    /\ lane # "direct" /\ source.open /\ ~media.published
    /\ media' = [media EXCEPT !.published = TRUE]
    /\ Send([kind |-> "published", session |-> media.session])
    /\ UNCHANGED <<source, faults>> /\ RoomOnly

\* webSocketMessage: resync, and datachannel-ready of the browser
RoomHears(frame) ==
    /\ frame \in up /\ up' = up \ {frame}
    /\ listener' = IF frame = "ready" THEN [listener EXCEPT !.ready = TRUE] ELSE listener
    /\ Send([kind |-> "state", state |-> State(media)])
    /\ UNCHANGED <<lane, media, source, page, socket, view, laneVars, faults>>

-----------------------------------------------------------------------------
(* The browser's bookkeeping.  t is the record of the variables of a lane. *)

Now == [ops |-> ops, owner |-> owner, ready |-> ready, retry |-> retry,
        givenUp |-> givenUp, overtaken |-> overtaken]

Becomes(t) ==
    /\ ops' = t.ops /\ owner' = t.owner /\ ready' = t.ready /\ retry' = t.retry
    /\ givenUp' = t.givenUp /\ overtaken' = t.overtaken

Remove(t, n) == [t EXCEPT !.ops[n] = Free]

\* cleanupRemoteFileChannel, cleanupRemoteRoomAppChannel: only what owns the lane.  An
\* attempt goes on until its request or its wait ends.
Cleanup(t, n) ==
    IF n = t.owner THEN [t EXCEPT !.owner = 0, !.ops[n].closed = TRUE]
    ELSE IF n = t.ready THEN [Remove(t, n) EXCEPT !.ready = 0]
    ELSE t

\* resetRemoteParticipant for the files, resetRemoteRoomAppParticipant
Reset(t) ==
    LET cleared == [t EXCEPT !.retry = None]
    IN  IF t.owner # 0 THEN Cleanup(cleared, t.owner)
        ELSE IF t.ready # 0 THEN Cleanup(cleared, t.ready)
        ELSE cleared

\* MaxOps: a step that may begin an attempt waits for a slot.
SlotIsFree == \E n \in Slots : ops[n] = Free

\* subscribeFileChannel, subscribeRoomAppChannel and
\* subscribeParticipantDirectReliableChannel up to the request
Subscribe(t, v, attempt) ==
    IF \/ v.session = 0 \/ ~v.ready \/ (lane # "file" /\ ~page.enabled)
       \/ t.owner # 0 \/ t.ready # 0
      THEN [t EXCEPT !.retry = None]
      ELSE LET n == CHOOSE k \in Slots : t.ops[k] = Free
           IN  [t EXCEPT !.owner = n, !.retry = None, !.givenUp = FALSE, !.overtaken = FALSE,
                         !.ops[n] = [Free EXCEPT !.session = v.session, !.media = page.session,
                                                 !.attempt = attempt, !.step = "asked"]]

\* resubscribeRemoteMedia
Resubscribe(t, v, connected) == IF connected /\ v.ready THEN Subscribe(t, v, 1) ELSE t

\* applyRoomState
Apply(t, state) ==
    IF \/ view.session # 0 /\ view.session # state.session
       \/ lane = "direct" /\ view # state
      THEN Reset(t) ELSE t

\* "trackPublished" of a session that is not the one known: the files are reset, the
\* App lane is not, and keeps what was known of its readiness.
ApplyPublished(t, session) ==
    IF view.session = session THEN t
    ELSE IF lane = "file" THEN Reset(t)
    ELSE [t EXCEPT !.overtaken = @ \/ t.owner # 0 \/ t.ready # 0]

\* socket.onmessage
BrowserHears ==
    /\ down # <<>> /\ down' = Tail(down) /\ SlotIsFree
    /\ LET frame == Head(down)
       IN  \/ /\ frame.kind = "state" /\ view' = frame.state
              /\ Becomes(Resubscribe(Apply(Now, frame.state), view', page.pc))
           \/ /\ frame.kind = "published"
              /\ view' = [session |-> frame.session,
                          ready |-> view.ready /\ (lane = "app" \/ view.session = frame.session)]
              /\ Becomes(ApplyPublished(Now, frame.session))
    /\ UNCHANGED <<roomvars, page, socket, up, faults>>

-----------------------------------------------------------------------------
(* One attempt *)

At(n, step) == ops[n].step = step

\* authorize with dataChannelSessionId, and authorize-participant-direct-datachannel
Authorized(op) ==
    /\ media.connected /\ media.session = op.session /\ listener.session = op.media
    /\ lane = "direct" => media.ready /\ Wanted = op.media

InBrowser == UNCHANGED <<roomvars, page, socket, down, up, view>>

\* The Worker's datachannels/new.
Asks(n) ==
    /\ At(n, "asked")
    /\ ops' = [ops EXCEPT ![n].step = IF Authorized(ops[n]) /\ source.open THEN "answered" ELSE "refused",
                          ![n].source = source.last]
    /\ UNCHANGED <<owner, ready, retry, givenUp, overtaken, faults>> /\ InBrowser

\* It fails, or its answer is lost.
AskFails(n) ==
    /\ At(n, "asked") /\ Fault
    /\ ops' = [ops EXCEPT ![n].step = "refused"]
    /\ UNCHANGED <<owner, ready, retry, givenUp, overtaken>> /\ InBrowser

\* isCurrentSubscriberSession and the publisher's session
Current(op) == page.session = op.media /\ page.phase # "asking" /\ view.session = op.session

\* The conditions of scheduleRemoteRoomAppChannelRetry and of its timer.
MayRetry(t, op) ==
    /\ page.phase = "up" /\ page.enabled /\ page.pc /\ page.session = op.media
    /\ view = [session |-> op.session, ready |-> TRUE]
    /\ t.owner = 0 /\ t.ready = 0

\* scheduleRemoteRoomAppChannelRetry.  An attempt that fails while reconnectMedia goes on
\* is not repeated, and one for the files never is.
Schedule(t, op, attempt) ==
    IF lane # "file" /\ attempt <= Attempts /\ t.retry = None /\ MayRetry(t, op)
      THEN [t EXCEPT !.retry = [session |-> op.session, media |-> op.media, attempt |-> attempt]]
      ELSE [t EXCEPT !.givenUp = @ \/ (t.owner = 0 /\ t.ready = 0 /\ t.retry = None)]

\* The catch of the three.
Failed(t, n) == Schedule(Remove(Cleanup(t, n), n), t.ops[n], t.ops[n].attempt + 1)

\* Mutant: the answer is used though the attempt has lost the lane.
AnswerAnyway(n) ==
    /\ \/ At(n, "refused") /\ Becomes(Failed(Now, n))
       \/ At(n, "answered") /\ Becomes([Now EXCEPT !.ops[n].step = "opening", !.ops[n].closed = FALSE])
    /\ UNCHANGED faults /\ InBrowser

\* The answer to datachannels/new: pc.createDataChannel, unless it has become stale.
Answer(n) ==
    /\ \/ At(n, "refused") /\ Becomes(Failed(Now, n))
       \/ /\ At(n, "answered")
          /\ Becomes(IF owner = n /\ Current(ops[n]) THEN [Now EXCEPT !.ops[n].step = "opening"]
                     ELSE Failed(Now, n))
    /\ UNCHANGED faults /\ InBrowser

\* The publisher's end has been replaced.
Dead(op) == op.source # source.last \/ ~source.open

\* waitForDataChannelOpen: the channel opens and is acknowledged.
ChannelOpens(n) ==
    /\ At(n, "opening") /\ ~ops[n].closed
    /\ Becomes([Now EXCEPT !.ops[n].step = "ready", !.owner = 0, !.ready = n])
    /\ UNCHANGED faults /\ InBrowser

\* waitForDataChannelOpen: an opening channel has been closed by Cleanup, or does not open
\* in time because its other end has gone.
OpeningEnds(n) ==
    /\ At(n, "opening") /\ (ops[n].closed \/ Dead(ops[n]))
    /\ Becomes(Failed(Now, n))
    /\ UNCHANGED faults /\ InBrowser

\* onclose: a channel fails, or the SFU closes it because its other end has gone.
ChannelCloses(n) ==
    /\ IF Dead(ops[n]) THEN UNCHANGED faults ELSE Fault
    /\ \/ At(n, "opening") /\ ~ops[n].closed /\ Becomes(Failed(Now, n))
       \/ At(n, "ready") /\ Becomes(Schedule(Cleanup(Now, n), ops[n], 2))
    /\ InBrowser

\* The timer of a retry.
RetryFires ==
    /\ retry # None /\ SlotIsFree
    /\ LET t == [Now EXCEPT !.retry = None]
       IN  Becomes(IF MayRetry(t, retry) THEN Subscribe(t, view, retry.attempt)
                   ELSE [t EXCEPT !.givenUp = owner = 0 /\ ready = 0])
    /\ UNCHANGED faults /\ InBrowser

-----------------------------------------------------------------------------
(* The control socket, the PeerConnection and their replacement *)

\* The control socket closes; what was on its way is lost.
Drops ==
    /\ socket /\ page.phase \in {"up", "granted"} /\ Fault
    /\ socket' = FALSE /\ down' = <<>> /\ up' = {}
    /\ listener' = [listener EXCEPT !.connected = FALSE]
    /\ UNCHANGED <<lane, media, source, page, view, laneVars>>

\* socket.onopen, after the room has accepted the socket and sent it the state
Opens ==
    /\ ~socket /\ page.phase \in {"up", "granted"}
    /\ socket' = TRUE /\ down' = <<[kind |-> "state", state |-> State(media)]>>
    /\ up' = IF page.enabled THEN {"resync", "ready"} ELSE {"resync"}
    /\ listener' = [listener EXCEPT !.connected = TRUE]
    /\ UNCHANGED <<lane, media, source, page, view, laneVars, faults>>

\* pc.onconnectionstatechange and reconnectMedia: the socket is closed, and
\* closeDataChannels is awaited while the lanes go on.
RequestReconnect ==
    /\ page.phase = "up" /\ Fault
    /\ page' = [page EXCEPT !.phase = "closing"]
    /\ socket' = FALSE /\ down' = <<>> /\ up' = {}
    /\ listener' = [listener EXCEPT !.connected = FALSE]
    /\ UNCHANGED <<lane, media, source, view, laneVars>>

\* connectMediaSession: clearAllRemoteFileChannels, clearAllRemoteRoomAppChannels and
\* createPeerConnection
ReplacePc ==
    /\ page.phase = "closing"
    /\ page' = [page EXCEPT !.phase = "asking", !.pc = FALSE, !.enabled = FALSE]
    /\ Becomes(Reset(Now))
    /\ UNCHANGED <<roomvars, socket, down, up, view, faults>>

\* "reconnect" of the browser and its answer
Granted ==
    /\ page.phase = "asking"
    /\ listener' = [listener EXCEPT !.session = @ + 1]
    /\ page' = [page EXCEPT !.phase = "granted", !.session = listener'.session]
    /\ UNCHANGED <<lane, media, source, socket, down, up, view, laneVars, faults>>

\* pc.onconnectionstatechange: "connected"
Connects ==
    /\ page.phase = "granted" /\ ~page.pc /\ SlotIsFree
    /\ page' = [page EXCEPT !.pc = TRUE]
    /\ Becomes(Resubscribe(Now, view, TRUE))
    /\ UNCHANGED <<roomvars, socket, down, up, view, faults>>

\* Mutant: the room is not told that the browser's channels exist.
EstablishesQuietly ==
    /\ page.phase = "granted" /\ ~page.enabled
    /\ page' = [page EXCEPT !.enabled = TRUE]
    /\ UNCHANGED <<roomvars, socket, down, up, view, laneVars, faults>>

\* establishDataChannelTransport, and datachannel-ready
Establishes ==
    /\ page.phase = "granted" /\ ~page.enabled
    /\ page' = [page EXCEPT !.enabled = TRUE]
    /\ up' = IF socket THEN up \cup {"ready"} ELSE up
    /\ UNCHANGED <<roomvars, socket, down, view, laneVars, faults>>

\* reconnectMedia has ended.
Ends ==
    /\ page.phase = "granted" /\ page.enabled /\ page.pc
    /\ page' = [page EXCEPT !.phase = "up"]
    /\ UNCHANGED <<roomvars, socket, down, up, view, laneVars, faults>>

-----------------------------------------------------------------------------

RoomStep == NextSession \/ Returns \/ Disconnects \/ Announces \/ Publishes

Failure ==
    \/ Drops \/ RequestReconnect
    \/ \E n \in Slots : AskFails(n) \/ ChannelCloses(n)

\* What goes on by itself.
Progress ==
    \/ Allocates \/ Retires
    \/ \E frame \in {"resync", "ready"} : RoomHears(frame)
    \/ BrowserHears \/ Opens \/ ReplacePc \/ Granted \/ Connects \/ Establishes \/ Ends
    \/ \E n \in Slots : Asks(n) \/ Answer(n) \/ ChannelOpens(n) \/ OpeningEnds(n)
    \/ RetryFires

Next == RoomStep \/ Failure \/ Progress

Spec == Init /\ [][Next]_vars /\ WF_vars(Progress)

-----------------------------------------------------------------------------
(* Properties *)

(* Every channel that the browser holds open belongs to the lane: no       *)
(* answer that came too late, and no reset, leaves one behind that nothing *)
(* would close and whose messages would be taken.                          *)
NoStrayChannel ==
    \A n \in Slots :
        (ops[n].step \in {"opening", "ready"} /\ ~ops[n].closed) => n \in {owner, ready}

(* What a lane delivers was subscribed on the present session of the       *)
(* browser and comes from the session of the publisher it knows, unless it *)
(* heard of a new one by a publication.                                    *)
LaneIsCurrent == ready # 0 => (overtaken \/ Current(ops[ready]))

Reachable ==
    /\ media.session > 0 /\ media.connected /\ media.ready /\ media.told /\ source.open
    /\ lane = "direct" => Wanted # 0 /\ source.for = Wanted

Joined ==
    IF ready = 0 THEN FALSE
    ELSE ops[ready].media = page.session /\ ~Dead(ops[ready])

\* The other end of the channel has been replaced, and the SFU has not closed this one.
Deaf == IF ready = 0 THEN FALSE ELSE Dead(ops[ready])

(* Whoever stays reachable is joined in the end, whatever was replaced     *)
(* before and however late it was heard of.  Excepted are a lane whose     *)
(* attempts are used up or failed during a reconnect, a dead channel that  *)
(* the SFU does not close, and a session first heard of by a publication.  *)
Served == Joined \/ Deaf \/ givenUp \/ overtaken
ReachableIsJoined == <>[]Reachable => <>[]Served

\* The lane holds no channel but its own, and that one is current.
LaneIsOurs == NoStrayChannel /\ LaneIsCurrent
=============================================================================
