----------------------------- MODULE LocalMedia -----------------------------
(***************************************************************************)
(* What the page of one Human sends: its microphone, or its screen.  The   *)
(* capture, its publication in the media session, the control socket and   *)
(* the record of the room change each on their own, and each may fail or   *)
(* be replaced under the others (hooks/useSfuChatRoom.ts, sfu/server.ts,   *)
(* do/RoomSession.ts).                                                     *)
(*                                                                         *)
(* The name of the track does not depend on the session.  Sessions and     *)
(* PeerConnections are told apart only by whether they are the current     *)
(* one: a replacement clears the flags of whoever holds the old one.       *)
(***************************************************************************)
EXTENDS Integers, FiniteSets, SequencesExt

CONSTANTS
    Captures,     \* bound: how often the Human is asked for a device
    Attempts,     \* of reconnectMedia in a row
    MaxStops,     \* bound: clicks on one share to stop it
    MaxFaults,    \* bound: what fails, ends or is lost in one behaviour
    MaxFrames     \* bound: messages on their way when the Human acts

VARIABLES
    kind,       \* "mic" or "screen"
    capture,    \* capture[t]: the readyState of track t, "on" and "off" being live
    held,       \* localAudioTrackRef, localScreenTrackRef; 0 if none
    start,      \* enableMicrophone, toggleScreenShare: the capture it waits for
    page,       \* sessionRef, peerConnectionRef and the progress of connectMediaSession
    timer,      \* mediaReconnectTimerRef is set
    mids,       \* localTrackMidsRef has the track
    queue,      \* negotiationQueueRef
    socket,     \* websocketRef
    up,         \* messages of the socket on their way to the room
    late,       \* messages of sockets that the page has given up
    closing,    \* a tracks/close that the page no longer waits for
    room,       \* the participant's record
    faults,     \* bound
    slips       \* history: the races that the code leaves open

vars == <<kind, capture, held, start, page, timer, mids, queue, socket, up, late, closing, room,
          faults, slips>>

Tracks == 1..Captures
Phases == {"verifying", "asking", "admitted", "transport", "publishing", "up", "closing", "down", "left"}
Operations == [op : {"publish", "close"}, by : {"human", "media"}, track : 0..Captures,
               pc : BOOLEAN, valid : BOOLEAN, step : {"queued", "asked", "confirming", "authorized"}]
Messages == {"mute", "unmute", "unpublish"}

TypeOK ==
    /\ capture \in [Tracks -> {"none", "on", "off", "ended"}]
    /\ held \in 0..Captures
    /\ start \in [step : {"idle", "capture"}, pc : BOOLEAN]
    /\ page \in [phase : Phases, session : {"none", "valid", "stale"}, pc : BOOLEAN,
                 take : 0..Captures, tries : 0..Attempts, fresh : BOOLEAN, joined : BOOLEAN]
    /\ timer \in BOOLEAN /\ mids \in BOOLEAN /\ closing \in BOOLEAN
    /\ queue \in Seq(Operations)
    /\ socket \in {"none", "connecting", "open"}
    /\ up \in Seq(Messages) /\ late \in Seq(Messages)
    /\ room \in [member : BOOLEAN, shown : 0..Captures, muted : BOOLEAN]
    /\ slips \subseteq {"abandoned", "unsaid", "overtaken", "dropped", "displaced", "stoppedTwice", "leftPicking"}

Init ==
    /\ kind \in {"mic", "screen"}
    /\ capture = [t \in Tracks |-> "none"] /\ held = 0
    /\ start = [step |-> "idle", pc |-> FALSE]
    /\ page = [phase |-> "verifying", session |-> "none", pc |-> FALSE, take |-> 0,
               tries |-> 0, fresh |-> TRUE, joined |-> FALSE]
    /\ timer = FALSE /\ mids = FALSE /\ queue = <<>>
    /\ socket = "none" /\ up = <<>> /\ late = <<>> /\ closing = FALSE
    /\ room = [member |-> FALSE, shown |-> 0, muted |-> FALSE]
    /\ faults = 0 /\ slips = {}

Fault == faults < MaxFaults /\ faults' = faults + 1

Live(t) == t # 0 /\ capture[t] \in {"on", "off"}
Muted == ~(held # 0 /\ capture[held] = "on")
Slip(s, when) == IF when THEN {s} ELSE {}

-----------------------------------------------------------------------------
(* The page.  p is the record of what its handlers assign. *)

Now == [capture |-> capture, held |-> held, start |-> start, page |-> page, timer |-> timer,
        mids |-> mids, queue |-> queue, socket |-> socket, up |-> up, late |-> late, slips |-> slips]

Becomes(p) ==
    /\ capture' = p.capture /\ held' = p.held /\ start' = p.start /\ page' = p.page
    /\ timer' = p.timer /\ mids' = p.mids /\ queue' = p.queue
    /\ socket' = p.socket /\ up' = p.up /\ late' = p.late /\ slips' = p.slips

\* sendSocketMessage
Send(p, message) == IF p.socket = "open" THEN [p EXCEPT !.up = Append(@, message)] ELSE p

\* "mute".  Of a page whose screen is followed, the sound is not.
Tell(p, muted) ==
    IF kind = "screen" THEN p ELSE Send(p, IF muted THEN "mute" ELSE "unmute")

\* The answer to a failed close: when the socket is not open, it is not said.
SayUnpublish(p) ==
    [Send(p, "unpublish") EXCEPT !.slips = @ \cup Slip("unsaid", p.socket # "open" /\ room.shown # 0)]

\* enqueueNegotiation
Enqueue(p, op, by, track) ==
    [p EXCEPT !.queue = Append(@, [op |-> op, by |-> by, track |-> track, pc |-> TRUE,
                                   valid |-> p.page.session = "valid", step |-> "queued"])]

\* closePublishedTrack: whether it has anything to close
CanClose(p) == p.page.pc /\ p.page.session # "none" /\ p.mids

Pending == page.phase \in {"verifying", "asking", "admitted", "transport", "publishing", "closing"}

\* reconnectMedia up to the first await of connectMediaSession: one at a time, and the
\* control socket is given up.  After a denial there may be no session: the attempt
\* fails at once and the timer is set, but for the last one.
RequestReconnect(p) ==
    IF Pending \/ page.phase = "left"
      THEN [p EXCEPT !.slips = @ \cup Slip("dropped", Pending)]
    ELSE IF p.page.tries >= Attempts THEN [p EXCEPT !.page.phase = "down"]
    ELSE IF p.page.session = "none"
      THEN [p EXCEPT !.page.phase = "down", !.page.fresh = FALSE, !.page.tries = @ + 1,
                     !.timer = @ \/ p.page.tries + 1 < Attempts]
    ELSE [p EXCEPT !.page.phase = "closing", !.page.fresh = FALSE, !.page.tries = @ + 1,
                   !.socket = "none", !.up = <<>>, !.late = @ \o p.up]

\* reconnectMedia: catch; and the start effect's
MediaFails(p) ==
    IF page.fresh \/ page.tries >= Attempts THEN [p EXCEPT !.page.phase = "down"]
    ELSE [p EXCEPT !.page.phase = "down", !.timer = TRUE]

Rest == UNCHANGED <<kind, room, closing>>
Calm == UNCHANGED faults

\* connectMediaSession between the awaits: the old PeerConnection is closed, the next
\* one takes the live track.
CreatePc(p) ==
    [p EXCEPT !.page.phase = "asking", !.page.pc = TRUE,
              !.page.take = IF Live(held) THEN held ELSE 0,
              !.mids = FALSE, !.start.pc = FALSE,
              !.queue = [i \in DOMAIN @ |-> [@[i] EXCEPT !.pc = FALSE]]]

\* connectMediaSession(true) when its data channels are closed
TornDown ==
    /\ page.phase = "closing" /\ Becomes(CreatePc(Now))
    /\ Calm /\ Rest

\* connectMediaSession(false): the page is in the foreground and verified, or is not.
Verified ==
    /\ page.phase = "verifying"
    /\ \/ Becomes(CreatePc(Now)) /\ Calm
       \/ Fault /\ Becomes([Now EXCEPT !.page.phase = "down"])
    /\ Rest

\* retryVerification
RetriesVerification ==
    /\ page.phase = "down" /\ page.fresh /\ page.session = "none"
    /\ Becomes([Now EXCEPT !.page.phase = "verifying"])
    /\ Calm /\ Rest

\* session: "register", or "reconnect" of the session that the page knows.  Every
\* request under the old session is refused from now on.
RoomAdmits ==
    /\ page.phase = "asking"
    /\ page.fresh \/ (room.member /\ page.session = "valid")
    /\ room' = [member |-> TRUE, shown |-> 0, muted |-> IF page.fresh THEN FALSE ELSE room.muted]
    /\ Becomes([Now EXCEPT !.page.phase = "admitted",
                           !.page.session = IF page.fresh THEN "none" ELSE "stale",
                           !.queue = [i \in DOMAIN @ |-> [@[i] EXCEPT !.valid = FALSE]],
                           !.slips = @ \cup Slip("displaced", held # page.take)])
    /\ UNCHANGED <<kind, closing, faults>>

\* 401: StaleReconnectCapabilityError, a fresh admission follows.
RoomDenies ==
    /\ page.phase = "asking" /\ ~page.fresh /\ ~(room.member /\ page.session = "valid")
    /\ Becomes([Now EXCEPT !.page = [@ EXCEPT !.phase = "verifying", !.fresh = TRUE, !.pc = FALSE,
                                              !.session = "none"]])
    /\ Calm /\ Rest

\* The answer: connectMediaSession installs the session, connectWebSocket
Admitted ==
    /\ page.phase = "admitted"
    /\ Becomes([Now EXCEPT !.page.phase = "transport", !.page.session = "valid",
                           !.socket = "connecting"])
    /\ Calm /\ Rest

\* The request for a session fails, before or after its effect.
AdmissionFails ==
    /\ page.phase \in {"asking", "admitted"} /\ Fault
    /\ Becomes(MediaFails(Now)) /\ Rest

Up(p) == [p EXCEPT !.page.phase = "up", !.page.take = 0, !.page.tries = 0, !.page.joined = TRUE]

\* establishDataChannelTransport, then publishTrack of what the PeerConnection took.
TransportReady ==
    /\ page.phase = "transport"
    /\ LET t == page.take
       IN  Becomes(IF t = 0 \/ (kind = "screen" /\ ~Live(t)) THEN Up(Now)
                   ELSE Enqueue([Now EXCEPT !.page.phase = "publishing"], "publish", "media", t))
    /\ Calm /\ Rest

TransportFails ==
    /\ page.phase = "transport" /\ Fault
    /\ Becomes([MediaFails(Now) EXCEPT !.socket = "none", !.up = <<>>, !.late = @ \o up])
    /\ Rest

\* mediaReconnectTimerRef fires.  A reconnect that succeeded meanwhile did not clear it.
TimerFires ==
    /\ timer /\ page.phase # "left"
    /\ Becomes(RequestReconnect([Now EXCEPT !.timer = FALSE]))
    /\ Calm /\ Rest

\* pc.onconnectionstatechange: failed
PcFails ==
    /\ page.phase \in {"up", "down"} /\ page.joined /\ Fault
    /\ Becomes(RequestReconnect(Now)) /\ Rest

-----------------------------------------------------------------------------
(* The control socket *)

\* socket.onopen tells the truth about the microphone.
Opens ==
    /\ socket = "connecting" /\ room.member
    /\ Becomes(Tell([Now EXCEPT !.socket = "open"], Muted))
    /\ Calm /\ Rest

\* socket.onclose: what was on its way arrives late, or never.
Drops ==
    /\ socket = "open" /\ Fault
    /\ \E kept \in {<<>>, up} :
          Becomes([Now EXCEPT !.socket = "connecting", !.up = <<>>, !.late = @ \o kept,
                      !.slips = @ \cup Slip("unsaid", "unpublish" \in Range(up) /\ kept = <<>>)])
    /\ Rest

\* Participants that are not connected are removed in the end.
RoomForgets ==
    /\ room.member /\ socket # "open" /\ Fault
    /\ room' = [member |-> FALSE, shown |-> 0, muted |-> FALSE]
    /\ Becomes(Now) /\ UNCHANGED <<kind, closing>>

\* handleClientMessage: "mute" and "unpublish".  That the socket is the current one is
\* not compared.
Hear(message) ==
    room' = IF ~room.member THEN room
            ELSE IF message = "unpublish" THEN [room EXCEPT !.shown = 0]
            ELSE [room EXCEPT !.muted = message = "mute"]

RoomHears ==
    /\ up # <<>> /\ Hear(Head(up))
    /\ Becomes([Now EXCEPT !.up = Tail(@),
                   !.slips = @ \cup Slip("overtaken", Head(up) = "unpublish" /\ room.shown = held)])
    /\ UNCHANGED <<kind, closing, faults>>

RoomHearsLate ==
    /\ late # <<>> /\ Hear(Head(late))
    /\ Becomes([Now EXCEPT !.late = Tail(@),
                   !.slips = @ \cup Slip("overtaken", socket = "open" \/ Head(late) = "unpublish")])
    /\ UNCHANGED <<kind, closing, faults>>

-----------------------------------------------------------------------------
(* Negotiations *)

Op == Head(queue)
Dequeue(p) == [p EXCEPT !.queue = Tail(@)]
Step(step) == [Now EXCEPT !.queue[1].step = step]
At(op, step) == queue # <<>> /\ Op.op = op /\ Op.step = step

\* publishTrack succeeds: enableMicrophone goes on to switch the track on.
Published(p) ==
    LET noted == [p EXCEPT !.slips = @ \cup Slip("abandoned", held # Op.track)]
        on == [noted EXCEPT !.capture[Op.track] = IF @ = "off" THEN "on" ELSE @]
    IN  IF Op.by = "media" THEN Up(noted)
        ELSE IF kind = "mic" THEN Tell(on, FALSE)
        ELSE noted

\* Mutant: the track that could not be published is kept.
KeepCapture(p) == Tell([p EXCEPT !.held = 0], TRUE)

\* enableMicrophone: catch, of a track that was attached
DropCapture(p) ==
    Tell([p EXCEPT !.held = 0, !.capture = [t \in Tracks |-> IF t = held THEN "ended" ELSE @[t]]], TRUE)

\* enableMicrophone, toggleScreenShare: catch
NotStarted(p) ==
    IF kind = "mic" THEN RequestReconnect(DropCapture(p))
    ELSE IF held # 0 /\ page.phase # "left" THEN RequestReconnect(p) ELSE p

NotPublished(p) == IF Op.by = "media" THEN MediaFails(p) ELSE NotStarted(p)

\* An operation begins with an offer of its own PeerConnection, and its request is
\* authorized by its session.
Begins ==
    /\ queue # <<>> /\ Op.step = "queued"
    /\ Becomes(IF Op.pc /\ Op.valid THEN Step(IF Op.op = "close" THEN "authorized" ELSE "asked")
               ELSE IF Op.op = "publish" THEN NotPublished(Dequeue(Now))
               ELSE Step("asked"))
    /\ Calm /\ Rest

\* tracks/new is answered, and setRemoteDescription: "publish-confirm" follows.
Answered ==
    /\ At("publish", "asked")
    /\ Becomes(IF Op.pc THEN Step("confirming") ELSE NotPublished(Dequeue(Now)))
    /\ Calm /\ Rest

\* "publish" of the exact session
Confirms ==
    /\ At("publish", "confirming")
    /\ IF Op.valid
         THEN /\ room' = [room EXCEPT !.shown = Op.track]
              /\ Becomes([Published(Dequeue(Now)) EXCEPT !.mids = TRUE])
         ELSE Becomes(NotPublished(Dequeue(Now))) /\ UNCHANGED room
    /\ UNCHANGED <<kind, closing, faults>>

\* A request of a publication fails; the last one perhaps after its effect.
PublicationFails ==
    /\ queue # <<>> /\ Op.op = "publish" /\ Op.step # "queued" /\ Fault
    /\ \/ UNCHANGED room
       \/ Op.step = "confirming" /\ Op.valid /\ room' = [room EXCEPT !.shown = Op.track]
    /\ Becomes(NotPublished(Dequeue(Now)))
    /\ UNCHANGED <<kind, closing>>

\* What follows closePublishedTrack, whatever became of it: toggleScreenShare and
\* onended let the track go, and with it one that is shared by then.
Released(p, t) ==
    IF kind = "mic" THEN [p EXCEPT !.mids = FALSE]
    ELSE [p EXCEPT !.mids = FALSE, !.held = 0, !.capture[t] = "ended",
                   !.slips = @ \cup Slip("stoppedTwice", held \notin {0, t})]

\* tracks/close: the track is closed at the SFU, "unpublish" follows whatever session
\* the room has by then, and the answer is applied.
Closed ==
    /\ At("close", "authorized")
    /\ room' = [room EXCEPT !.shown = 0]
    /\ LET done == Released(Dequeue(Now), Op.track)
       IN  Becomes(IF Op.pc THEN done ELSE SayUnpublish(done))
    /\ UNCHANGED <<kind, closing, faults>>

\* tracks/close was refused, or fails at the SFU.
NotClosed ==
    /\ \/ At("close", "asked") /\ Calm
       \/ At("close", "authorized") /\ Fault
    /\ Becomes(SayUnpublish(Released(Dequeue(Now), Op.track)))
    /\ Rest

\* The page loses the answer to a tracks/close that the Worker has authorized.
CloseUnanswered ==
    /\ At("close", "authorized") /\ Fault /\ ~closing
    /\ closing' = TRUE
    /\ Becomes(SayUnpublish(Released(Dequeue(Now), Op.track)))
    /\ UNCHANGED <<kind, room>>

ClosesLate ==
    /\ closing /\ closing' = FALSE
    /\ room' = [room EXCEPT !.shown = 0]
    /\ Becomes([Now EXCEPT !.slips = @ \cup Slip("overtaken", room.shown # 0)])
    /\ UNCHANGED <<kind, faults>>

-----------------------------------------------------------------------------
(* The Human and the device *)

Idle == start.step = "idle" /\ \A i \in DOMAIN queue : queue[i].by = "media" \/ queue[i].op = "close"
Acts == page.joined /\ page.phase # "left" /\ Len(up) < MaxFrames

\* enableMicrophone, toggleScreenShare: getUserMedia, getDisplayMedia.  The picker is
\* modal, and micRequestRef admits one request.
Starts ==
    /\ Acts /\ Idle /\ held = 0 /\ page.pc /\ page.session # "none"
    /\ \E t \in Tracks : capture[t] = "none"
    /\ Becomes([Now EXCEPT !.start = [step |-> "capture", pc |-> TRUE]])
    /\ Calm /\ Rest

NextTrack == CHOOSE t \in Tracks : capture[t] = "none" /\ \A u \in 1..t - 1 : capture[u] # "none"

\* The device is granted: the track is attached to the PeerConnection of the request
\* and published in the session of the moment.
Granted ==
    /\ start.step = "capture"
    /\ LET t == NextTrack
           got == [Now EXCEPT !.start = [step |-> "idle", pc |-> FALSE], !.held = t, !.capture[t] = "on"]
       IN  Becomes(IF start.pc THEN Enqueue(got, "publish", "human", t)
                   ELSE IF kind = "mic"
                     THEN RequestReconnect(Tell([got EXCEPT !.held = 0, !.capture[t] = "ended"], TRUE))
                   ELSE IF page.phase = "left"
                     THEN [got EXCEPT !.slips = @ \cup {"stoppedTwice", "leftPicking"}]
                   ELSE RequestReconnect(got))
    /\ Calm /\ Rest

\* It is refused.
Refused ==
    /\ start.step = "capture" /\ Fault
    /\ Becomes(Tell([Now EXCEPT !.start = [step |-> "idle", pc |-> FALSE]], TRUE))
    /\ Rest

\* toggleMicrophone of a live track
SoftMutes ==
    /\ kind = "mic" /\ Acts /\ Live(held)
    /\ LET on == capture[held] = "off"
       IN  Becomes(Tell([Now EXCEPT !.capture[held] = IF on THEN "on" ELSE "off"], ~on))
    /\ Calm /\ Rest

Closing(t) == {i \in DOMAIN queue : queue[i].op = "close" /\ queue[i].track = t}

\* toggleScreenShare of a shared screen; nothing keeps the Human from a second click.
StopsShare ==
    /\ kind = "screen" /\ Acts /\ held # 0 /\ page.pc /\ page.session # "none"
    /\ Cardinality(Closing(held)) < MaxStops
    /\ Becomes(IF CanClose(Now) THEN Enqueue(Now, "close", "human", held)
               ELSE [Released(Now, held) EXCEPT !.slips = @ \cup {"abandoned"}])
    /\ Calm /\ Rest

\* track.onended: the device is gone, or the browser's own button ends the share.  A
\* share that is being stopped is not listened to.
DeviceEnds ==
    /\ Live(held) /\ page.phase # "left" /\ Fault
    /\ LET gone == [Now EXCEPT !.capture[held] = "ended", !.held = IF kind = "mic" THEN 0 ELSE @]
           told == Tell(gone, TRUE)
       IN  Becomes(IF Closing(held) # {} THEN gone
                   ELSE IF CanClose(Now) THEN Enqueue(told, "close", "human", held)
                   ELSE IF kind = "mic" THEN [told EXCEPT !.slips = @ \cup {"abandoned"}]
                   ELSE [Released(told, held) EXCEPT !.slips = @ \cup {"abandoned"}])
    /\ Rest

\* leaveRoom, and the cleanup of the page: its captures are stopped, its socket and
\* PeerConnection closed.
Leaves ==
    /\ Acts
    /\ Becomes([Now EXCEPT
          !.page = [@ EXCEPT !.phase = "left", !.pc = FALSE, !.take = 0], !.timer = FALSE,
          !.capture = [t \in Tracks |-> IF t = held THEN "ended" ELSE @[t]],
          !.held = 0, !.start.pc = FALSE, !.mids = FALSE, !.queue = <<>>,
          !.socket = "none", !.up = <<>>, !.late = <<>>])
    /\ room' = [member |-> FALSE, shown |-> 0, muted |-> FALSE] /\ closing' = FALSE
    /\ UNCHANGED <<kind, faults>>

Next ==
    \/ TornDown \/ Verified \/ RetriesVerification \/ RoomAdmits \/ RoomDenies \/ Admitted
    \/ AdmissionFails \/ TransportReady \/ TransportFails \/ TimerFires \/ PcFails
    \/ Opens \/ Drops \/ RoomForgets \/ RoomHears \/ RoomHearsLate
    \/ Begins \/ Answered \/ Confirms \/ PublicationFails \/ Closed \/ NotClosed
    \/ CloseUnanswered \/ ClosesLate
    \/ Starts \/ Granted \/ Refused \/ SoftMutes \/ StopsShare \/ DeviceEnds \/ Leaves

Spec == Init /\ [][Next]_vars

-----------------------------------------------------------------------------

\* Nothing is under way and the page is in touch with the room.
Quiet ==
    /\ page.phase = "up" /\ start.step = "idle" /\ queue = <<>> /\ ~timer
    /\ socket = "open" /\ up = <<>> /\ late = <<>> /\ ~closing /\ room.member

\* The room tells the others that this Human is muted exactly when no sound of it is
\* captured.  After a message of a socket that was given up, or a microphone that ended
\* while it was being published, it may not.
MuteIsTrue ==
    (kind = "mic" /\ Quiet) =>
        (room.muted = Muted \/ slips \cap {"overtaken", "abandoned"} # {})

\* The room shows the track that the page holds, and no other.  Not so where the code
\* leaves a race open: a track let go while it was being published, an unpublish that
\* the closed socket did not take, one that came after the next publication, a
\* reconnect asked for during another.
ShownIsHeld == Quiet => (room.shown = held \/ slips # {})

\* A device records only for a track that the page holds and can stop.  A Human who
\* leaves the room while the picker is open shares the screen to nobody.
CaptureIsOwned ==
    \A t \in Tracks : Live(t) => (held = t \/ slips \cap {"leftPicking", "stoppedTwice"} # {})
=============================================================================
