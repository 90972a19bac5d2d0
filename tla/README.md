# Formal models of Free4Chat

This directory holds TLA+ models of the parts of Free4Chat whose correctness
depends on the order in which independent actors act: the RoomSession Durable
Object (`app/src/do/RoomSession.ts`), the stateless Workers in front of it and
the Agent runtimes that talk to both. TLC checks the models on small instances;
TLAPS proves the main theorems for every size. `PROJECT.json` ties every
definition to the lines it stands for.

## The system and its parts

A *room* is one Durable Object. Humans reach it through a control WebSocket from
the browser, Agents through MCP tools and an event WebSocket kept by the Go agent
runtime. All durable state of a room is one record that every handler loads,
normalizes, changes and saves; a Durable Object runs one handler at a time but
lets another in whenever a handler awaits external I/O. Media flows through
Cloudflare Realtime (the SFU), which knows only sessions and tracks (mids): the
right to carry a track exists only in the room's record, so the room must be able
to close every track it ever allowed.

| Part | State | Operations | What is hard | What makes it correct |
| --- | --- | --- | --- | --- |
| Media grants and cleanup (`do/RoomSession.ts`, `mediaGrantTransitions.ts`, `realtimeMedia.ts`, `mediaEffects.ts`) | grants (Meeting Notes, Live Transcript, Agent Voice), each Agent's session and mids, the cleanup queue | grant start/stop, host update, leave, lease sweep, attach, track registration, cleanup retry, normalization | a grant withdrawn while the SFU is being called; a record reloaded after an await; two grants on one session | no live track is forgotten; cleanup never hits authorized media; grants are independent |
| SFU Worker (`sfu/server.ts`) | none: each request holds its own | agent-session, tracks, compensation, hand-off | several Durable Object calls per request, any of which may now be refused | what was created and then refused is closed or handed over |
| Permission requests (`RoomSession.ts`, `permission.ts`) | pending requests with a deadline | request, decision, cancel, expiry, departure | the decision races the deadline, the Agent's departure and the Host's cancellation | exactly one terminal outcome, announced exactly once |
| Room lifecycle and alarm (`RoomSession.ts`, `roomExpiry.ts`) | leases, grace periods, the expiry deadline, one alarm | join, reconnect, heartbeat, sweep, expiry | one alarm serves many deadlines and is set anew by every handler | every deadline is eventually acted on; an occupied room never expires |
| Agent events (`RoomSession.ts`, `agent/internal/free4chat/resident_events.go`, `agent/internal/runtime/runtime.go`) | message and attachment ring on one sequence, cursors, waiters, resident sockets; the runtime's receipt cursor and queue | append, upload, wait, push, heartbeat, resync, rejoin | duplicate, lost and out-of-order delivery; a ring that forgets; a socket cursor that goes back; a record saved after a wait | the events an Agent takes up are the room's, in order, or it is told of a gap; nothing is answered twice |
| Collaboration registry (`do/collab.ts`) | tracked requests, rebuilt from the ring | request, accept, outcome, dedup, rebuild | replayed ids, late outcomes, eviction at the bound, a refused save | an answer comes from whom was asked; a retry finds the first answer |
| Starting a Task (`RoomSession.ts`, `session_discovery.go`, `session_adoption.go`) | the Human's pending request, the Agent socket's slot, the armed preparation, briefs | list, prepare, cancel, create, claim, expire | expiry on both sides, lost streams, a trigger that races the cancellation | a Task runs on what was prepared for it, or afresh, never on another's |
| Turns of a Task (`RoomSession.ts`, `taskScope.ts`, `task_control.go`, `task_execution.go`, `turn_retry.go`) | queue, turn at the prompt, markers, published execution | instruct, interrupt, steer, retry, publish, evict | a control that arrives when its turn is over; an instruction put first; a stale snapshot | a cancel hits the turn the Human saw; no instruction is skipped or settled twice |
| Generated Apps (`RoomSession.ts`, `generatedRoomApp.ts`, `RoomContent.tsx`) | publication in the record, bundle chunks beside it, shared state, what each page shows | publish, load, boot, update, clear, evict | chunk writes around an awaited save; pages that lag | what the record names can be read; an accepted update stays |
| Curated Apps (`RoomSession.ts`, `common/roomApp.ts`, `RoomAppHost.tsx`) | announced instances in socket attachments, requests in flight, the catalog | announce, withdraw, chat, request, answer, disconnect | handlers that wait for one fetch and then write what they read before | a chat's Agent knows the App announced before it; no request waits on a page that is gone |
| Live Transcript segments (`do/liveTranscript.ts`, `runtime/live_transcript.go`, `daemon/live_transcript.go`) | epoch, bounded segment list; a lease per Host; a generation of recognition | start, stop, append, retry, load, read | a late or repeated segment, two residents of one Host, an epoch that changes under a recogniser | a segment is written once, in the epoch it was spoken in; readers are told of gaps |
| Participant data transport, Agent Voice readiness, Human SFU routes, browser media sessions | sessions, tracks, channel generations | attach, subscribe, renegotiate, reconnect | three independent lifetimes: publication, control socket, PeerConnection | whoever is offered a track comes to hear it; a page shows what it sends |
| Workspace snapshots (`RoomSession.ts`, `do/surface.ts`, `WorkspaceSnapshots.tsx`) | a surface per Agent in the record, its image in chunks beside it, the images a page shows | publish, clear, leave, read, evict | uploads that save the record of before their body came; chunks written and deleted around the save; images that change while a page asks for them | what the record names can be read; the bound holds; a page shows the image it names |
| Composer and files (`TextChatCard.tsx`, `useSfuChatRoom.ts`, `messageReconciliation.ts`) | draft, send queue, file channel, timelines | submit, store a copy, send, receive | the parts of one submission fail on their own; two paths with orders of their own | a text follows its file; both timelines agree |
| Agent activity and live views (`activity.go`, `RoomSession.ts`) | activities of the Runtime, of the room and of the page; a stored revision | observe, publish, clear, replace a stream, evict | read under a lock and published after it; memory that an eviction empties | pages show what the Agent does; a published view stays |
| Go harness, daemon, capability, media, speech, voice | processes, leases, pipelines | start, probe, stop, route | process exit, IPC, audio timing | one owner per resource |
| MCP server, CLI, docs site | none, files | tool schemas, commands | - | - |

## Plan

Modules in the order in which they are (to be) written:

1. `MediaGrants`, `RoomMedia`, `RoomMediaProofs`: grants, requests, cleanup; every safety
   property proved. *Written.*
2. `RoomPermissions`: a request from the Harness call to its one outcome, across
   the Durable Object, the event stream and the Go runtime; every safety property
   proved in `RoomPermissionsProofs`. *Written.*
3. `RoomAlarm`, `RoomAlarmProofs`: the single alarm over leases, graces, expiry and
   cleanup retry, in ticks; no missed deadline proved. *Written.*
4. `EventLog`, `AgentEventStream`: rings, cursors, waiters, resident sockets and
   the runtime with its queue and reconnect loop, refining an abstract log with one
   reader per Agent; the refinement proved in `RoomFeedsProofs`. *Written.*
5. `TaskRegistry`, `TaskTurns`, `TaskTurnsProofs`, `TaskSessions`, `TaskSessionsProofs`:
   requests and their answers, turns, starting on an existing conversation; the
   properties of the last two proved. *Written.*
6. `GeneratedApps` (with the turns in `MCTasks`), `RoomAppHosts` (with the starts in
   `MCRoomPages`), `Surfaces` (with the feeds in `MCRoomFeeds`); their safety proved in
   `RoomPagesProofs`. *Written.*
7. `RemoteTracks`, `RemoteChannels` (composed by `RemoteMedia`): what one browser
   receives of one other participant; its safety proved in `RoomPagesProofs`. *Written.*
8. `LocalMedia` (also in `MCRoomPages`): what a page itself sends. *Written.*
9. `LiveTranscriptLog`, `FileMessages`, `AgentProjections` (composed with
   `AgentEventStream` by `MCRoomFeeds`): transcript, files, activity; the safety of the
   transcript proved in `RoomFeedsProofs`. *Written.*
10. `TaskStarts` (also in `MCRoomPages`): the Start Task dialog. *Written.*
11. Proofs of the other components. *See "What is proved".*

Abstract specifications worth stating: the ledger of carried tracks that
`RoomMedia` implements (a track is *held*, *owed* or *closed*); a permission as a
single register written at most once. The log with one
reader per Agent (`EventLog`) is the one that is written down as a module.

## MediaGrants and RoomMedia

`MediaGrants` holds the pure decisions as operators over the room record `r`, one
per function of the source: `Stage` is `stageAgentMediaRevocation`, `Depart` the
departure of Agents, `Normalize` the repairs of `normalizeRoom`. `RoomMedia` is the
state machine.

* `room` is the persisted record, `enabled` the deployment's `AGENT_MEDIA_ENABLED`.
* `worker[w]` is a Worker request: idle, admitted (between `agent-media-admit` and
  `agent-media-attach`), authorized, cleared (the SFU is being called), created,
  refused, unresolved (the compensating close was not confirmed).
* `closers` are the `attemptCleanupNow` calls between snapshot and reconciliation.
* `ingress` and `egress` are what the SFU carries: Human audio to an Agent, an
  Agent's voice to the Humans.
* `forfeited` is a history variable: what was owed by a room that expired.

Every handler starts from `Load`, the normalized record, because `activeRoom` and
`loadRoom` persist the repairs even when the handler then refuses. A handler is one
step up to its first external await; the code persists before it awaits, so the
rest of it is `closers`. A Worker request is one step per call it makes.

Abstractions: a track is the pair of session and mid, and the queue (one entry per
session with a duplicate-free mid list) is a set of tracks. A `tracks` request
creates one track. The SFU never assigns an id again that anybody still knows
(`Known`), and a created track has a mid. Participant ids are random and never
reused, so `RegisterAgent` waits until no request names the id. Humans appear
through what they do. `Depart(r, enabled, D)` removes the Agents D at once, which
gives the record the code reaches by removing them one by one. A Worker does not
die in the middle of a request.

### Runs

| Run | Instance | Shows |
| --- | --- | --- |
| `cleanup` | 1 Agent, 1 Host, 2 sessions of 2 mids, 1 request, 2 overlapping close attempts | `NoForgottenSubscription`, `QueueDrainsOnlyClosed` |
| `grants` | 2 Agents, one of which moves between 2 Hosts, 2 sessions of 1 mid, 2 requests, a Host ready for STT, TTS or both | `MediaImpliesGrant` (`SubscribedImpliesGrant`, `PublishedImpliesGrant`), `CleanupSparesTrackedMedia`, `GrantsAreIndependent` |

`grants` restricts the steps (`ListenOrSpeak` in `MCRoomMedia`): either two Agents
share the listening grants of one Host until one of them moves, one request at a
time, or one Agent speaks for two Hosts with two concurrent requests. Following both at once is out of reach
and adds no shared state: a session's subscriptions and its publication are staged
by separate operators. A Host that loses both kinds in one report (`BothOrOne` leaves
it to `cleanup`) does to each what losing it alone does. In `cleanup` a voice is granted and withdrawn but not used
(`VoiceStaysSilent`).

The bounds: two sessions are enough for a rotation that leaves one behind, two
mids for a queue entry that grows while a close of the other mid is in flight, two
Agents for a hand-over, two requests for a registration that overtakes another,
two close attempts for a reconciliation from an old snapshot. In `cleanup`
`MaxPendingEntries = 1` makes the queue's capacity bite at once (the code has 16). `MaxClosers` bounds the
attempts in flight and only disables steps that would start one more. Agents,
sessions, mids and requests are symmetric.

### Two behaviours of the code

Both are steps of the model and hazards of `PROJECT.json`, where the properties
say how far they hold.

A voice may be forgotten: an Agent's event socket drops; the next load finds the
Agent Voice grant invalid (`NormalVoice` wants a connected Agent), withdraws it and
erases `agentPublishedMid` without queuing it. The SFU goes on carrying the voice
and no record names it. The explicit revocations (`agent-voice-set`, host update,
leave, lease sweep) all queue it. `PublishedImpliesGrant` is about the record only.

A stop may miss a subscription: stopping Live Transcript selects the Agents to close
by their *current* Host. An Agent that moved after subscribing keeps its subscription
until it leaves, rotates its session or is the note-taker that stops, and until then
receives Human audio without any grant, against DEVELOPMENT.md:243 ("A valid Agent token
alone is never enough to receive Human audio"). The resident runtime derives its Host id
from its seed and the room and does not move; another client of `update_runtime_host` may.
`SubscribedImpliesGrant` is therefore about the Agents that `StaysOnHost`, and holds of
these although others around them move.

### Proofs

`RoomMediaProofs` proves `TypeCorrect` (`Spec => []TypeOK`) and `NeverForgotten`
(`Spec => []NoForgottenSubscription`).
Part 1 shows that each operator over the record keeps it sound and never lowers
what it owes (recorded subscriptions plus queue): `Keeps(r, q)` is reflexive on
sound records, transitive, and holds of every operator, so a handler's proof is a
chain of `Keeps`. Part 2 is the inductive invariant `IInv`. `NoForgottenSubscription`
is not inductive: it needs that a close attempt's confirmed tracks are no longer
carried (else reconciling would drop a live track), that a voice request's track is
not a subscription (else recording it as a publication would lose it), and that a
request that gets recorded names an Agent, a session and a mid. Part 3 is one lemma
per group of actions, part 4 the temporal argument.

Its second half proves `MediaFollowsGrants` (`MediaImpliesGrant`),
`CleanupSpares` (`CleanupSparesTrackedMedia`), `GrantsIndependent`
(`GrantsAreIndependent`) and `QueueDrains` (`QueueDrainsOnlyClosed`). Its invariant
`GInv` adds to `IInv` that every track is in one place: in one participant's record, in
the queue and the attempts that close it, or in the hands of one request. Without this,
a request that is recorded late could put a track into a record that an attempt is
about to close. `OwnTracks` and `Spared` say so of a record, `ClosersSpare` of the
attempts, `HandsAreApart` of the requests, `ConfirmedIsSilent` that what an attempt
confirmed is not carried; `Follows` is the property of grants for a record. Part 1
shows `Handled(r, q, e)` of every operator: what leaves the records goes into the queue
and nothing else does, grants are followed, and media that a surviving grant authorizes
stays. Part 2 chains these through the handlers, part 3 is the temporal argument.

Nothing about liveness is claimed for this module: no fairness of the SFU is justified
by the code.

## RoomPermissions

A Harness that must not act without an approval calls its runtime
(`permissions.go`), which parks the call, posts the request to the room and waits
for a message that comes back over the resident event stream.

* `room` is the part of the record that matters: members, the index of pending
  requests, and every message ever appended; a handler may look only at those the
  ring retains (`Retained`, the last `MaxMessages`).
* `due` is the set of requests whose `expiresAt` has passed. `DeadlinePasses` is the
  clock; the lease is the choice of an Agent that sends no heartbeats (`Alarm(D)`).
* `link`, `pushed`, `wire` are the event socket, the cursor the room keeps on it and
  the envelopes under way. A socket that drops (`Lose`) may still deliver what it
  holds until the runtime notices (`NoticeLoss`), which fails every parked call.
* `received` is the runtime's receipt cursor, `call` the Harness calls, `post` and
  `sends` the HTTP request. The HTTP answer may be lost after the room recorded the
  request (`PostReturns`).

`Ingest`, `Resolve`, `Expire` and `Closed` are the functions of the Durable Object
over the record; every handler starts from `Load`, which drops the requests of
Agents that are gone. `Publish` is what each save is followed by: each open stream
gets the events that are new to its cursor.

Abstractions: the correlation id stands for the whole request, so that two posts of
one id carry the same content; the refusals for malformed content are left out.
Envelopes that carry no outcome of the Agent's own requests are not sent: they only
move cursors over events the Agent does not see. When several requests end at once
their announcements follow the order of presentation. A heartbeat is sent only when
the two cursors differ; otherwise it changes nothing modelled here.

| Run | Instance | Shows |
| --- | --- | --- |
| `permissions` | 1 Agent, room and runtime bound of 1, ring of 2; either 2 requests posted once, or 1 request posted up to twice among 2 chats, with fairness | `AnswerIsTheDecision` (with `OneOutcome`), `ParkedCallIsServed`, `EndsAnnounced`, `RequestsAreSettled` (`RequestEnds`, `OutcomeReleasesCall`) |

Two requests are enough to confuse one with another, a bound of one pending request
to refuse, a ring of two to forget a presentation or an outcome. An Agent has one open
request at a time, so that the end of *its other requests* by an overdue click
(RoomSession.ts:7060) is left to the theorems, which have no such bound. `MaxSends`,
`MaxChats` and `MaxWire` bound what is counted. These systems may
stop (every call done, every bound reached), so deadlock is not checked there.
`MCFairness` assumes that the deadline passes or the call goes on, that the alarm is
delivered and that the loop of the stream runs, each weakly; nobody has to decide and
no turn has to end.

Another behaviour of the code, which `EndsAnnounced` excepts: the lease sweep ends the requests of a departing Agent only
`if (expiredHuman) if (expiredAgent && ...)`, which no participant satisfies. The
Agent is deleted with its requests pending, and the next load drops them without a
message. The model also has the click on an overdue request that passes its Agent as
*departed* (RoomSession.ts:7060), so that all its other requests end before their
deadlines; each of these ends is announced once (`EndsAnnounced`).

### Proofs

`RoomPermissionsProofs` proves `TypeCorrect` (`TypeOK`), `DecisionsAreTrue`
(`AnswerIsTheDecision`), `CallsAreServed` (`ParkedCallIsServed`) and `EndsLeaveOutcomes`
(`EndsAnnounced`). None of them is inductive. `Good` is what the record and the ring know
of each other: a pending record stands for the last message of its request, which has
no outcome that the ring remembers; a request has at most one outcome in the ring; the
messages of a request name the Agent of its call. `Grown` is what every handler does:
the ring keeps what it had, nobody joins, and a request that ends leaves an outcome
unless its Agent was gone. Three cursors then have to be related (`Covered`): an outcome
that the runtime has not caught up with and that the room's cursor has passed is in an
envelope on the wire, and no envelope in front of it carries a cursor beyond it. This is
why `Heartbeat` and `Receive` lose nothing. `Served` is `ParkedCallIsServed` without the
wire, for every call whose POST was accepted; `Covered` puts the wire back.

Only model-checked: `RequestsAreSettled`, which is a liveness property.

## RoomAlarm

The Durable Object has one alarm. `scheduleNextAlarm` sets it to the earliest of all
deadlines, and nearly every handler calls it.

* `room` is the record: members, who is `connected`, `expires` (ticks left until
  `expiresAt`, `NO_EXPIRY` while occupied) and whether closes are `pending`.
* `age[p]` is the time since `lastSeenAt`, `alarm` the ticks left until the alarm.
  Relative clocks keep the state space finite with no horizon. Ages saturate at
  `MaxAge`, above every duration that is compared with them.
* `sock[p]` is the socket that bears the participant's `connectionNonce`: none, open,
  or dropped with its close event still to come. `stale` has the participants with
  an older socket whose close is to come. A Human's older socket that stays open
  is one of these: the code counts only the newest.
* `since[a]` is the runtime's ticker, `attempt` whether closes are in flight,
  `waited` how long the pending queue has been left alone.

`Save` is `saveRoom` with `scheduleNextAlarm`; `ConnectHuman` is the one handler here
that saves and leaves the alarm as it is. `AgentCall` stands for each authenticated
call of an Agent that sets `lastSeenAt` and schedules. `AttemptEnds` is the part of
`attemptCleanupNow` after its fetches, against a record that may have changed or
gone. Left out: permission deadlines, refusals of duplicate ids and full rooms.

Time is punctual: `Tick` waits for a due alarm and for a due heartbeat of an open
stream. The platform promises the first only approximately; a late alarm makes every
deadline late by as much, which no property here is about. A participant whose
runtime is stalled behind an open socket is out of scope.

| Run | Instance | Shows |
| --- | --- | --- |
| `alarm_deadlines` | 1 Human, 1 Agent, fairness; a tick is 15 s: lease 6, grace 2, retry 2, heartbeat 2; the empty-room time shortened to 8 | `NothingOverdue`, `OccupiedNeverExpires`, `OpenSocketStays`, `AbsenceEnds` (`EmptyRoomEnds`, `AbsentHumanGoes`) |
| `alarm_retry` | 2 Agents, the same durations | counterexample to `RetryBeforeLease` |

One Human and one Agent show every kind of deadline and how one handler overwrites
another's alarm; the proofs are for any number. The empty-room time need only exceed
the others. Fairness: time passes, the alarm is delivered, a dropped socket's close
is delivered, and a runtime with an open stream sends its heartbeats.

`alarm_retry`: the retry deadline is `Date.now() + 30 s` *each time* the alarm is set,
so heartbeats (every 30 s per Agent, lease / 3) and calls keep moving it; no alarm fires
and the failed close waits beyond a whole lease, which is what the constant was
introduced to prevent.

### Proofs

`RoomAlarmProofs` proves for arbitrary participants and durations (positive, below
`NO_EXPIRY`, the heartbeat below the lease, ages counted beyond lease and grace; the
two kinds disjoint; `NoRoom` not a record):

* `TypeCorrect`: `Spec => []TypeOK`,
* `NoDeadlineMissed`: `Spec => []NothingOverdue`,
* `OccupiedRoomStays`: `Spec => []OccupiedNeverExpires`,
* `OpenSocketKeepsPlace`: `Spec => OpenSocketStays`.

`NothingOverdue` is not inductive: a tick may make a deadline late unless the alarm
stands before it. `IInv` adds `AlarmCovers`, that the alarm is no later than the
earliest deadline, and `Sound`, what a record and its ages must satisfy to be saved.
`SaveKeeps` shows once that saving a sound record restores the invariant; each handler
then only has to show its record sound. `ConnectHuman` does not schedule and needs
that it leaves fewer deadlines, `Tick` that all deadlines and the alarm come nearer
together. `OpenSocketKeepsPlace` adds `SocketIsAlive`: an open Human is connected, an
open Agent's last sign of life is no older than its runtime's last heartbeat.

Only model-checked: the two liveness properties (fairness is out of the prover's
reach).

## EventLog and AgentEventStream

`EventLog` says what the event stream promises: a log that only grows, a position of
each Agent (`pos`) and the events that became its business (`settled`). A position moves
forward over whatever the Agent may see, which settles it. `AgentEventStream` implements
it with the receipt cursor for `pos`, and for `settled` the events that are queued,
answered, or announced as gone (`gaps`); `void` ends the promise (`overwritten`).

`AgentEventStream` is the code. `room` has the two rings (messages and attachments)
that evict independently and share one sequence. A *resident* Agent has an event
socket (`sock`: its cursor and the frames under way); a *poller* calls
`wait_for_events` (`held`, `reply`). The runtime side is `cursor`, `reader` (the frame
being applied: `readResidentEvents` takes the cursor at the start of a frame and
writes it at its end), `late` (the same for a reader whose stream was given up),
`pending`, `ahead` and `delivered`. Uploads load the record, wait for the body of
their request and save what they loaded (`BeginUpload`, `EndAttachment`, `EndSurface`). Evictions of
the instance lose the held waits and keep socket attachments.

| Run | Instance | Shows |
| --- | --- | --- |
| `feeds` (part `events`) | 1 resident, 1 poller, rings of 1, 3 entries, 1 upload, 1 frame under way | `EventsAreServed` (`NobodyWaitsOnEvents`, `AnsweredOnce`), and `LogKept`: the refinement of `EventLog` |
| `surface_upload` | the same with 2 entries | counterexample to `SurfaceLeavesEvents` |

`OneRuntime` restricts the passing run: one of the two runtimes is at work at a time
(they share only the rings), an event is for all Agents or for none, and a behaviour
ends where the record changes under an upload, because the room then rolls back
(`surface_upload`) and nothing is promised. Rings of one make every second entry
evict; three entries are a gap in front of an event and one behind it.

`surface_upload`: `handleSurfaceUpload` loads the room, awaits `arrayBuffer()` and
saves the record it loaded: a message of the time between is gone and its sequence is
given again. `handleAttachmentUpload` does the same.

Left out: scopes, the byte cap of an envelope (an over-cap backlog closes the stream
for good by design), and the bound of the runtime's queue, which `TaskTurns` has.

### Proofs

`RoomFeedsProofs` proves, for any Agents, any rings and any number of uploads and
frames on their way, `LogIsKept` (`Spec => LogKept`, the refinement), `EventsServed`
(`EventsAreServed`) and `TypeCorrect` (`TypeOK`).

`Tells(h, a, f, c)` says that the frame `f` tells Agent `a` every event after `c`, up to its
own cursor, or counts it as gone. `FrameTells` shows it of what the room sends, from
`RecordOk`: from the floor on the rings miss no sequence, except staged briefs, which
nobody reads. Every way to the runtime then has its starting point: an answer tells
everything after the runtime's cursor, a frame that is being applied everything after the
cursor that was read first (`through`), which is behind the runtime's if another reader was
faster. The frames of a socket are the hard part: a single frame tells everything only
after the frame in front of it, and a heartbeat sets the socket's cursor back, so that
frames overlap. `WireOk` says that up to each frame the socket has carried whatever is new
to the runtime (`Base`: what it has received, or will have when it ends the frame it is
applying); `StreamOk` adds that nothing is new beyond the socket's cursor. `PushOk` shows
this of any push, `RestOfWire` of the frame that is taken off. `Follows` collects it per
Agent, with the equation that carries the refinement: what is settled is exactly what the
Agent may see up to its cursor. `AdvanceSettles` is that step; `LogStep` maps every step
to `Record`, `Advance` or a stutter. `Once` is about the queue and holds of a stale record
too: a trigger waits once, and an event that had its turn is marked (`ahead`) or behind
`deliveredThrough`, which never goes back (`DeliveredFacts`).

`NumberLemmas` has what several of these proofs need of numbers and sequences.

## Tasks

Four modules without shared state. Two modules for TLC each run several components, a
behaviour being one of the module that `part` names: `MCTasks` (run `tasks`) extends
`TaskTurns` and adds the registry and the generated App of a Task; `MCRoomPages` (run
`pages`) extends `TaskSessions` and adds the dialog, the curated Apps and what a page
itself sends.

* `TaskRegistry`: the tracked requests of `CollabRegistry`, the ring they are rebuilt
  from (`Rebuild` when a cold instance first looks), requests, retries and answers,
  and the save that may be refused after the registry took the request (`Save`).
* `TaskSessions`: a Human asks the room to prepare a Task on a conversation the Agent
  has. `human[h]` is the Human's socket with its one pending request, `slot` the
  pending control of the Agent's socket, `busy`, `adoption`, `declined` and `admitting`
  the runtime's `activeSessionControl`, armed preparation, refused preparations and
  the trigger at the admission boundary. Expiry is a flag per record. The brief is an
  attachment that the Human may discard.
* `TaskTurns`: instructions are queued (`pending`; one for a full queue is dropped without
  a word, runtime.go:1896), one has the lane (`lane`), and its turn goes through the steps
  of `runTurn`: it may end before it is active (`NotBegun`), it becomes active (`Begin`),
  the Harness works on its prompt (`Prompt` to `Return`), it takes what an interrupt has
  left (`Consume`) and settles (`Settle`). A failed turn is retried or given up with what
  waits behind it; one that was deferred, or ended for want of events or of the acceptance
  of its Task, costs no retry. A steer puts an instruction first, and two goroutines publish
  the execution state in two steps each (`Snapshot`, `Enqueue`) through a queue that keeps
  the newest.

  A control cancels in two steps: the reader compares its turn with the active one (`Check`)
  and then writes a cancel that names no turn, and marks the turn (`Dispatch`). Between them
  it holds `turnControlMu`, which `grip` models by the turn that was found; the turn's own
  steps that take the mutex (`Begin`, `Consume`, `Settle`, `Snapshot`) wait for
  `ControlFree`, those that do not (`Prompt`, `Return`) go on. `working` is the turn on
  whose prompt the Harness works, hence what a cancel hits.

* `TaskStarts`: the Start Task dialog of a page. `dialog` and `picker` are what it
  shows, `req` what the page knows of its requests, `pending` those that still count,
  `posts` and `discards` the uploads of a brief and the requests to discard one. The
  room's side is that of `TaskSessions` in short: `ask`, `slot`, `created`, `store`.

| Property | Says |
| --- | --- |
| `ExchangesStay` | an answer comes from whom the request asked and goes to whom made it (`AnswersReturnToTheAsker`); a repeated request or answer finds the first, through restarts and evictions (`RetriesCollapse`) |
| `StartStays` | a Task that claimed a preparation runs on the conversation prepared (`ClaimedIsBound`); the room creates a Task because the runtime prepared only if it did (`CreatedWasPrepared`); the brief of a created Task is not discarded (`BriefOfTaskStays`) |
| `DialogIsTrue` | what the dialog says of a start is so (`StartIsTrue`); a failed start leaves no brief in the room (`NoBriefIsLeft`); the list on show is that of the chosen view (`RowsAreOfTheView`) |
| `OnlyThatTurnIsCancelled` | while a cancel is about to be written, the Harness works on the prompt of the turn the Human saw, or on none; the mark it leaves is gone with that turn |
| `HandledOnce` | the delivered cursor passes no instruction that still waits (`NothingIsSkipped`); none has a second turn (`SettledOnce`) |

Bounds (`SessionBound`, `TurnBound`): the registry has 2 requests, a ring of 2 and room
for 3; in one attempt to start `t1` one thing goes wrong (a reconnect, a new stream, an
expiry, a refusal or a forgotten one) besides the frames lost with it, a cold registry
and a second Task of the same Human, and `StartsStay` covers any number; turns have 3 instructions, 1 retry and at most one
of: a second stream, a lost one, a lost update, a failed turn, a deferred one, an
eviction. Two simultaneous faults of the turns are out of TLC's reach; the theorems about
turns have no such bound. `DialogIsTrue` excepts a start that the page gave up after it
was sent (`unheard`), a brief of which no page knows (`left`), and a project that was
still chosen when the dialog turned to conversations (`carried`).

Behaviours of the code that the model has and the hazards name: a preparation that
expired while another Task's was armed lets the first Task start afresh, although it
was declined (session_adoption.go:604 against :463); an accepted preparation whose
Task is never created holds the only slot until some Task is admitted (:156); an older
execution snapshot may be queued last, and the room then refuses to interrupt the turn
that runs (task_execution.go:170 against :201); a request refused at the save stays in
the warm registry, so its retry is answered with the sequence of a message that does
not exist (RoomSession.ts:7345); a control that comes after `consumeTurnInterrupted` and before
`finishActivity` (runtime.go:2464-2465) finds the turn active and is accepted, its mark is
cleared unread, and a turn that failed is then retried, against runtime.go:2487.

### Proofs

`TaskSessionsProofs` proves `StartsStay` (`[]StartStays`) and `TypeCorrect`, for any
Humans, Tasks and bounds. Two arguments carry it. A request number keeps its meaning:
whoever mentions one (the correlation, a browser, a frame, the control that the runtime
executes, an armed or an admitted preparation: `Mentioned`) means the same Task
(`OneMeaning`), because a fresh number is mentioned nowhere (`NextNumberIsNew`) and every
step but `Ask` only moves mentions about (`RoomMoves`, `RuntimeMoves`). So a consent that
comes back is about the Task of the correlation (`ConsentsAreTrue`). The other argument is
about the cancel, which travels on the same socket: when a consent is on its way, every
cancel of its Task has been executed before it (`CancelsAreAhead`), hence a Task that was
created as prepared is cancelled by nobody (`NotCancelled`), and the preparation it claims
is held until it is bound to it (`ClaimIsHeld`).

`TaskTurnsProofs` proves `InstructionsHandledOnce` (`[]HandledOnce`), `CancelsAreMeant`
(`[]OnlyThatTurnIsCancelled`) and `TypeCorrect`. `WireOk` says that in front of each
instruction on the socket are all those the runtime lacks, and that an open socket has
them all; so `receivedThrough` never jumps (`FrontFrame`), which a new stream keeps by
starting behind it (`StreamBegins`). `QueueOk` says that the queue is in the order of the
instructions and behind the cursor, and that the instructions in it which had their turn
are exactly those marked delivered. `PrefixCollapses` computes what an acknowledgement
does to the queue: it takes off a prefix of delivered instructions and moves the cursor
to its last, whence nothing that waits is passed although a steered instruction ran
before the others. `TurnOk` says that the lane holds an undelivered instruction until it
settles, which is why no instruction has two turns. It also carries `CancelsAreMeant`: from
`Begin` to `Settle` the active turn is that of the lane, the Harness works only at the
prompt and then on the active turn, `grip` is the active turn as long as it is held, since
the steps by which a turn begins and ends wait for it, and a mark is of the active turn.
Without the mutex both halves fail: the turn ends between the check and the dispatch, the
next one is at its prompt when the cancel is written, or bears the mark of the old.

## Apps of a room

The run `tasks` has the first of these two modules, the run `pages` the second.

* `GeneratedApps`: the App an Agent generates for its Task. `store` is the storage of
  the room with the record, the shared state and the bundle chunks as separate keys, so
  that an instance may end between two writes and the save may be refused; `page[h]` is
  what the page of a Human holds: its documents, a pending shared state, a load and the
  iframe. A state is the set of updates it was built from. `upload` is the record that an
  upload under way has loaded; when it is saved after a publication or an update, it puts
  the older one back (`putBack`), and the two properties end there. Left out are an upload
  that began before the first publication and a second upload at a time.
* `RoomAppHosts`: the curated Apps. A page announces an App when its iframe has
  answered the handshake; the handler may have to wait for the catalog
  (`waiting`, everybody waits for one fetch) and then writes the attachment of before
  the wait. A chat waits for the announcements made before it. A request of the Agent
  goes to the first page that hosts the App and ends with the answer, a withdrawal, a
  disconnect or the timeout. An attachment has room for `MaxInstances` Apps; one that
  finds no place is cut off without an answer (`CutOff`), and `latest` forgets it.

| Property | Says |
| --- | --- |
| `BundleReadable` | the chunks of the revision the record names are in the storage, complete and of that revision, and so is a state, until an upload has put an older record back |
| `AcceptedStays` | an update the room accepted is in every later shared state, with the same exception |
| `ChatSeesItsApp` | the Agent woken by a chat is told of the App that its page announced last before it |
| `AskedHosts` | requests that waited for the catalog together still respect the limit (`InFlightBounded`); none is out to a page that withdrew the App or left (`AskedPageHosts`) |

Bounds: generated Apps see one fault, two frames under way and one page loading at a
time, with bundles of 2 chunks and 1, 2 revisions and 2 updates. Curated Apps see two
connections end; there are three Apps and two places, so that one can be cut off; `h1`
may have all three, `h2` has only `a1`, one connection and no chat; both requests are to
`a1`; a behaviour has a chat or requests, not both.

`both_ready`: `handleRoomAppHostState` awaits the catalog and writes
`{...attachment, activeRoomAppInstances}` from the attachment it was called with. A page
that announces two Apps in a row while the catalog is stale, as it does on every
reconnect, loses the first: counterexample to `ReadyIsCallable`.

Another behaviour of the code: a load that is answered after a newer shared state is
compared with `generatedAppsRef`, which no shared state reaches (RoomContent.tsx:868),
so the page falls back until the next update; the room refuses what such a page sends.

### Proofs

`RoomPagesProofs` is about these two modules, `Surfaces` and `RemoteMedia` (below). For a generated App it
proves `AppTypesCorrect` (`[]AppTypeOK`), `PublicationIsReadable` (`[]BundleReadable`) and
`UpdatesStay` (`[]AcceptedStays`), with bundles of any number of chunks. The writes of a
handler are a sequence, and an instance may end behind each: part 1 computes what every key
holds after `n` of them. The invariant `AppInv` is the types and `putBack \/ Intact`.
`Intact` says of the storage that the revision it names is whole and its state has all
that was accepted (`StoreIntact`), and of whatever copy of the state a page, an update or a
frame holds that it is older than that of the room or has all that was accepted (`Fits`).
The second half is what makes the first inductive: the room accepts an update by the number
it was built on, so an update made from a copy with that number but less in it would lose
what others did. `Fits` is kept by a step that moves the number forward (`Keeps`), whence one
argument serves all the places where a copy can be (`KeptPage`).

For the curated Apps it proves `HostTypesCorrect` (`[]HostsTypeOK`), `ChatsAreTold`
(`[]ChatSeesItsApp`) and `RequestsAreHosted` (`[]AskedHosts`). Announcements that wait for
the catalog overwrite each other's attachment, yet the *last* of a page is never lost:
`SeenIsAll` says that nothing becomes callable on a connection while one of its announcements
waits, hence what an announcement writes has all that was callable and its own App;
`LatestIsKept` that the App announced last is callable, or that of the last announcement
that waits. A chat waits for the announcements in front of it, so when it goes on
(`ResumedTells`) what it owes (`OwedIsLatest`) is callable. `Requested` holds the bound of
requests although many of them pass it after one wait, because each counts again. That
another App of the same page may be lost is the counterexample to `ReadyIsCallable`, which
is why the theorem is about the last one only.

## Workspace snapshots

`Surfaces` (part `surfaces` of `feeds`) is what an Agent shows of its workspace: an image
that it publishes, replaces and clears. `board` is the record (who is in the room, and the
surface of each), `stored` the chunks beside it, `body[u]` a request whose body has not come
and the record it has loaded, `notices` the states on their way to a page, `screen` what the
page has and shows, `reads` its requests for images. `handleSurfaceUpload` writes the
chunks, saves the record it loaded before the body came, with the new surface, and then
deletes the chunks of the surface before; each of these may fail, and the instance may end
between them. `handleAttachmentUpload` saves such a record as well, and tells no page of
what it has put back.

`SurfacesHold` is the conjunction of three:

| Property | Says |
| --- | --- |
| `SurfacesAreWhole` | a surface of the record has all its chunks, or its Agent had given it up and an upload has put it back |
| `SurfacesBounded` | no more Agents than the bound have a surface, although each upload counts those of an older record |
| `SurfacesAreShown` | a page shows under a name that very image, and when nothing is on its way each surface of the record but those whose chunks are gone (`retired`) and those whose answer was lost (`unread`); the last part ends when an attachment puts the record back (`undone`) |

Bounds: two Agents and a bound of one surface, two images of two chunks, two requests with a
body at once, one state on its way, one fault (`SurfaceBound` names the rest). Two requests
are what it takes to save a record that is older than the present one. Left out are the
minimal time between two surfaces of an Agent, mime types and sizes, and a second page.
`expireRoom` comes when nobody is left and the page is gone.

### Proofs

Part 5 of `RoomPagesProofs` proves `SurfaceTypesCorrect`, `SurfacesStayWhole`,
`SurfacesStayBounded`, `SurfacesReachThePage` and their conjunction, `SurfacesAlwaysHold`, for any finite set of Agents and any number
of chunks, images, requests and surfaces of the bound. `Records` asks of the record in force
*and of each that a request has loaded* that its surfaces are whole or given up and within
the bound (`RecordFits`): what an upload saves is then as good as what it replaces, however
old it is. A publication keeps this because the chunks it adds are of an image nobody has
named, and those it deletes are of one that is given up in the same step (`StaysFit`).
`Told` says that the last state on its way is the record, and of each surface the page
knows that its image is shown, asked for or excepted, or that a state on its way is
without it (and then the page will ask anew).

## What a browser receives

`RemoteMedia` composes two modules (run `remote_media`): `what` is the kind of the
publisher of a track, or the lane of a data channel.

* `RemoteTracks`: `media` and `listener` are the two participants in the record, `live`
  and `carried` the SFU, `page` the browser's session and PeerConnection with the
  progress of `reconnectMedia`, `socket`, `down` and `up` the control socket. `marked`,
  `ready`, `bindings`, `retries` and `queue` are the references of the hook of those
  names. An operation of the negotiation queue is one step per await; its answer is
  used only when `Current` says so.
* `RemoteChannels`: the file channel of a Human, the App lane of a Human or the direct
  lane of an Agent. `source` is the channel at the SFU, `ops` the attempts under way,
  `owner` and `ready` the one that owns the lane and the one that serves it, `retry` the
  timer.

| Property | Says |
| --- | --- |
| `WhatWasNegotiated` | the room holds an Agent for heard only if a browser completed the negotiation of its session (`ReadyWasNegotiated`); no channel is open that the lane does not know, and what it serves is of the present sessions (`LaneIsOurs`) |
| `OfferedIsReceived` | whoever keeps offering a track is heard (`OfferedIsHeard`), whoever stays reachable on a lane is joined (`ReachableIsJoined`) |
| `VoiceIsReady` | the room learns that an Agent that keeps offering its voice is heard |

Fairness is that of `Progress`: frames arrive, calls are answered or fail, timers fire.
No step of the room, of the other participant or of the network is fair. Two things may
go wrong with a track (`TrackFaults`) and one with a channel; two frames are under way.
Two replacements are what it takes to come back to an older session's name. Two faults
cannot make all three attempts of a Human's track fail while its publication lasts: the
give-up after the last attempt is reached only for a publication that ended, and what
follows from it for one that lasts is not explored.

Excepted are, by history variables: a request that failed in a way that the code does
not repeat (`givenUp`), a session whose publication ended and began again without the
browser seeing it (`unseen`: nothing in a state tells the two apart, and the browser
stays on the dead mid; `acked` is by session too, so that the acknowledgement of an older
publication is taken for one of the newer), a session first heard of by a publication (`overtaken`), a dead
channel that the SFU does not close (`Deaf`).

At most `MaxOps` attempts of a lane are under way or open at once; a step that may begin
one more waits (`SlotIsFree`). Four are enough for the faults of the run, so that none
waits there.

### Proofs

Part 6 of `RoomPagesProofs` proves `WhatWasNegotiatedHolds` (`[]WhatWasNegotiated`), for any
numbers of sessions, faults, retries, frames and attempts. Of a track, `TracksAcked` holds
what makes `ReadyWasNegotiated` inductive: whatever key the browser has as ready, *and each
`voice-ready` on any of its sockets, the closed ones included*, is of a completed
negotiation, and a new session of the Agent begins without readiness, so the room never
takes up one that no browser acknowledged (`RoomHearsAcked`). Of a lane, `LaneInv` says that it is of an owner or of a channel that
serves it, never of both, that no other attempt holds an open channel (`LaneFits`), and
that what is opening or serves is of the present session of the browser and of the session
known of the publisher, unless that was overtaken (`LaneCurrent`). Its last part is what the
reconnect needs: while the browser asks for a new session the lane is empty and no
PeerConnection is there to fill it, for a channel begun then would be of the session that
is about to end. Each step computes the lane as a record (`Reset`, `Subscribe`, `Failed`);
one lemma for each of these operators serves all the steps that apply it, and `LaneBecomes`
carries the record to the next state.

## What a page sends

`LocalMedia` (part `own` of `pages`) is the microphone or the screen of one Human:
`capture` are the tracks the browser captures, `held` the one in the ref, `start` an
`enableMicrophone` or `toggleScreenShare` that waits for the device, `page` and `timer`
the media session and its replacement, `queue` the negotiation queue, `late` and
`closing` what goes on after the page gave it up, `room` the participant's record.

`HumanIsShown` says that, when nothing is under way, the room tells the others that the
microphone is muted exactly when it is (`MuteIsTrue`), that it shows the track the page
holds (`ShownIsHeld`), and at all times that no device records that nobody can stop
(`CaptureIsOwned`). The races that the code leaves open are excepted one by one (`slips`;
each is listed below), and any of them voids `ShownIsHeld`. Two captures, two clicks to
stop, the five attempts of the code to reconnect and two faults: a device replaced once
under a session replaced once, with the timer of an attempt that failed. A third fault is
admitted when the page has no session (`OwnBound`): a reconnect that the room denied and a
fresh admission that failed, after which each attempt fails at once
(useSfuChatRoom.ts:4674) and sets the timer until the last.

## What flows through a room

`MCRoomFeeds` adds three modules, besides `Surfaces`, to `AgentEventStream` (run `feeds`).

* `LiveTranscriptLog`: `live`, `nextEpoch`, `segments` and `nextSeq` are the record; `feed`
  has the states that are on their way to each resident, `producer` what its runtime
  believes and `lease` the coordinator of each daemon; `spoken` and `calls` are the
  utterances and their appends, `harness` and `pager` the two kinds of reader. A resident
  observes a state (`Observes`: lease), its runtime is told (`Assigns`: the epoch, under the
  lock) and then replaces the generation of recognition (`Fences`); an utterance is heard
  (`Hears`), committed by the recogniser (`Commits`) and sent (`Sends`), each a step of its
  own. A lost stream fails closed: the next state that is observed is off. Recognition goes
  on while the transcript is off, for the Meeting Notes, so an utterance remembers under
  which epoch of the room it was spoken.
* `FileMessages`: `draft` and `send` are the composer, `queue`, `channel`, `wire` and
  `incoming` the way from browser to browser, `log` what the room numbers, `mine` and
  `theirs` the files in the two timelines.
* `AgentProjections`: `acts` is what the Runtime does, `hand` what each goroutine has to
  hand to the publisher, `queue` and `flight` the publisher, `stray` a request it gave up;
  `memory` and `view` are the room, `page` and `wire` the page.

| Property | Says |
| --- | --- |
| `SpokenOnce` | a segment was spoken in its epoch (`SpokenInItsEpoch`), by one producer of its Host (`OneProducer`), once, and a load finds the log as it was (`LogIsExact`) |
| `ReadersMissNothing` | a Harness is given a segment in one successful turn and passes over none; a paging Agent has read everything, or was told of a gap |
| `SubmissionsArrive` | `SubmissionIsWhole`: a text follows the file it was sent with (`TextFollowsItsFile`); what is sent in a Task wakes its Agent once (`WakesOnce`) |
| | `FilesAreShown`: a file that was sent arrives (`FilesArrive`), in its place in both timelines (`FilesAreInPlace`) |
| `PagesShowTheAgent` | the room has the activity of the Runtime (`RoomKnows`), the page that of the room (`PageKnows`), and a published live view stays (`ViewStays`) |

Bounds: the transcript has 2 epochs, 2 utterances, 1 loss, two retained segments, pages of
one and two residents of one Host or of two, of which one hears, with three states on
their way; its readers are explored with one resident that keeps its stream
(`SpeechBound`). The bound in bytes keeps any shorter suffix (`Bounded`). The
composer has 2 submissions, files of one chunk, two frames on their way, a log of 3 and
1 fault, after what somebody else wrote (`FileBound`). The activities
have 2 turns, 2 streams and 1 fault (`AgentBound` keeps the combinations apart). Excepted
are a segment sent in the window of the fence (`unfenced`), a lease taken with an older
state (`overtook`), an utterance of which the bound forgot the identifier (`forgotten`),
a text that the composer dropped (`lost`), a change that was handed over late or lost
(`amiss`) and one that the room told nobody of (`unsaid`).

`transcript_epoch`: `setLiveTranscriptProducerLocked` assigns the new epoch and only then
replaces the recogniser's generation. What was said while the transcript was off, and is
committed between the two, is appended under the new epoch: counterexample to
`SpeechStaysInItsEpoch`.

### Proofs of the transcript

`RoomFeedsProofs` proves `TranscriptTyped`, `TranscriptSpokenOnce` and `TranscriptReaders` for
any residents, Hosts, epochs, utterances, losses, retries, pages and any bound of the log.
`TypeInv` adds to the types that nobody knows of an epoch that was not given yet. On it
rest five parts, each inductive with it:

* `OneRun`: every step drops the oldest of the log or appends one segment (`Dropped`,
  `Added`, `LogSteps`), so the numbers stay one run, the epochs grow, and no key is twice.
  That a load keeps such a log as it is, is `RunIsNormal`: nothing is double, so the only
  set of firsts is all of them, and the rank of a segment is its place.
* `LeaseHeld`: unless a lease was ever taken with an older state, the lease of a Host is
  of the newest epoch that was observed there, and who believes in that epoch holds it. A
  resident that observes it too is refused (`LeaseObserves`).
* `SentRight`: what an utterance left, its calls and its segments (`Traces`), is of one
  epoch, and that is the epoch it was spoken in or one that is over (`Right`), unless it was
  sent before the generation was replaced. It is inductive only with `FreshIsRight`: this
  holds of an utterance that is still to be sent, with the epoch its runtime believes in.
  An append is taken only under the epoch of the moment, which leaves the first case.
  A second append of an utterance then is of another epoch, or of what was forgotten.
* `HarnessFollows`: what the Harness was given is behind its marker, and an open turn has
  everything that is kept between the marker and its newest segment.
* `PagerFollows`: a page is the oldest of what is beyond the cursor (`PageIsOldest`), and
  the log is one run (`OneRun`), so what was read has no hole that was not told.

## What is proved

The arguments are in the sections of the components. In short:

| Module | Theorem | States | For every |
| --- | --- | --- | --- |
| `RoomMediaProofs` | `TypeCorrect`, `NeverForgotten` | `TypeOK`, `NoForgottenSubscription` | number of Agents, Hosts, sessions, mids, requests and attempts |
| | `MediaFollowsGrants`, `CleanupSpares`, `GrantsIndependent`, `QueueDrains` | `MediaImpliesGrant`, `CleanupSparesTrackedMedia`, `GrantsAreIndependent`, `QueueDrainsOnlyClosed` | the same |
| `RoomPermissionsProofs` | `TypeCorrect`, `DecisionsAreTrue`, `CallsAreServed`, `EndsLeaveOutcomes` | `TypeOK`, `AnswerIsTheDecision`, `ParkedCallIsServed`, `EndsAnnounced` | number of Agents, requests, options and length of the ring |
| `RoomAlarmProofs` | `TypeCorrect`, `NoDeadlineMissed`, `OccupiedRoomStays`, `OpenSocketKeepsPlace` | `TypeOK`, `NothingOverdue`, `OccupiedNeverExpires`, `OpenSocketStays` | number of participants and all durations |
| `RoomFeedsProofs` | `TypeCorrect`, `EventsServed`, `LogIsKept` | `TypeOK`, `EventsAreServed`, `LogKept` | number of Agents, rings, uploads and frames on their way |
| | `TranscriptTyped`, `TranscriptSpokenOnce`, `TranscriptReaders` | `SpeechTypeOK`, `SpokenOnce`, `ReadersMissNothing` | number of residents, Hosts, epochs, utterances and losses, and any bound, page and retries |
| `TaskSessionsProofs` | `TypeCorrect`, `StartsStay` | `TypeOK`, `StartStays` | number of Humans, Tasks, requests, connections, streams and frames |
| `TaskTurnsProofs` | `TypeCorrect`, `InstructionsHandledOnce`, `CancelsAreMeant` | `TypeOK`, `HandledOnce`, `OnlyThatTurnIsCancelled` | number of instructions, controls, streams and retries, and any bound of the queue |
| `RoomPagesProofs` | `AppTypesCorrect`, `PublicationIsReadable`, `UpdatesStay` | `AppTypeOK`, `BundleReadable`, `AcceptedStays` | number of Humans, bundles, chunks, revisions, updates and frames |
| | `HostTypesCorrect`, `ChatsAreTold`, `RequestsAreHosted` | `HostsTypeOK`, `ChatSeesItsApp`, `AskedHosts` | number of Humans and connections, finite set of Apps and of requests, and any two bounds |
| | `SurfaceTypesCorrect`, `SurfacesAlwaysHold` (`SurfacesStayWhole`, `SurfacesStayBounded`, `SurfacesReachThePage`) | `SurfacesTypeOK`, `SurfacesHold` (`SurfacesAreWhole`, `SurfacesBounded`, `SurfacesAreShown`) | finite set of Agents, any uploads, chunks, images and bound |
| | `WhatWasNegotiatedHolds` | `WhatWasNegotiated` | number of sessions, faults, retries, frames and attempts |

The constants are assumed to be what the code makes of them and nothing more: the
markers for "none" are no values (`NullsAreNotValues`, `NoneIsNoRecord`,
`NoRoomIsNoRecord`, `NoneIsNoValue`, `NobodyIsNobody`, `ConstantsAreFit`), bounds and limits are natural
numbers (`BoundsAreNaturals`, `Bounds`, `TranscriptBounds`, `MaxClosersAssumption`, `OpsAreCounted`,
`ConstantsAreFit`), each
Task has an owner (`ConstantsAreFit`), durations are positive and in the order of the constants of the code (`DurationsArePositive`), the kinds of
participants and of runtimes are disjoint (`KindsAreDisjoint`, `KindsOfRuntime`), and
Hosts and projections have their types (`HostsOfAssumption`, `ProjectionsAssumption`).
Sizes are positive, a bundle is no longer than the limit (`AppConstantsFit`). Only what the
code counts is assumed to be finite: the Apps and the requests to them (`HostConstantsFit`)
and the Agents with surfaces (`SurfaceConstantsFit`).

Only model-checked, and why:

* the liveness properties (`RequestsAreSettled`, `AbsenceEnds`, `OfferedIsReceived`,
  `VoiceIsReady`): fairness and `ENABLED` are out of the prover's reach;
* `ExchangesStay`: `Rebuild` folds over the ring (`SelectSeq`, `FlattenSeq`), and what
  a fold computes for every ring needs induction over data;
* `DialogIsTrue` and `HumanIsShown` (run `pages`), `SubmissionsArrive` and
  `PagesShowTheAgent` (run `feeds`), with the types of their modules, and `MediaTypeOK` (run `remote_media`): not attempted.
  Most of them speak of a state in which nothing is under way, so that an inductive
  invariant must describe every queue, timer and request on the way there;
* `TypesOK` of `MCTasks`, `MCRoomPages` and `MCRoomFeeds`: the conjunction over the parts of
  one run, of which those of `TaskTurns`, `GeneratedApps`, `TaskSessions`, `RoomAppHosts`,
  `AgentEventStream`, `LiveTranscriptLog` and `Surfaces` are proved one by one;
* the properties that the code violates (`SurfaceLeavesEvents`, `RetryBeforeLease`,
  `ReadyIsCallable`,
  `SpeechStaysInItsEpoch`): their counterexamples are the point.

## Not modelled

* Room: keys of bundles written by older versions, several generated Apps of one room
  and their limit, runtime capabilities, unicasts between Apps, an App catalog that
  changes or cannot be fetched (a first failure is cached as empty for a minute),
  the byte cap of attachments, analytics.
* Runtime: loss of the Harness process, native steering, several scopes that share a
  lane, the reclaim of idle scopes, listing conversations. Harness adapters, the daemon,
  the capability controller, and the media, speech and voice pipelines are not reached
  yet; codecs, providers and launchers are I/O.
* Browser: several other participants at once, the Pion side of the data lanes,
  recognition of speech, diagnostics, rendering.
* The MCP server translates tools into room requests without state of its own. CLI,
  credentials, attachments on disk, documentation and deployment are sequential or not
  part of the running system.

## Behaviours that the models excuse

What the models have, the properties except, and a maintainer may want to look at.
Media: an acknowledgement of an older publication of one name may arm the newer
(against RoomSession.ts:8728); a late 404 of an older operation deletes the marker of a
newer one; readiness survives a replaced session (RoomSession.ts:2173 and 6611);
`reconnectMedia` drops a request while its promise is pending (useSfuChatRoom.ts:4930);
a failed renegotiation keeps its marker without a reconnect; the file lane is never
retried, and a retry is refused during `reconnectMedia`.

Own media: a microphone that ends while it is being published is announced as unmuted
(against useSfuChatRoom.ts:4158); a stop before the confirmation shows a dead track; a
late unpublish of an older session removes the republication; a share granted during a
replacement is published into the old session; a second click to stop releases a newer
share; leaving while the picker is open leaves a capture running.

Transcript: a repeated segment is written again when the bound has evicted the first
(liveTranscript.ts:400); a lease can be taken with an older state, against
daemon/live_transcript.go:27.

Starting a Task: a start told as failed may be created later (against
useSfuChatRoom.ts:5740); the brief of a Task started on an existing conversation stays in
the dialog (RoomContent.tsx:1918); `startTaskWithBrief` leaves a staged brief after a
failure; a project chosen for a new Task is carried into the list of conversations.

Composer: a text typed while a file waits is wiped (TextChatCard.tsx:1625); a copy whose
answer is lost is stored twice.

Workspace snapshots: of two overlapping uploads the surface of the first is lost, although
its Agent was told that it is published; an upload may put back a surface whose chunks are
deleted, whose reads then fail until its Agent publishes again; a page does not repeat a
request that failed (WorkspaceSnapshots.tsx:73) until some surface changes.

Activity: a change read under the lock and handed over after the turn was finished shows
work that is over (against activity.go:231); a replaced stream clears the activities
without telling the pages; an eviction forgets them and nobody asks the Runtime.
