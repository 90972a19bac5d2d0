---------------------------- MODULE MediaGrants ----------------------------
(***************************************************************************)
(* The pure media decisions of the RoomSession Durable Object: who may     *)
(* subscribe to Human audio (Meeting Notes, Live Transcript), who may      *)
(* publish a voice (Agent Voice), and how a revocation moves SFU tracks    *)
(* from a participant record to the durable cleanup queue.                 *)
(*                                                                         *)
(* Every operator takes the persisted room record r and returns a value or *)
(* the changed record, as the functions of app/src/do/realtimeMedia.ts,    *)
(* mediaGrantTransitions.ts, meetingNotesAuth.ts, runtimeHost.ts and       *)
(* liveTranscript.ts do.                                                   *)
(***************************************************************************)
EXTENDS Naturals, FiniteSets

CONSTANTS
  Agents,      \* Agent participant ids
  Hosts,       \* Runtime Host ids
  Sessions,    \* ids of Cloudflare Realtime sessions
  Mids,        \* mids the SFU assigns to the tracks of a session
  NoAgent, NoHost, NoSession, NoMid,  \* "undefined" of each kind
  MaxPendingEntries,         \* MAX_PENDING_CLEANUP_ENTRIES (16)
  MaxMidsPerEntry,           \* MAX_PENDING_CLEANUP_MIDS_PER_ENTRY (64)
  MaxSubscribedMids          \* MAX_AGENT_SUBSCRIBED_MIDS (64)

ASSUME NullsAreNotValues ==
  /\ NoAgent \notin Agents
  /\ NoHost \notin Hosts
  /\ NoSession \notin Sessions
  /\ NoMid \notin Mids

ASSUME BoundsAreNaturals ==
  {MaxPendingEntries, MaxMidsPerEntry, MaxSubscribedMids} \subseteq Nat

(***************************************************************************)
(* A track is what tracks/close needs: the session and the mid.            *)
(* pendingMediaCleanup is a list with one entry per session and a          *)
(* duplicate-free list of mids, so a set of tracks is the same data.       *)
(***************************************************************************)
Tracks == Sessions \X Mids

RoomRecords ==
  [alive      : BOOLEAN,                       \* the record is in storage
   members    : SUBSET Agents,                 \* Agent participants
   connected  : SUBSET Agents,
   hostOf     : [Agents -> Hosts \union {NoHost}],
   stt        : SUBSET Hosts,                  \* projections with speech.stt
   tts        : SUBSET Hosts,                  \* projections with speech.tts
   session    : [Agents -> Sessions \union {NoSession}],
   subscribed : [Agents -> SUBSET Mids],       \* media.agentSubscribedMids
   published  : [Agents -> Mids \union {NoMid}],  \* media.agentPublishedMid
   notes      : Agents \union {NoAgent},       \* meetingNotes grant
   voice      : SUBSET Agents,                 \* agentVoice grants
   producer   : Hosts \union {NoHost},         \* liveTranscript producer
   pending    : SUBSET Tracks]                 \* pendingMediaCleanup

EmptyRoom ==
  [alive |-> TRUE, members |-> {}, connected |-> {},
   hostOf |-> [a \in Agents |-> NoHost], stt |-> {}, tts |-> {},
   session |-> [a \in Agents |-> NoSession],
   subscribed |-> [a \in Agents |-> {}],
   published |-> [a \in Agents |-> NoMid],
   notes |-> NoAgent, voice |-> {}, producer |-> NoHost, pending |-> {}]

\* Only a participant has media, and only media with a session has tracks.
MediaOfMembers(r) ==
  \A a \in Agents :
    /\ a \notin r.members => r.session[a] = NoSession
    /\ r.session[a] = NoSession => r.subscribed[a] = {} /\ r.published[a] = NoMid

SubscribedTracks(r, a) == {r.session[a]} \X r.subscribed[a]
\* Mutant: an undefined agentPublishedMid is queued like a mid.
PublishedTracksOrUndefined(r, a) == {r.session[a]} \X {r.published[a]}

PublishedTracks(r, a) == {r.session[a]} \X ({r.published[a]} \ {NoMid})

(***************************************************************************)
(* The cleanup queue and the revocation of a direction.                    *)
(***************************************************************************)
PendingSessions(r) == {t[1] : t \in r.pending}

HasCapacity(r, s, n) ==
  IF s \in PendingSessions(r)
    THEN Cardinality({t \in r.pending : t[1] = s}) + n <= MaxMidsPerEntry
    ELSE Cardinality(PendingSessions(r)) < MaxPendingEntries

\* Mutant: the staged mids stay in the participant record.
StageWithoutClearing(r, S, P) ==
  [r EXCEPT
     !.pending = @ \union (UNION {SubscribedTracks(r, a) : a \in S})
                   \union (UNION {PublishedTracks(r, a) : a \in P})]

\* stageAgentMediaRevocation for the agents S in the subscribed and the
\* agents P in the published direction ("both" is the agent in S and in P).
Stage(r, S, P) ==
  [r EXCEPT
     !.pending = @ \union (UNION {SubscribedTracks(r, a) : a \in S})
                   \union (UNION {PublishedTracks(r, a) : a \in P}),
     !.subscribed = [a \in Agents |-> IF a \in S THEN {} ELSE @[a]],
     !.published = [a \in Agents |-> IF a \in P THEN NoMid ELSE @[a]]]

(***************************************************************************)
(* The three independent grants.                                           *)
(***************************************************************************)
OnHost(r, h) == {a \in r.members : r.hostOf[a] = h}

HostReady(r, h) == h \in r.stt /\ OnHost(r, h) \intersect r.connected # {}

ProducerValid(r, enabled) ==
  r.producer = NoHost \/ (enabled /\ HostReady(r, r.producer))

LiveTranscriptAuthorized(r, enabled, a) ==
  /\ r.producer # NoHost
  /\ a \in OnHost(r, r.producer) \intersect r.connected
  /\ ProducerValid(r, enabled)

SharedMediaAuthorized(r, enabled, a) ==
  \/ r.notes = a
  \/ a \in r.voice
  \/ LiveTranscriptAuthorized(r, enabled, a)

\* The subscriptions a stopped or invalid Live Transcript takes down: those of
\* the members of its producer Host that Meeting Notes does not authorize.
LiveTranscriptSubscribers(r) == OnHost(r, r.producer) \ {r.notes}

StopLiveTranscript(r) ==
  IF r.producer = NoHost THEN r
  ELSE [Stage(r, LiveTranscriptSubscribers(r), {}) EXCEPT !.producer = NoHost]

NormalizeLiveTranscript(r, enabled) ==
  IF ProducerValid(r, enabled) THEN r ELSE StopLiveTranscript(r)

\* Drop the projections no Agent refers to; the transcript of a dropped Host
\* goes with it.
CollectHosts(r, enabled) ==
  LET referenced == {r.hostOf[a] : a \in r.members}
  IN  NormalizeLiveTranscript(
        [r EXCEPT !.stt = @ \intersect referenced,
                  !.tts = @ \intersect referenced], enabled)

(***************************************************************************)
(* normalizeRoom: what every load of the record repairs before a handler   *)
(* sees it. The voice media of an Agent without a (still valid) grant is   *)
(* cleared from the participant; nothing is queued for it.                 *)
(***************************************************************************)
NormalNotes(r) == IF r.notes \in r.members THEN r.notes ELSE NoAgent

NormalVoice(r) ==
  {a \in r.voice \intersect r.members \intersect r.connected :
     r.hostOf[a] \in r.tts}

Normalize(r, enabled) ==
  LET noted == [r EXCEPT !.notes = NormalNotes(r)]
      lt    == NormalizeLiveTranscript(noted, enabled)
  IN  [lt EXCEPT
         !.voice = NormalVoice(r),
         !.published = [a \in Agents |->
                          IF a \in NormalVoice(r) THEN @[a] ELSE NoMid]]

\* An Agent's departure (agent-leave, lease expiry): both directions are
\* staged, the participant is deleted, unreferenced Hosts are collected, and
\* only then are the departing Agents' grants cleared.
Depart(r, enabled, D) ==
  LET staged  == Stage(r, D, D)
      deleted == [staged EXCEPT
                    !.members = @ \ D,
                    !.connected = @ \ D,
                    !.hostOf = [a \in Agents |-> IF a \in D THEN NoHost ELSE @[a]],
                    !.session = [a \in Agents |-> IF a \in D THEN NoSession ELSE @[a]]]
  IN  [CollectHosts(deleted, enabled) EXCEPT
         !.notes = IF @ \in D THEN NoAgent ELSE @,
         !.voice = @ \ D]

\* Mutant: the previous note-taker's subscriptions are not revoked.
RevokeNothing(r, enabled, a) == r

\* Mutant: the revocation forgets its direction.
RevokeBoth(r, enabled, a) ==
  IF a \in r.members /\ ~LiveTranscriptAuthorized(r, enabled, a)
    THEN Stage(r, {a}, {a}) ELSE r

\* stageMediaGrantRevocations, subscribed direction: a subscription that Live
\* Transcript independently authorizes is left to Live Transcript's own stop.
RevokeSubscribed(r, enabled, a) ==
  IF a \in r.members /\ ~LiveTranscriptAuthorized(r, enabled, a)
    THEN Stage(r, {a}, {}) ELSE r
=============================================================================
