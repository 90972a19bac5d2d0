-------------------------- MODULE RoomMediaProofs --------------------------
(***************************************************************************)
(* For every number of Agents, Hosts, sessions, mids, concurrent Worker    *)
(* requests and cleanup attempts: RoomMedia is type correct, no live Human *)
(* audio track is ever forgotten, media follows its grants, the grants are *)
(* independent, the cleanup names no track the room still records, and the *)
(* queue drops only what is closed.                                        *)
(*                                                                         *)
(* The second strengthening says whose a track is: one Agent's, in one     *)
(* direction, and in one place at a time - the record, or the queue and    *)
(* the attempts, or the hands of one request. Without it a revocation      *)
(* could queue a track that another Agent, or the other direction, still   *)
(* records.                                                                *)
(***************************************************************************)
EXTENDS RoomMedia, TLAPS

(***************************************************************************)
(* Part 1: the room record. A record is sound if it has its type, only     *)
(* participants have media, and a deleted record owes nothing. What it     *)
(* owes to the SFU is the subscriptions it records and the queue. Each     *)
(* operator of MediaGrants keeps the record sound and owes no less.        *)
(***************************************************************************)
DeletedIsEmpty(r) == ~r.alive => r.members = {} /\ r.pending = {}

Sound(r) == r \in RoomRecords /\ MediaOfMembers(r) /\ DeletedIsEmpty(r)

Owed(r) == TrackedSubscriptions(r) \union r.pending

Keeps(r, q) == Sound(q) /\ Owed(r) \subseteq Owed(q)

LEMMA EmptyRoomSound == Sound(EmptyRoom) /\ Sound([EmptyRoom EXCEPT !.alive = FALSE])
BY DEF Sound, EmptyRoom, RoomRecords, MediaOfMembers, DeletedIsEmpty, Tracks

LEMMA TracksOfAgent ==
  ASSUME NEW r, Sound(r), NEW a \in Agents
  PROVE  /\ SubscribedTracks(r, a) \subseteq Tracks
         /\ PublishedTracks(r, a) \subseteq Tracks
         /\ a \notin r.members => /\ SubscribedTracks(r, a) = {}
                                  /\ PublishedTracks(r, a) = {}
BY DEF Sound, RoomRecords, MediaOfMembers, Tracks, SubscribedTracks, PublishedTracks

\* A deleted record owes nothing.
LEMMA DeletedOwesNothing ==
  ASSUME NEW r, Sound(r), ~r.alive
  PROVE  Owed(r) = {}
BY TracksOfAgent DEF Sound, DeletedIsEmpty, Owed, TrackedSubscriptions

\* A staged direction moves from the record to the queue.
LEMMA StageKeeps ==
  ASSUME NEW r, Sound(r), NEW S \in SUBSET Agents, NEW P \in SUBSET Agents
  PROVE  Keeps(r, Stage(r, S, P))
<1>. DEFINE q == Stage(r, S, P)
<1>1. q.pending = r.pending \union (UNION {SubscribedTracks(r, a) : a \in S})
                            \union (UNION {PublishedTracks(r, a) : a \in P})
  BY DEF Sound, RoomRecords, Stage
<1>2. q \in RoomRecords
  <2>1. q.pending \subseteq Tracks
    BY <1>1, TracksOfAgent DEF Sound, RoomRecords
  <2>. QED  BY <2>1 DEF Sound, RoomRecords, Stage
<1>3. MediaOfMembers(q)
  BY DEF Sound, RoomRecords, Stage, MediaOfMembers
<1>4. DeletedIsEmpty(q)
  <2>1. q.alive = r.alive /\ q.members = r.members
    BY DEF Sound, RoomRecords, Stage
  <2>2. r.members = {} => q.pending = r.pending
    BY <1>1, TracksOfAgent
  <2>. QED  BY <2>1, <2>2 DEF Sound, DeletedIsEmpty
<1>5. Owed(r) \subseteq Owed(q)
  <2>1. \A a \in S : SubscribedTracks(r, a) \subseteq q.pending
    BY <1>1
  <2>2. \A a \in Agents \ S : SubscribedTracks(q, a) = SubscribedTracks(r, a)
    BY DEF Sound, RoomRecords, Stage, SubscribedTracks
  <2>. QED  BY <1>1, <2>1, <2>2 DEF Owed, TrackedSubscriptions
<1>. QED  BY <1>2, <1>3, <1>4, <1>5 DEF Keeps, Sound

LEMMA KeepsTransitive ==
  ASSUME NEW r, NEW q, NEW u, Keeps(r, q), Keeps(q, u)
  PROVE  Keeps(r, u)
BY DEF Keeps

\* Changes of the grants, the readiness and the voice publications alone.
LEMMA GrantsKeep ==
  ASSUME NEW r, Sound(r), NEW q \in RoomRecords,
         q.alive = r.alive, q.members = r.members, q.pending = r.pending,
         q.session = r.session, q.subscribed = r.subscribed,
         \A a \in Agents : q.published[a] \in {r.published[a], NoMid}
  PROVE  Keeps(r, q)
<1>1. MediaOfMembers(q)
  BY DEF Sound, MediaOfMembers
<1>2. DeletedIsEmpty(q)
  BY DEF Sound, DeletedIsEmpty
<1>3. Owed(q) = Owed(r)
  BY DEF Owed, TrackedSubscriptions, SubscribedTracks
<1>. QED  BY <1>1, <1>2, <1>3 DEF Keeps, Sound

LEMMA StopLiveTranscriptKeeps ==
  ASSUME NEW r, Sound(r)
  PROVE  Keeps(r, StopLiveTranscript(r))
<1>1. CASE r.producer = NoHost
  BY <1>1 DEF StopLiveTranscript, Keeps
<1>2. CASE r.producer # NoHost
  <2>. DEFINE q == Stage(r, LiveTranscriptSubscribers(r), {})
              u == [q EXCEPT !.producer = NoHost]
  <2>1. LiveTranscriptSubscribers(r) \in SUBSET Agents
    BY DEF LiveTranscriptSubscribers, OnHost, Sound, RoomRecords
  <2>2. Keeps(r, q)
    BY <2>1, StageKeeps
  <2>3. Keeps(q, u)
    <3>. HIDE DEF q
    <3>1. q \in RoomRecords /\ Sound(q)
      BY <2>2 DEF Keeps, Sound
    <3>2. u \in RoomRecords
      BY <3>1 DEF RoomRecords
    <3>. QED  BY <3>1, <3>2, GrantsKeep DEF RoomRecords
  <2>. QED  BY <1>2, <2>2, <2>3, KeepsTransitive DEF StopLiveTranscript
<1>. QED  BY <1>1, <1>2

LEMMA NormalizeLiveTranscriptKeeps ==
  ASSUME NEW r, Sound(r), NEW e
  PROVE  Keeps(r, NormalizeLiveTranscript(r, e))
BY StopLiveTranscriptKeeps DEF NormalizeLiveTranscript, Keeps

LEMMA CollectHostsKeeps ==
  ASSUME NEW r, Sound(r), NEW e
  PROVE  Keeps(r, CollectHosts(r, e))
<1>. DEFINE H == {r.hostOf[a] : a \in r.members}
            q == [r EXCEPT !.stt = @ \intersect H, !.tts = @ \intersect H]
<1>1. q \in RoomRecords
  BY DEF Sound, RoomRecords
<1>2. Keeps(r, q)
  BY <1>1, GrantsKeep DEF Sound, RoomRecords
<1>3. Keeps(q, NormalizeLiveTranscript(q, e))
  BY <1>2, NormalizeLiveTranscriptKeeps DEF Keeps
<1>. QED  BY <1>2, <1>3, KeepsTransitive DEF CollectHosts

LEMMA NormalizeKeeps ==
  ASSUME NEW r, Sound(r), NEW e
  PROVE  Keeps(r, Normalize(r, e))
<1>. DEFINE n == [r EXCEPT !.notes = NormalNotes(r)]
            t == NormalizeLiveTranscript(n, e)
            q == [t EXCEPT !.voice = NormalVoice(r),
                           !.published = [a \in Agents |->
                              IF a \in NormalVoice(r) THEN @[a] ELSE NoMid]]
<1>1. Keeps(r, n)
  <2>1. n \in RoomRecords
    BY DEF Sound, RoomRecords, NormalNotes
  <2>. QED  BY <2>1, GrantsKeep DEF Sound, RoomRecords
<1>2. Keeps(n, t)
  BY <1>1, NormalizeLiveTranscriptKeeps DEF Keeps
<1>3. Keeps(t, q)
  <2>. HIDE DEF t
  <2>1. t \in RoomRecords /\ Sound(t)
    BY <1>2 DEF Keeps, Sound
  <2>2. NormalVoice(r) \subseteq Agents
    BY DEF NormalVoice, Sound, RoomRecords
  <2>3. q \in RoomRecords
    BY <2>1, <2>2 DEF RoomRecords
  <2>. QED  BY <2>1, <2>2, <2>3, GrantsKeep DEF RoomRecords
<1>4. Normalize(r, e) = q
  BY DEF Normalize
<1>. QED  BY <1>1, <1>2, <1>3, <1>4, KeepsTransitive

\* The deletion of participants whose media is staged already.
LEMMA DeletionKeeps ==
  ASSUME NEW r, Sound(r), NEW D \in SUBSET Agents, NEW q \in RoomRecords,
         \A a \in D : r.subscribed[a] = {} /\ r.published[a] = NoMid,
         q.alive = r.alive, q.members = r.members \ D, q.pending = r.pending,
         q.session = [a \in Agents |-> IF a \in D THEN NoSession ELSE r.session[a]],
         q.subscribed = r.subscribed, q.published = r.published
  PROVE  Keeps(r, q)
<1>1. MediaOfMembers(q)
  BY DEF Sound, MediaOfMembers
<1>2. DeletedIsEmpty(q)
  BY DEF Sound, DeletedIsEmpty
<1>3. Owed(r) \subseteq Owed(q)
  <2>1. \A a \in Agents : SubscribedTracks(r, a) = SubscribedTracks(q, a)
    BY DEF SubscribedTracks
  <2>. QED  BY <2>1 DEF Owed, TrackedSubscriptions
<1>. QED  BY <1>1, <1>2, <1>3 DEF Keeps, Sound

LEMMA DepartKeeps ==
  ASSUME NEW r, Sound(r), NEW e, NEW D \in SUBSET Agents
  PROVE  Keeps(r, Depart(r, e, D))
<1>. DEFINE s == Stage(r, D, D)
            d == [s EXCEPT
                    !.members = @ \ D,
                    !.connected = @ \ D,
                    !.hostOf = [a \in Agents |-> IF a \in D THEN NoHost ELSE @[a]],
                    !.session = [a \in Agents |-> IF a \in D THEN NoSession ELSE @[a]]]
            c == CollectHosts(d, e)
            q == [c EXCEPT !.notes = IF @ \in D THEN NoAgent ELSE @,
                           !.voice = @ \ D]
<1>1. Keeps(r, s) /\ \A a \in D : s.subscribed[a] = {} /\ s.published[a] = NoMid
  <2>1. Keeps(r, s)
    BY StageKeeps
  <2>2. \A a \in D : s.subscribed[a] = {} /\ s.published[a] = NoMid
    BY DEF Stage, Sound, RoomRecords
  <2>. QED  BY <2>1, <2>2
<1>2. Keeps(s, d)
  <2>. HIDE DEF s
  <2>1. s \in RoomRecords /\ Sound(s)
    BY <1>1 DEF Keeps, Sound
  <2>2. d \in RoomRecords
    BY <2>1 DEF RoomRecords
  <2>3. /\ d.alive = s.alive /\ d.members = s.members \ D
        /\ d.pending = s.pending
        /\ d.session = [a \in Agents |-> IF a \in D THEN NoSession ELSE s.session[a]]
        /\ d.subscribed = s.subscribed /\ d.published = s.published
    BY <2>1 DEF RoomRecords
  <2>. HIDE DEF d
  <2>. QED  BY <1>1, <2>1, <2>2, <2>3, DeletionKeeps
<1>3. Keeps(d, c)
  BY <1>2, CollectHostsKeeps DEF Keeps
<1>4. Keeps(c, q)
  <2>. HIDE DEF c
  <2>1. c \in RoomRecords /\ Sound(c)
    BY <1>3 DEF Keeps, Sound
  <2>2. q \in RoomRecords
    BY <2>1 DEF RoomRecords
  <2>. QED  BY <2>1, <2>2, GrantsKeep DEF RoomRecords
<1>5. Depart(r, e, D) = q
  BY DEF Depart
<1>. QED  BY <1>1, <1>2, <1>3, <1>4, <1>5, KeepsTransitive

LEMMA RevokeSubscribedKeeps ==
  ASSUME NEW r, Sound(r), NEW e, NEW a
  PROVE  Keeps(r, RevokeSubscribed(r, e, a))
<1>1. r.members \subseteq Agents
  BY DEF Sound, RoomRecords
<1>. QED  BY <1>1, StageKeeps DEF RevokeSubscribed, Keeps

\* A new participant, with the readiness its Runtime Host reports.
LEMMA AdmitKeeps ==
  ASSUME NEW r, Sound(r), r.alive, NEW a \in Agents, NEW h \in Hosts \union {NoHost}
  PROVE  Keeps(r, Admit(r, a, h))
<1>. DEFINE q == Admit(r, a, h)
<1>1. q \in RoomRecords
  BY DEF Admit, Sound, RoomRecords
<1>2. /\ q.alive /\ q.members = r.members \union {a} /\ q.pending = r.pending
      /\ q.session = r.session /\ q.subscribed = r.subscribed
      /\ q.published = r.published
  BY DEF Admit, Sound, RoomRecords
<1>. HIDE DEF q
<1>3. MediaOfMembers(q)
  BY <1>2 DEF Sound, MediaOfMembers
<1>4. Owed(r) = Owed(q)
  BY <1>2 DEF Owed, TrackedSubscriptions, SubscribedTracks
<1>5. Keeps(r, q)
  BY <1>1, <1>2, <1>3, <1>4 DEF Keeps, Sound, DeletedIsEmpty
<1>. QED  BY <1>5 DEF q

LEMMA ProjectKeeps ==
  ASSUME NEW r, Sound(r), NEW h \in Hosts, NEW p \in Projections
  PROVE  Keeps(r, Project(r, h, p))
<1>. DEFINE q == Project(r, h, p)
<1>1. q \in RoomRecords
  BY DEF Project, Sound, RoomRecords
<1>2. /\ q.alive = r.alive /\ q.members = r.members /\ q.pending = r.pending
      /\ q.session = r.session /\ q.subscribed = r.subscribed
      /\ q.published = r.published
  BY DEF Project, Sound, RoomRecords
<1>. QED  BY <1>1, <1>2, GrantsKeep DEF Sound

(***************************************************************************)
(* Part 2: the inductive invariant. NoForgottenSubscription alone is not   *)
(* inductive: a reconciliation takes its confirmed tracks off the queue,   *)
(* so they must be closed; a voice request is recorded as a publication,   *)
(* so its track must not be a subscription; and a request that is recorded *)
(* must name an Agent, a session and a mid.                                *)
(***************************************************************************)
RequestSound(q) ==
  /\ q.step = "admitted" => q.agent \in Agents
  /\ q.step \in {"authorized", "cleared"} \union Holding =>
       q.agent \in Agents /\ q.session \in Sessions /\ q.purpose \in Purposes
  /\ q.step \in Holding =>
       /\ q.mid \in Mids
       /\ q.purpose = "voice-reply" => <<q.session, q.mid>> \notin ingress

RequestsSound == \A w \in Workers : RequestSound(worker[w])

ConfirmedIsClosed == \A c \in closers : c.confirmed \intersect ingress = {}

IInv ==
  /\ TypeOK
  /\ MediaOfMembers(room) /\ DeletedIsEmpty(room)
  /\ RequestsSound
  /\ ConfirmedIsClosed
  /\ NoForgottenSubscription

LEMMA LoadKeeps == ASSUME IInv PROVE Sound(room) /\ Keeps(room, Load)
BY NormalizeKeeps DEF IInv, TypeOK, Sound, Load

LEMMA RequestTypes ==
  \A q \in Requests, s \in Steps : [q EXCEPT !.step = s] \in Requests
BY DEF Requests

LEMMA IdleRequest == Idle \in Requests /\ RequestSound(Idle) /\ Idle.step = "idle"
BY DEF Idle, Requests, Steps, RequestSound, Holding

\* What a step that adds no track to ingress has to establish.
LEMMA Step ==
  ASSUME IInv, Sound(room'), enabled' \in BOOLEAN,
         worker' \in [Workers -> Requests], RequestsSound',
         \A c \in closers' : c \in Closers /\ c.confirmed \intersect ingress' = {},
         ingress' \subseteq ingress, egress' \subseteq Tracks,
         forfeited \subseteq forfeited', forfeited' \subseteq Tracks,
         \A t \in ingress' :
           /\ t \in Owed(room) => t \in Owed(room') \union InHand' \union forfeited'
           /\ t \in InHand => t \in Owed(room') \union InHand' \union forfeited'
  PROVE  IInv'
<1>1. TypeOK' /\ MediaOfMembers(room)' /\ DeletedIsEmpty(room)'
  BY DEF IInv, TypeOK, Sound
<1>2. NoForgottenSubscription'
  BY DEF IInv, NoForgottenSubscription, Owed
<1>3. ConfirmedIsClosed'
  BY DEF ConfirmedIsClosed
<1>. QED  BY <1>1, <1>2, <1>3 DEF IInv

LEMMA SnapshotSound ==
  ASSUME IInv, ingress' \subseteq ingress, NEW r, Sound(r), NEW b \in BOOLEAN,
         StartCloser(r, b)
  PROVE  \A c \in closers' : c \in Closers /\ c.confirmed \intersect ingress' = {}
<1>1. r.pending \subseteq Tracks
  BY DEF Sound, RoomRecords
<1>2. [todo |-> r.pending, confirmed |-> {}, reconcile |-> b] \in Closers
  BY <1>1 DEF Closers
<1>3. \A c \in closers : c \in Closers /\ c.confirmed \intersect ingress = {}
  BY DEF IInv, TypeOK, ConfirmedIsClosed
<1>. QED  BY <1>2, <1>3 DEF StartCloser

\* A handler that leaves the Workers and the SFU alone.
LEMMA HandlerStep ==
  ASSUME IInv, Sound(room'), enabled' \in BOOLEAN, UNCHANGED <<worker, sfu>>,
         \A c \in closers' : c \in Closers /\ c.confirmed \intersect ingress' = {},
         forfeited \subseteq forfeited', forfeited' \subseteq Tracks,
         Owed(room) \subseteq Owed(room') \union forfeited'
  PROVE  IInv'
<1>1. ingress' = ingress /\ egress' = egress /\ worker' = worker
  BY DEF sfu
<1>2. InHand' = InHand
  BY <1>1 DEF InHand, TrackOf
<1>3. RequestsSound'
  BY <1>1 DEF IInv, RequestsSound, RequestSound
<1>. QED  BY <1>1, <1>2, <1>3, Step DEF IInv, TypeOK

LEMMA SaveStep ==
  ASSUME IInv, NEW r, Keeps(room, r), Save(r) \/ SaveAndClose(r)
  PROVE  IInv'
<1>1. room' = r /\ enabled' = enabled /\ forfeited' = forfeited
      /\ UNCHANGED <<worker, sfu>> /\ ingress' = ingress
  BY DEF Save, SaveAndClose, sfu
<1>2. \A c \in closers' : c \in Closers /\ c.confirmed \intersect ingress' = {}
  <2>1. CASE Save(r)
    BY <1>1, <2>1 DEF Save, IInv, TypeOK, ConfirmedIsClosed
  <2>2. CASE SaveAndClose(r)
    BY <1>1, <2>2, SnapshotSound DEF SaveAndClose, Keeps
  <2>. QED  BY <2>1, <2>2
<1>. QED  BY <1>1, <1>2, HandlerStep DEF IInv, TypeOK, Keeps

\* A Worker's step: the request in slot w becomes q.
LEMMA RequestStep ==
  ASSUME IInv, NEW w \in Workers, NEW q \in Requests, Become(w, q),
         RequestSound(q), Keeps(room, room'), enabled' = enabled,
         \A c \in closers' : c \in Closers /\ c.confirmed \intersect ingress' = {},
         ingress' \subseteq ingress, egress' \subseteq egress,
         forfeited \subseteq forfeited', forfeited' \subseteq Tracks,
         \/ worker[w].step \notin Holding
         \/ TrackOf(w) \notin ingress'
         \/ TrackOf(w) \in Owed(room') \union forfeited'
         \/ q.step \in Holding /\ TrackOf(w) = <<q.session, q.mid>>
  PROVE  IInv'
<1>1. worker' \in [Workers -> Requests]
  BY DEF Become, IInv, TypeOK
<1>2. worker'[w] = q /\ \A v \in Workers \ {w} : worker'[v] = worker[v]
  BY DEF Become, IInv, TypeOK
<1>3. RequestsSound'
  BY <1>2 DEF IInv, RequestsSound, RequestSound
<1>4. \A t \in ingress' : t \in InHand => t \in Owed(room') \union InHand' \union forfeited'
  <2>. SUFFICES ASSUME NEW t \in ingress', NEW v \in Workers,
                       worker[v].step \in Holding, t = TrackOf(v)
                PROVE  t \in Owed(room') \union InHand' \union forfeited'
    BY DEF InHand
  <2>1. CASE v # w
    BY <1>2, <2>1 DEF InHand, TrackOf
  <2>2. CASE v = w
    BY <1>2, <2>2 DEF InHand, TrackOf
  <2>. QED  BY <2>1, <2>2
<1>. QED  BY <1>1, <1>3, <1>4, Step DEF IInv, TypeOK, Keeps

(***************************************************************************)
(* Part 3: one lemma per group of actions.                                 *)
(***************************************************************************)
LEMMA RegisterAgentStep ==
  ASSUME IInv, NEW a \in Agents, HostsOf[a] \subseteq Hosts, RegisterAgent(Load, a)
  PROVE  IInv'
<1>. DEFINE base == IF room.alive THEN Load ELSE EmptyRoom
<1>1. Sound(base) /\ base.alive /\ Keeps(room, base)
  <2>1. CASE room.alive
    <3>1. Load.alive = room.alive
      BY DEF IInv, TypeOK, RoomRecords, Load, Normalize, NormalizeLiveTranscript,
             StopLiveTranscript, Stage
    <3>. QED  BY <2>1, <3>1, LoadKeeps DEF Keeps
  <2>2. CASE ~room.alive
    BY <2>2, LoadKeeps, EmptyRoomSound, DeletedOwesNothing DEF Keeps, EmptyRoom
  <2>. QED  BY <2>1, <2>2
<1>. HIDE DEF base
<1>2. CASE Save(Admit(base, a, NoHost))
  BY <1>1, <1>2, AdmitKeeps, KeepsTransitive, SaveStep
<1>3. ASSUME NEW h \in Hosts, NEW p \in Projections, Save(Admit(Project(base, h, p), a, h))
      PROVE  IInv'
  <2>1. Keeps(base, Project(base, h, p)) /\ Project(base, h, p).alive
    BY <1>1, ProjectKeeps DEF Project, Sound, RoomRecords
  <2>2. Keeps(Project(base, h, p), Admit(Project(base, h, p), a, h))
    BY <2>1, AdmitKeeps DEF Keeps
  <2>. QED  BY <1>1, <1>3, <2>1, <2>2, KeepsTransitive, SaveStep
<1>. QED  BY <1>2, <1>3 DEF RegisterAgent, base

LEMMA UpdateRuntimeHostStep ==
  ASSUME IInv, NEW a \in Agents, NEW h \in Hosts, NEW p \in Projections,
         UpdateRuntimeHost(Load, a, h, p)
  PROVE  IInv'
<1>. DEFINE r == Load
            x == RevokedByUpdate(r, a, h, p)
            j == Project(r, h, p)
            q == [j EXCEPT !.hostOf[a] = h, !.voice = @ \ x]
            s == Stage(q, {}, x)
            c == CollectHosts(s, enabled)
<1>1. Keeps(room, j)
  BY LoadKeeps, ProjectKeeps, KeepsTransitive DEF Keeps
<1>2. Keeps(j, q)
  <2>. HIDE DEF j, x
  <2>1. j \in RoomRecords /\ Sound(j)
    BY <1>1 DEF Keeps, Sound
  <2>2. q \in RoomRecords
    BY <2>1 DEF RoomRecords
  <2>. QED  BY <2>1, <2>2, GrantsKeep DEF RoomRecords
<1>3. x \in SUBSET Agents
  BY LoadKeeps DEF RevokedByUpdate, Keeps, Sound, RoomRecords
<1>4. Keeps(q, s)
  <2>. HIDE DEF q, x
  <2>. QED  BY <1>2, <1>3, StageKeeps DEF Keeps
<1>5. Keeps(s, c)
  <2>. HIDE DEF s
  <2>. QED  BY <1>4, CollectHostsKeeps DEF Keeps
<1>6. Keeps(room, c)
  <2>. HIDE DEF j, q, s, c
  <2>. QED  BY <1>1, <1>2, <1>4, <1>5, KeepsTransitive
<1>7. SaveAndClose(c)
  BY DEF UpdateRuntimeHost
<1>. QED  BY <1>6, <1>7, SaveStep

LEMMA PresenceStep ==
  ASSUME IInv, NEW a \in Agents,
         EventSocketCloses(Load, a) \/ EventSocketConnects(Load, a)
  PROVE  IInv'
<1>. DEFINE r == Load
<1>1. r \in RoomRecords /\ Sound(r) /\ Keeps(room, r)
  BY LoadKeeps DEF Keeps, Sound
<1>. HIDE DEF r
<1>2. ASSUME NEW C \in SUBSET Agents
      PROVE  Keeps(room, [r EXCEPT !.connected = C])
  <2>1. [r EXCEPT !.connected = C] \in RoomRecords
    BY <1>1 DEF RoomRecords
  <2>2. Keeps(r, [r EXCEPT !.connected = C])
    BY <1>1, <2>1, GrantsKeep DEF RoomRecords
  <2>. QED  BY <1>1, <2>2, KeepsTransitive
<1>3. r.connected \ {a} \in SUBSET Agents /\ r.connected \union {a} \in SUBSET Agents
  BY <1>1 DEF RoomRecords
<1>4. Save([r EXCEPT !.connected = r.connected \ {a}])
        \/ Save([r EXCEPT !.connected = r.connected \union {a}])
  BY DEF EventSocketCloses, EventSocketConnects, r
<1>. QED  BY <1>2, <1>3, <1>4, SaveStep

LEMMA ExpireStep ==
  ASSUME IInv, Expire(Load)
  PROVE  IInv'
<1>1. Sound(Load) /\ Owed(room) \subseteq Owed(Load)
  BY LoadKeeps DEF Keeps
<1>2. Sound(room')
  BY EmptyRoomSound DEF Expire
<1>3. Load.pending \subseteq Tracks /\ forfeited' = forfeited \union Load.pending
  BY <1>1 DEF Sound, RoomRecords, Expire
<1>4. TrackedSubscriptions(Load) = {}
  BY <1>1, TracksOfAgent DEF Expire, TrackedSubscriptions
<1>5. \A c \in closers' : c \in Closers /\ c.confirmed \intersect ingress' = {}
  BY <1>1, SnapshotSound DEF Expire, sfu
<1>. QED  BY <1>1, <1>2, <1>3, <1>4, <1>5, HandlerStep DEF Expire, Owed, IInv, TypeOK

LEMMA RestartStep == ASSUME IInv, Restart PROVE IInv'
<1>1. Owed(room) \subseteq Owed(room') /\ Sound(room')
  BY LoadKeeps DEF Restart
<1>. QED  BY <1>1, HandlerStep DEF Restart, IInv, TypeOK

LEMMA RoomHandlers == ASSUME IInv, RoomStep PROVE IInv'
<1>1. CASE ReadRoom(Load)
  BY <1>1, LoadKeeps, SaveStep DEF ReadRoom
<1>2. CASE RegisterHuman
  <2>1. Keeps(room, EmptyRoom)
    BY <1>2, LoadKeeps, EmptyRoomSound, DeletedOwesNothing DEF RegisterHuman, Keeps
  <2>. QED  BY <1>2, <2>1, SaveStep DEF RegisterHuman
<1>3. ASSUME NEW a \in Agents,
             \/ RegisterAgent(Load, a)
             \/ EventSocketCloses(Load, a)
             \/ EventSocketConnects(Load, a)
             \/ \E h \in HostsOf[a], p \in Projections : UpdateRuntimeHost(Load, a, h, p)
             \/ Leave(Load, a)
      PROVE  IInv'
  <2>1. HostsOf[a] \subseteq Hosts
    BY HostsOfAssumption
  <2>2. CASE Leave(Load, a)
    BY <2>2, LoadKeeps, DepartKeeps, KeepsTransitive, SaveStep DEF Leave, Keeps
  <2>. QED  BY <1>3, <2>1, <2>2, RegisterAgentStep, PresenceStep, UpdateRuntimeHostStep
<1>4. ASSUME NEW D \in SUBSET Agents, Alarm(Load, D)
      PROVE  IInv'
  BY <1>4, LoadKeeps, DepartKeeps, KeepsTransitive, SaveStep DEF Alarm, Keeps
<1>. QED  BY <1>1, <1>2, <1>3, <1>4, ExpireStep, RestartStep DEF RoomStep

LEMMA HumanMessages == ASSUME IInv, HumanStep PROVE IInv'
<1>. DEFINE r == Load
<1>1. r \in RoomRecords /\ Sound(r) /\ Keeps(room, r)
  BY LoadKeeps DEF Keeps, Sound
<1>2. \/ \E a \in Agents :
          MeetingNotesStart(r, a) \/ AgentVoiceOn(r, a) \/ AgentVoiceOff(r, a)
      \/ MeetingNotesStop(r)
      \/ \E h \in Hosts : LiveTranscriptStart(r, h)
      \/ LiveTranscriptStop(r)
  BY DEF HumanStep
<1>. HIDE DEF r
\* A change of grants g followed by the staging of some directions.
<1>3. ASSUME NEW g \in RoomRecords, g.alive = r.alive, g.members = r.members,
             g.pending = r.pending, g.session = r.session,
             g.subscribed = r.subscribed, g.published = r.published
      PROVE  Keeps(room, g)
  <2>1. Keeps(r, g)
    BY <1>1, <1>3, GrantsKeep
  <2>. QED  BY <1>1, <2>1, KeepsTransitive
<1>4. ASSUME NEW g, Keeps(room, g), NEW a
      PROVE  Keeps(room, RevokeSubscribed(g, enabled, a))
  BY <1>4, RevokeSubscribedKeeps, KeepsTransitive DEF Keeps
<1>5. ASSUME NEW a \in Agents,
             MeetingNotesStart(r, a) \/ AgentVoiceOn(r, a) \/ AgentVoiceOff(r, a)
      PROVE  IInv'
  <2>1. CASE MeetingNotesStart(r, a)
    <3>1. [r EXCEPT !.notes = a] \in RoomRecords
      BY <1>1 DEF RoomRecords
    <3>2. Keeps(room, [r EXCEPT !.notes = a])
      BY <1>1, <1>3, <3>1 DEF RoomRecords
    <3>. QED  BY <2>1, <3>2, <1>4, SaveStep DEF MeetingNotesStart
  <2>2. CASE AgentVoiceOn(r, a)
    <3>1. [r EXCEPT !.voice = r.voice \union {a}] \in RoomRecords
      BY <1>1 DEF RoomRecords
    <3>2. Keeps(room, [r EXCEPT !.voice = r.voice \union {a}])
      BY <1>1, <1>3, <3>1 DEF RoomRecords
    <3>. QED  BY <2>2, <3>2, SaveStep DEF AgentVoiceOn
  <2>3. CASE AgentVoiceOff(r, a)
    <3>. DEFINE s == Stage(r, {}, {a})
                q == [s EXCEPT !.voice = @ \ {a}]
    <3>1. Keeps(r, s)
      BY <1>1, StageKeeps
    <3>2. Keeps(s, q)
      <4>. HIDE DEF s
      <4>1. s \in RoomRecords /\ Sound(s)
        BY <3>1 DEF Keeps, Sound
      <4>2. q \in RoomRecords
        BY <4>1 DEF RoomRecords
      <4>. QED  BY <4>1, <4>2, GrantsKeep DEF RoomRecords
    <3>3. SaveAndClose(q)
      BY <2>3 DEF AgentVoiceOff
    <3>. QED  BY <1>1, <3>1, <3>2, <3>3, KeepsTransitive, SaveStep
  <2>. QED  BY <1>5, <2>1, <2>2, <2>3
<1>6. CASE MeetingNotesStop(r)
  <2>1. [r EXCEPT !.notes = NoAgent] \in RoomRecords
    BY <1>1 DEF RoomRecords
  <2>2. Keeps(room, [r EXCEPT !.notes = NoAgent])
    BY <1>1, <1>3, <2>1 DEF RoomRecords
  <2>. QED  BY <1>6, <2>2, <1>4, SaveStep DEF MeetingNotesStop
<1>7. ASSUME NEW h \in Hosts, LiveTranscriptStart(r, h)
      PROVE  IInv'
  <2>1. [r EXCEPT !.producer = h] \in RoomRecords
    BY <1>1 DEF RoomRecords
  <2>2. Keeps(room, [r EXCEPT !.producer = h])
    BY <1>1, <1>3, <2>1 DEF RoomRecords
  <2>. QED  BY <1>7, <2>2, SaveStep DEF LiveTranscriptStart
<1>8. CASE LiveTranscriptStop(r)
  BY <1>1, <1>8, StopLiveTranscriptKeeps, KeepsTransitive, SaveStep
     DEF LiveTranscriptStop
<1>. QED  BY <1>2, <1>5, <1>6, <1>7, <1>8

\* The steps of a request that create or close no track.
LEMMA QuietRequestStep ==
  ASSUME IInv, NEW w \in Workers,
         \/ \E a \in Agents : \/ AdmitSession(Load, w, a)
                              \/ \E p \in Purposes : Authorize(Load, w, a, p)
         \/ Reauthorize(Load, w)
         \/ CreateTrackFails(w)
  PROVE  IInv'
<1>. DEFINE r == Load
<1>1. r \in RoomRecords /\ Keeps(room, r) /\ Keeps(room, room)
  BY LoadKeeps DEF Keeps, Sound
<1>2. worker[w] \in Requests /\ RequestSound(worker[w])
  BY DEF IInv, TypeOK, RequestsSound
<1>3. ASSUME NEW q \in Requests, Become(w, q), RequestSound(q),
             worker[w].step \notin Holding, room' \in {room, r},
             UNCHANGED <<enabled, closers, sfu, forfeited>>
      PROVE  IInv'
  <2>1. ingress' = ingress /\ egress' = egress
    BY <1>3 DEF sfu
  <2>2. \A c \in closers' : c \in Closers /\ c.confirmed \intersect ingress' = {}
    BY <1>3, <2>1 DEF IInv, TypeOK, ConfirmedIsClosed
  <2>. QED  BY <1>1, <1>3, <2>1, <2>2, RequestStep DEF IInv, TypeOK
<1>. HIDE DEF r
<1>4. ASSUME NEW a \in Agents, AdmitSession(r, w, a)
      PROVE  IInv'
  <2>. DEFINE q == [Idle EXCEPT !.step = "admitted", !.agent = a]
  <2>1. q \in Requests /\ RequestSound(q)
    BY DEF Idle, Requests, Steps, RequestSound, Holding
  <2>2. worker[w].step \notin Holding
    <3>1. worker[w] = Idle
      BY <1>4 DEF AdmitSession
    <3>. QED  BY <3>1, IdleRequest DEF Holding
  <2>3. /\ Become(w, q) /\ room' \in {room, r}
        /\ UNCHANGED <<enabled, closers, sfu, forfeited>>
    BY <1>4 DEF AdmitSession
  <2>. HIDE DEF q
  <2>. QED  BY <1>3, <2>1, <2>2, <2>3
<1>5. ASSUME NEW a \in Agents, NEW p \in Purposes, Authorize(r, w, a, p)
      PROVE  IInv'
  <2>. DEFINE q == [step |-> IF p = "voice-reply" THEN "cleared" ELSE "authorized",
                    agent |-> a, session |-> r.session[a], mid |-> NoMid, purpose |-> p]
  <2>1. r.session[a] \in Sessions
    BY <1>1, <1>5 DEF Authorize, RoomRecords
  <2>2. q \in Requests /\ RequestSound(q)
    BY <2>1 DEF Requests, Steps, RequestSound, Holding
  <2>3. worker[w].step \notin Holding
    BY <1>5 DEF Authorize, Idle, Holding
  <2>4. /\ Become(w, q) /\ room' \in {room, r}
        /\ UNCHANGED <<enabled, closers, sfu, forfeited>>
    BY <1>5 DEF Authorize
  <2>. HIDE DEF q
  <2>. QED  BY <1>3, <2>2, <2>3, <2>4
<1>6. CASE Reauthorize(r, w)
  <2>. DEFINE q == [worker[w] EXCEPT !.step = "cleared"]
  <2>1. q \in Requests /\ RequestSound(q)
    BY <1>2, <1>6 DEF Reauthorize, Requests, Steps, RequestSound, Holding
  <2>. QED  BY <1>3, <1>6, <2>1, IdleRequest DEF Reauthorize, Holding
<1>7. CASE CreateTrackFails(w)
  BY <1>3, <1>7, IdleRequest DEF CreateTrackFails, Holding
<1>. QED  BY <1>4, <1>5, <1>6, <1>7 DEF r

LEMMA AttachSessionStep ==
  ASSUME IInv, NEW w \in Workers, NEW s \in Sessions, AttachSession(Load, w, s)
  PROVE  IInv'
<1>. DEFINE r == Load
            a == worker[w].agent
            g == Stage(r, {a}, {a})
            q == [g EXCEPT !.session[a] = s]
<1>1. Keeps(room, r) /\ Sound(r)
  BY LoadKeeps DEF Keeps
<1>2. worker[w].step = "admitted" /\ a \in Agents
  BY DEF AttachSession, IInv, RequestsSound, RequestSound
<1>3. ingress' = ingress /\ egress' = egress /\ forfeited' = forfeited
      /\ enabled' = enabled /\ Become(w, Idle)
  BY DEF AttachSession, sfu
<1>4. ASSUME Keeps(room, room'),
             \A c \in closers' : c \in Closers /\ c.confirmed \intersect ingress' = {}
      PROVE  IInv'
  BY <1>2, <1>3, <1>4, IdleRequest, RequestStep DEF IInv, TypeOK, Holding
<1>5. CASE room' = r /\ closers' = closers
  BY <1>1, <1>3, <1>4, <1>5 DEF IInv, TypeOK, ConfirmedIsClosed
<1>6. CASE a \in r.members /\ room' = q /\ StartCloser(room', TRUE)
  <2>1. Keeps(r, g)
    BY <1>1, <1>2, StageKeeps
  <2>2. /\ g \in RoomRecords /\ g.members = r.members
        /\ g.subscribed[a] = {} /\ g.published[a] = NoMid
    BY <1>1, <1>2, <2>1 DEF Keeps, Sound, RoomRecords, Stage
  <2>3. Keeps(g, q)
    <3>. HIDE DEF g
    <3>1. /\ q \in RoomRecords /\ q.alive = g.alive /\ q.members = g.members
          /\ q.pending = g.pending /\ q.subscribed = g.subscribed
          /\ q.published = g.published
          /\ \A b \in Agents \ {a} : q.session[b] = g.session[b]
          /\ q.session[a] = s
      BY <1>2, <2>2 DEF RoomRecords
    <3>. HIDE DEF q
    <3>2. MediaOfMembers(q) /\ DeletedIsEmpty(q)
      BY <1>6, <2>1, <2>2, <3>1 DEF Keeps, Sound, MediaOfMembers, DeletedIsEmpty
    <3>3. \A b \in Agents : SubscribedTracks(g, b) \subseteq SubscribedTracks(q, b)
      BY <2>2, <3>1 DEF SubscribedTracks
    <3>. QED  BY <3>1, <3>2, <3>3 DEF Keeps, Sound, Owed, TrackedSubscriptions
  <2>4. Keeps(room, q)
    BY <1>1, <2>1, <2>3, KeepsTransitive
  <2>. QED  BY <1>3, <1>4, <1>6, <2>4, SnapshotSound DEF Keeps
<1>. QED  BY <1>5, <1>6 DEF AttachSession

LEMMA CreateTrackStep ==
  ASSUME IInv, NEW w \in Workers, NEW m \in Mids, CreateTrack(w, m)
  PROVE  IInv'
<1>. DEFINE q == worker[w]
            t == <<q.session, m>>
            n == [q EXCEPT !.step = "created", !.mid = m]
<1>1. q \in Requests /\ q.step = "cleared" /\ RequestSound(q)
  BY DEF CreateTrack, IInv, TypeOK, RequestsSound
<1>2. t \in Tracks /\ t \notin Known
  BY <1>1 DEF CreateTrack, RequestSound, Tracks
<1>3. n \in Requests /\ n.step = "created" /\ n.mid = m /\ n.session = q.session
      /\ n.agent = q.agent /\ n.purpose = q.purpose
  BY <1>1 DEF Requests, Steps
<1>4. /\ worker' \in [Workers -> Requests] /\ worker'[w] = n
      /\ \A v \in Workers \ {w} : worker'[v] = worker[v]
  BY <1>3 DEF CreateTrack, Become, IInv, TypeOK
<1>5. /\ ingress' \subseteq ingress \union {t} /\ egress' \subseteq egress \union {t}
      /\ q.purpose = "voice-reply" => ingress' = ingress
      /\ UNCHANGED <<room, enabled, closers, forfeited>>
  BY DEF CreateTrack
<1>. HIDE DEF n
<1>6. TypeOK'
  BY <1>2, <1>4, <1>5 DEF IInv, TypeOK
<1>7. MediaOfMembers(room)' /\ DeletedIsEmpty(room)'
  BY <1>5 DEF IInv
<1>8. RequestsSound'
  <2>1. t \notin ingress
    BY <1>2 DEF Known
  <2>2. RequestSound(worker[w])'
    BY <1>1, <1>3, <1>4, <1>5, <2>1 DEF RequestSound, Holding
  <2>3. ASSUME NEW v \in Workers \ {w} PROVE RequestSound(worker[v])'
    <3>1. worker[v].step \in Holding => TrackOf(v) # t
      BY <1>2 DEF Known, InHand
    <3>. QED  BY <1>4, <1>5, <3>1 DEF IInv, RequestsSound, RequestSound, TrackOf
  <2>. QED  BY <1>4, <2>2, <2>3 DEF RequestsSound
<1>9. ConfirmedIsClosed'
  <2>1. \A c \in closers : t \notin c.confirmed
    BY <1>2 DEF Known, ClosersTracks
  <2>. QED  BY <1>5, <2>1 DEF IInv, ConfirmedIsClosed
<1>10. NoForgottenSubscription'
  <2>1. TrackOf(w)' = t /\ t \in InHand'
    BY <1>3, <1>4 DEF TrackOf, InHand, Holding
  <2>2. InHand \subseteq InHand'
    BY <1>1, <1>4 DEF InHand, TrackOf, Holding
  <2>. QED  BY <1>5, <2>1, <2>2 DEF IInv, NoForgottenSubscription
<1>. QED  BY <1>6, <1>7, <1>8, <1>9, <1>10 DEF IInv

\* A track that is recorded is owed from then on: by the participant record of
\* the requesting Agent if it is a subscription.
LEMMA RecordKeeps ==
  ASSUME NEW r, Sound(r), NEW q \in Requests, RequestSound(q), q.step \in Holding,
         Accepts(r, q)
  PROVE  /\ Keeps(r, Record(r, q))
         /\ q.purpose # "voice-reply" => <<q.session, q.mid>> \in Owed(Record(r, q))
<1>. DEFINE u == Record(r, q)
            a == q.agent
<1>1. /\ a \in r.members /\ a \in Agents /\ q.mid \in Mids /\ q.session \in Sessions
      /\ r.session[a] = q.session
  BY DEF Accepts, Found, RequestSound
<1>2. r \in RoomRecords
  BY DEF Sound
<1>3. CASE q.purpose = "voice-reply"
  <2>1. u = [r EXCEPT !.published[a] = q.mid]
    BY <1>3 DEF Record
  <2>2. /\ u \in RoomRecords /\ u.alive = r.alive /\ u.members = r.members
        /\ u.pending = r.pending /\ u.session = r.session
        /\ u.subscribed = r.subscribed
        /\ \A b \in Agents \ {a} : u.published[b] = r.published[b]
    BY <1>1, <1>2, <2>1 DEF RoomRecords
  <2>. HIDE DEF u
  <2>3. MediaOfMembers(u) /\ DeletedIsEmpty(u)
    BY <1>1, <2>2, NullsAreNotValues DEF Sound, MediaOfMembers, DeletedIsEmpty
  <2>4. Owed(u) = Owed(r)
    BY <2>2 DEF Owed, TrackedSubscriptions, SubscribedTracks
  <2>5. Keeps(r, u)
    BY <2>2, <2>3, <2>4 DEF Keeps, Sound
  <2>. QED  BY <1>3, <2>5 DEF u
<1>4. CASE q.purpose # "voice-reply"
  <2>1. u = [r EXCEPT !.subscribed[a] = r.subscribed[a] \union {q.mid}]
    BY <1>4 DEF Record
  <2>. DEFINE f == [r.subscribed EXCEPT ![a] = @ \union {q.mid}]
  <2>a. f \in [Agents -> SUBSET Mids]
    BY <1>1, <1>2 DEF RoomRecords
  <2>b. u = [r EXCEPT !.subscribed = f]
    BY <2>1, <1>2 DEF RoomRecords
  <2>2. /\ u \in RoomRecords /\ u.alive = r.alive /\ u.members = r.members
        /\ u.pending = r.pending /\ u.session = r.session
        /\ u.published = r.published
        /\ u.subscribed[a] = r.subscribed[a] \union {q.mid}
        /\ \A b \in Agents \ {a} : u.subscribed[b] = r.subscribed[b]
    BY <1>1, <1>2, <2>a, <2>b DEF RoomRecords
  <2>. HIDE DEF u, f
  <2>3. MediaOfMembers(u) /\ DeletedIsEmpty(u)
    BY <1>1, <2>2, NullsAreNotValues DEF Sound, MediaOfMembers, DeletedIsEmpty
  <2>4. \A b \in Agents : SubscribedTracks(r, b) \subseteq SubscribedTracks(u, b)
    BY <2>2 DEF SubscribedTracks
  <2>5. <<q.session, q.mid>> \in SubscribedTracks(u, a)
    BY <1>1, <2>2 DEF SubscribedTracks
  <2>6. Owed(r) \subseteq Owed(u)
    BY <2>2, <2>4 DEF Owed, TrackedSubscriptions
  <2>7. <<q.session, q.mid>> \in Owed(u)
    BY <1>1, <2>5 DEF Owed, TrackedSubscriptions
  <2>8. Keeps(r, u)
    BY <2>2, <2>3, <2>6 DEF Keeps, Sound
  <2>. QED  BY <2>7, <2>8 DEF u
<1>. QED  BY <1>3, <1>4

LEMMA RegisterTrackStep ==
  ASSUME IInv, NEW w \in Workers, RegisterTrack(Load, w)
  PROVE  IInv'
<1>. DEFINE r == Load
            q == worker[w]
            n == [q EXCEPT !.step = "refused"]
<1>1. Keeps(room, r) /\ Sound(r)
  BY LoadKeeps DEF Keeps
<1>2. q \in Requests /\ RequestSound(q) /\ q.step = "created"
  BY DEF RegisterTrack, IInv, TypeOK, RequestsSound
<1>3. ingress' = ingress /\ egress' = egress /\ forfeited' = forfeited
      /\ enabled' = enabled /\ closers' = closers
  BY DEF RegisterTrack, sfu
<1>4. \A c \in closers' : c \in Closers /\ c.confirmed \intersect ingress' = {}
  BY <1>3 DEF IInv, TypeOK, ConfirmedIsClosed
<1>5. CASE Accepts(r, q) /\ room' = Record(r, q) /\ Become(w, Idle)
  <2>1. Keeps(r, Record(r, q))
        /\ (q.purpose # "voice-reply" => TrackOf(w) \in Owed(room'))
    BY <1>1, <1>2, <1>5, RecordKeeps DEF Holding, TrackOf
  <2>2. q.purpose = "voice-reply" => TrackOf(w) \notin ingress'
    BY <1>2, <1>3 DEF RequestSound, Holding, TrackOf
  <2>3. Keeps(room, room')
    BY <1>1, <1>5, <2>1, KeepsTransitive
  <2>. QED  BY <1>3, <1>4, <1>5, <2>1, <2>2, <2>3, IdleRequest, RequestStep
            DEF IInv, TypeOK
<1>6. CASE room' = r /\ Become(w, n)
  <2>1. n \in Requests /\ n.step = "refused" /\ n.session = q.session /\ n.mid = q.mid
        /\ n.agent = q.agent /\ n.purpose = q.purpose
    BY <1>2 DEF Requests, Steps
  <2>. HIDE DEF n
  <2>2. RequestSound(n)
    BY <1>2, <2>1 DEF RequestSound, Holding
  <2>3. n.step \in Holding /\ TrackOf(w) = <<n.session, n.mid>>
    BY <2>1 DEF Holding, TrackOf
  <2>4. n \in Requests /\ Become(w, n) /\ Keeps(room, room')
    BY <1>1, <1>6, <2>1
  <2>. QED  BY <1>3, <1>4, <2>2, <2>3, <2>4, RequestStep DEF IInv, TypeOK
<1>. QED  BY <1>5, <1>6 DEF RegisterTrack

LEMMA CompensateStep ==
  ASSUME IInv, NEW w \in Workers, CompensateSucceeds(w) \/ CompensateFails(w)
  PROVE  IInv'
<1>. DEFINE q == worker[w]
            n == [q EXCEPT !.step = "unresolved"]
<1>1. q \in Requests /\ RequestSound(q) /\ q.step = "refused"
  BY DEF CompensateSucceeds, CompensateFails, IInv, TypeOK, RequestsSound
<1>2. /\ UNCHANGED <<room, enabled, closers, forfeited>>
      /\ ingress' \subseteq ingress /\ egress' \subseteq egress
  BY DEF CompensateSucceeds, CompensateFails, Carry, sfu
<1>3. \A c \in closers' : c \in Closers /\ c.confirmed \intersect ingress' = {}
  BY <1>2 DEF IInv, TypeOK, ConfirmedIsClosed
<1>4. Keeps(room, room')
  BY <1>2, LoadKeeps DEF Keeps
<1>5. CASE CompensateSucceeds(w)
  <2>1. TrackOf(w) \notin ingress' /\ Become(w, Idle)
    BY <1>5 DEF CompensateSucceeds, Carry
  <2>. QED  BY <1>2, <1>3, <1>4, <2>1, IdleRequest, RequestStep DEF IInv, TypeOK
<1>6. CASE CompensateFails(w)
  <2>1. n \in Requests /\ n.step = "unresolved" /\ n.session = q.session /\ n.mid = q.mid
        /\ n.agent = q.agent /\ n.purpose = q.purpose
    BY <1>1 DEF Requests, Steps
  <2>2. Become(w, n)
    BY <1>6 DEF CompensateFails
  <2>. HIDE DEF n
  <2>3. RequestSound(n) /\ n.step \in Holding /\ TrackOf(w) = <<n.session, n.mid>>
    BY <1>1, <2>1 DEF RequestSound, Holding, TrackOf
  <2>. QED  BY <1>2, <1>3, <1>4, <2>1, <2>2, <2>3, RequestStep DEF IInv, TypeOK
<1>. QED  BY <1>5, <1>6

LEMMA HandOffStep ==
  ASSUME IInv, NEW w \in Workers, HandOff(Load, w)
  PROVE  IInv'
<1>. DEFINE r == Load
            t == TrackOf(w)
            q == [r EXCEPT !.pending = r.pending \union {t}]
<1>1. Keeps(room, r) /\ Sound(r) /\ Keeps(room, room)
  BY LoadKeeps DEF Keeps
<1>2. t \in Tracks
  BY DEF HandOff, IInv, RequestsSound, RequestSound, Holding, TrackOf, Tracks
<1>3. /\ ingress' = ingress /\ egress' = egress /\ closers' = closers
      /\ enabled' = enabled /\ Become(w, Idle)
  BY DEF HandOff, sfu
<1>4. \A c \in closers' : c \in Closers /\ c.confirmed \intersect ingress' = {}
  BY <1>3 DEF IInv, TypeOK, ConfirmedIsClosed
<1>5. CASE room.alive /\ room' = q /\ forfeited' = forfeited
  <2>1. r.alive = room.alive
    BY DEF IInv, TypeOK, RoomRecords, Load, Normalize, NormalizeLiveTranscript,
           StopLiveTranscript, Stage
  <2>2. /\ q \in RoomRecords /\ q.alive = r.alive /\ q.members = r.members
        /\ q.session = r.session /\ q.subscribed = r.subscribed
        /\ q.published = r.published /\ q.pending = r.pending \union {t}
    BY <1>1, <1>2 DEF Sound, RoomRecords
  <2>. HIDE DEF q
  <2>3. MediaOfMembers(q) /\ DeletedIsEmpty(q)
    BY <1>1, <1>5, <2>1, <2>2 DEF Sound, MediaOfMembers, DeletedIsEmpty
  <2>4. Owed(r) \subseteq Owed(q) /\ t \in Owed(q)
    BY <2>2 DEF Owed, TrackedSubscriptions, SubscribedTracks
  <2>5. Keeps(room, room') /\ t \in Owed(room')
    BY <1>1, <1>5, <2>2, <2>3, <2>4 DEF Keeps, Sound
  <2>. QED  BY <1>3, <1>4, <1>5, <2>5, IdleRequest, RequestStep DEF IInv, TypeOK
<1>6. CASE forfeited' = forfeited \union {t} /\ room' = room
  BY <1>1, <1>2, <1>3, <1>4, <1>6, IdleRequest, RequestStep DEF IInv, TypeOK
<1>. QED  BY <1>5, <1>6 DEF HandOff

LEMMA CleanupAttempts ==
  ASSUME IInv, NEW c \in closers,
         (\E s \in Sessions : CloseSession(c, s)) \/ Reconcile(Load, c)
  PROVE  IInv'
<1>. DEFINE r == Load
<1>1. Keeps(room, r) /\ Sound(r) /\ Keeps(room, room) /\ c \in Closers
  BY LoadKeeps DEF Keeps, IInv, TypeOK
<1>2. ASSUME NEW s \in Sessions, CloseSession(c, s)
      PROVE  IInv'
  <2>. DEFINE T == OfSession(c.todo, s)
              rest == [c EXCEPT !.todo = @ \ T]
              done == [rest EXCEPT !.confirmed = @ \union T]
  <2>1. /\ UNCHANGED <<room, enabled, worker, forfeited>>
        /\ ingress' \subseteq ingress /\ egress' \subseteq egress
        /\ closers' \subseteq closers \union {rest, done}
        /\ done \in closers' \ closers => ingress' = ingress \ T \/ rest = done
    BY <1>2 DEF CloseSession, Carry, sfu
  <2>2. /\ rest \in Closers /\ done \in Closers
        /\ rest.confirmed = c.confirmed /\ done.confirmed = c.confirmed \union T
    BY <1>1 DEF Closers, OfSession
  <2>. HIDE DEF rest, done, T
  <2>3. \A d \in closers' : d \in Closers /\ d.confirmed \intersect ingress' = {}
    BY <2>1, <2>2 DEF IInv, TypeOK, ConfirmedIsClosed
  <2>4. RequestsSound' /\ InHand' = InHand
    BY <2>1 DEF IInv, RequestsSound, RequestSound, InHand, TrackOf
  <2>5. Sound(room') /\ Owed(room') = Owed(room)
    BY <1>1, <2>1 DEF Keeps
  <2>. QED  BY <2>1, <2>3, <2>4, <2>5, Step DEF IInv, TypeOK
<1>3. CASE Reconcile(r, c)
  <2>. DEFINE q == [r EXCEPT !.pending = r.pending \ c.confirmed]
  <2>1. /\ UNCHANGED <<enabled, worker, sfu, forfeited>>
        /\ ingress' = ingress /\ egress' = egress /\ closers' \subseteq closers
        /\ room' \in {room, q}
    BY <1>3 DEF Reconcile, sfu
  <2>2. /\ q \in RoomRecords /\ q.alive = r.alive /\ q.members = r.members
        /\ q.session = r.session /\ q.subscribed = r.subscribed
        /\ q.published = r.published /\ q.pending = r.pending \ c.confirmed
    BY <1>1 DEF Sound, RoomRecords
  <2>. HIDE DEF q
  <2>3. MediaOfMembers(q) /\ DeletedIsEmpty(q)
    BY <1>1, <2>2 DEF Sound, MediaOfMembers, DeletedIsEmpty
  <2>4. \A t \in ingress : t \in Owed(r) => t \in Owed(q)
    BY <2>2 DEF IInv, ConfirmedIsClosed, Owed, TrackedSubscriptions, SubscribedTracks
  <2>5. Sound(room') /\ \A t \in ingress' : t \in Owed(room) => t \in Owed(room')
    BY <1>1, <2>1, <2>2, <2>3, <2>4 DEF Keeps, Sound
  <2>6. RequestsSound' /\ InHand' = InHand
    BY <2>1 DEF IInv, RequestsSound, RequestSound, InHand, TrackOf
  <2>7. \A d \in closers' : d \in Closers /\ d.confirmed \intersect ingress' = {}
    BY <2>1 DEF IInv, TypeOK, ConfirmedIsClosed
  <2>. QED  BY <2>1, <2>5, <2>6, <2>7, Step DEF IInv, TypeOK
<1>. QED  BY <1>2, <1>3

(***************************************************************************)
(* Part 4: the theorems on types and on what is forgotten.                 *)
(***************************************************************************)
LEMMA InitIInv == Init => IInv
<1>. SUFFICES ASSUME Init PROVE IInv
  OBVIOUS
<1>1. worker \in [Workers -> Requests] /\ \A w \in Workers : worker[w] = Idle
  BY IdleRequest DEF Init
<1>2. TypeOK /\ MediaOfMembers(room) /\ DeletedIsEmpty(room)
  BY <1>1, EmptyRoomSound DEF Init, TypeOK, Sound
<1>. QED  BY <1>1, <1>2, IdleRequest
          DEF Init, IInv, RequestsSound, ConfirmedIsClosed, NoForgottenSubscription

LEMMA NextIInv == IInv /\ [Next]_vars => IInv'
<1>. SUFFICES ASSUME IInv, [Next]_vars PROVE IInv'
  OBVIOUS
<1>1. CASE RoomStep
  BY <1>1, RoomHandlers
<1>2. CASE HumanStep
  BY <1>2, HumanMessages
<1>3. ASSUME NEW w \in Workers, WorkerStep(w)
      PROVE  IInv'
  BY <1>3, QuietRequestStep, AttachSessionStep, CreateTrackStep, RegisterTrackStep,
     CompensateStep, HandOffStep DEF WorkerStep
<1>4. CASE CloserStep
  BY <1>4, CleanupAttempts DEF CloserStep
<1>5. CASE UNCHANGED vars
  BY <1>5 DEF vars, IInv, TypeOK, MediaOfMembers, DeletedIsEmpty, RequestsSound,
     RequestSound, ConfirmedIsClosed, NoForgottenSubscription, TrackedSubscriptions,
     SubscribedTracks, InHand, TrackOf
<1>. QED  BY <1>1, <1>2, <1>3, <1>4, <1>5 DEF Next

\* The record, the requests and the attempts keep their types.
THEOREM TypeCorrect == Spec => []TypeOK
<1>1. IInv => TypeOK
  BY DEF IInv
<1>. QED  BY <1>1, InitIInv, NextIInv, PTL DEF Spec

\* No live Human audio track is forgotten, whichever grants, requests, cleanup
\* attempts, departures, host moves, restarts and failures interleave.
THEOREM NeverForgotten == Spec => []NoForgottenSubscription
<1>1. IInv => NoForgottenSubscription
  BY DEF IInv
<1>. QED  BY <1>1, InitIInv, NextIInv, PTL DEF Spec
-----------------------------------------------------------------------------
(* Part 5: media and grants. What a saved room record satisfies. *)

\* No two Agents share a session, and no mid is received and published.
OwnTracks(r) ==
  /\ \A a, b \in Agents :
       r.session[a] = r.session[b] => a = b \/ r.session[a] = NoSession
  /\ \A a \in Agents : r.published[a] \notin r.subscribed[a]

Spared(r) == r.pending \intersect Tracked(r) = {}

HostsKnown(r) == \A a \in Agents : r.hostOf[a] \in HostsOf[a] \union {NoHost}

\* SubscribedImpliesGrant and PublishedImpliesGrant of any record.
HearsByGrant(r) ==
  \A a \in r.members :
    (StaysOnHost(a) /\ r.subscribed[a] # {}) =>
      \/ r.notes = a
      \/ r.producer # NoHost /\ r.hostOf[a] = r.producer

SpeaksByGrant(r) == \A a \in r.members : r.published[a] # NoMid => a \in r.voice

Follows(r) == HostsKnown(r) /\ HearsByGrant(r) /\ SpeaksByGrant(r)

Hears(r, e, a) == r.notes = a \/ LiveTranscriptAuthorized(r, e, a)

-----------------------------------------------------------------------------
(* What a handler makes of the record it has loaded. *)

\* Tracks only move from the record to the queue: in whole directions of an
\* Agent, and nothing leaves the queue.
Revises(r, q) ==
  /\ r.pending \subseteq q.pending
  /\ \A a \in Agents :
       /\ \/ q.session[a] = r.session[a]
          \/ q.session[a] = NoSession /\ q.subscribed[a] = {} /\ q.published[a] = NoMid
       /\ q.subscribed[a] \in {r.subscribed[a], {}}
       /\ q.published[a] \in {r.published[a], NoMid}
  /\ \A t \in q.pending \ r.pending : \E a \in Agents :
       \/ t \in SubscribedTracks(r, a) /\ q.subscribed[a] = {}
       \/ t \in PublishedTracks(r, a) /\ q.published[a] = NoMid

\* The media of an Agent goes only with its grant.
Independent(r, q, e) ==
  \A a \in Agents :
    q.session[a] = r.session[a] =>
      /\ r.subscribed[a] \subseteq q.subscribed[a] \/ ~Hears(q, e, a)
      /\ \/ q.published[a] = r.published[a]
         \/ r.published[a] = NoMid \/ a \notin q.voice

\* Only a ready Agent is given a voice.
VoicesAreReady(r, q) ==
  \A a \in q.voice \ r.voice :
    a \in r.members \intersect r.connected /\ r.hostOf[a] \in r.tts

Handled(r, q, e) ==
  /\ Revises(r, q)
  /\ Follows(r) => Follows(q)
  /\ Independent(r, q, e)
  /\ VoicesAreReady(r, q)

-----------------------------------------------------------------------------
(* The inductive invariant. *)

ClosersSpare ==
  \A c \in closers : (c.todo \union c.confirmed) \intersect Tracked(room) = {}

\* A track in the hands of a request is nowhere else.
HandsAreApart ==
  \A w \in Workers :
    worker[w].step \in Holding =>
      /\ TrackOf(w) \notin Tracked(room) \union room.pending \union ClosersTracks
      /\ \A v \in Workers :
           worker[v].step \in Holding /\ TrackOf(v) = TrackOf(w) => v = w

\* What an attempt has confirmed is no longer carried.
ConfirmedIsSilent ==
  \A c \in closers : c.confirmed \intersect (ingress \union egress) = {}

GInv ==
  /\ IInv
  /\ OwnTracks(room) /\ Spared(room)
  /\ Follows(room)
  /\ ClosersSpare /\ HandsAreApart /\ ConfirmedIsSilent

-----------------------------------------------------------------------------
(* Part 6: the operators of MediaGrants. *)

LEMMA RevisesTransitive ==
  ASSUME NEW r, NEW q, NEW u, Revises(r, q), Revises(q, u)
  PROVE  Revises(r, u)
<1>1. r.pending \subseteq u.pending
  BY DEF Revises
<1>2. ASSUME NEW a \in Agents
      PROVE  /\ \/ u.session[a] = r.session[a]
                \/ /\ u.session[a] = NoSession
                   /\ u.subscribed[a] = {} /\ u.published[a] = NoMid
             /\ u.subscribed[a] \in {r.subscribed[a], {}}
             /\ u.published[a] \in {r.published[a], NoMid}
  BY <1>2 DEF Revises
<1>3. ASSUME NEW t \in u.pending \ r.pending
      PROVE  \E a \in Agents : \/ t \in SubscribedTracks(r, a) /\ u.subscribed[a] = {}
                               \/ t \in PublishedTracks(r, a) /\ u.published[a] = NoMid
  <2>1. CASE t \in q.pending
    BY <1>3, <2>1 DEF Revises
  <2>2. CASE t \notin q.pending
    <3>1. PICK a \in Agents : \/ t \in SubscribedTracks(q, a) /\ u.subscribed[a] = {}
                              \/ t \in PublishedTracks(q, a) /\ u.published[a] = NoMid
      BY <1>3, <2>2 DEF Revises
    <3>2. CASE t \in SubscribedTracks(q, a) /\ u.subscribed[a] = {}
      <4>1. q.subscribed[a] # {}
        BY <3>2 DEF SubscribedTracks
      <4>2. q.subscribed[a] = r.subscribed[a] /\ q.session[a] = r.session[a]
        BY <4>1 DEF Revises
      <4>. QED  BY <3>2, <4>2 DEF SubscribedTracks
    <3>3. CASE t \in PublishedTracks(q, a) /\ u.published[a] = NoMid
      <4>1. q.published[a] # NoMid
        BY <3>3 DEF PublishedTracks
      <4>2. q.published[a] = r.published[a] /\ q.session[a] = r.session[a]
        BY <4>1 DEF Revises
      <4>. QED  BY <3>3, <4>2 DEF PublishedTracks
    <3>. QED  BY <3>1, <3>2, <3>3
  <2>. QED  BY <2>1, <2>2
<1>. QED  BY <1>1, <1>2, <1>3 DEF Revises

\* Moving tracks to the queue keeps every track in one place.
LEMMA RevisesApart ==
  ASSUME NEW r, Sound(r), NEW q, Sound(q), Revises(r, q), OwnTracks(r), Spared(r)
  PROVE  /\ OwnTracks(q) /\ Spared(q)
         /\ Tracked(q) \subseteq Tracked(r)
         /\ q.pending \subseteq r.pending \union Tracked(r)
<1>1. \A a \in Agents : /\ SubscribedTracks(q, a) \subseteq SubscribedTracks(r, a)
                        /\ PublishedTracks(q, a) \subseteq PublishedTracks(r, a)
  BY DEF Revises, SubscribedTracks, PublishedTracks
<1>2. Tracked(q) \subseteq Tracked(r)
  BY <1>1 DEF Tracked, TrackedSubscriptions, TrackedPublications
<1>3. q.pending \subseteq r.pending \union Tracked(r)
  <2> SUFFICES ASSUME NEW t \in q.pending \ r.pending PROVE t \in Tracked(r)
    OBVIOUS
  <2>1. \E a \in Agents : t \in SubscribedTracks(r, a) \/ t \in PublishedTracks(r, a)
    BY DEF Revises
  <2>. QED  BY <2>1 DEF Tracked, TrackedSubscriptions, TrackedPublications
<1>4. OwnTracks(q)
  <2>1. ASSUME NEW a \in Agents, NEW b \in Agents, q.session[a] = q.session[b], a # b
        PROVE  q.session[a] = NoSession
    BY <2>1 DEF Revises, OwnTracks
  <2>2. ASSUME NEW a \in Agents PROVE q.published[a] \notin q.subscribed[a]
    <3>1. NoMid \notin q.subscribed[a]
      BY NullsAreNotValues DEF Sound, RoomRecords
    <3>2. r.published[a] \notin r.subscribed[a]
      BY DEF OwnTracks
    <3>. QED  BY <3>1, <3>2 DEF Revises
  <2>. QED  BY <2>1, <2>2 DEF OwnTracks
<1>5. Spared(q)
  <2> SUFFICES ASSUME NEW t \in q.pending, NEW b \in Agents,
                      t \in SubscribedTracks(q, b) \/ t \in PublishedTracks(q, b)
               PROVE  FALSE
    BY DEF Spared, Tracked, TrackedSubscriptions, TrackedPublications
  <2>1. t \in SubscribedTracks(r, b) \/ t \in PublishedTracks(r, b)
    BY <1>1
  <2>2. t \notin r.pending
    BY <2>1 DEF Spared, Tracked, TrackedSubscriptions, TrackedPublications
  <2>3. PICK a \in Agents : \/ t \in SubscribedTracks(r, a) /\ q.subscribed[a] = {}
                            \/ t \in PublishedTracks(r, a) /\ q.published[a] = NoMid
    BY <2>2 DEF Revises
  <2>4. t[1] = r.session[a] /\ t[1] = r.session[b]
    BY <2>1, <2>3 DEF SubscribedTracks, PublishedTracks
  <2>5. r.session[a] # NoSession
    BY <2>3 DEF Sound, MediaOfMembers, SubscribedTracks, PublishedTracks
  <2>6. a = b
    BY <2>4, <2>5 DEF OwnTracks
  <2>7. r.published[a] \notin r.subscribed[a]
    BY DEF OwnTracks
  <2>8. CASE t \in SubscribedTracks(r, a) /\ q.subscribed[a] = {}
    <3>1. t \in PublishedTracks(r, a)
      BY <1>1, <2>6, <2>8 DEF SubscribedTracks
    <3>. QED  BY <2>7, <2>8, <3>1 DEF SubscribedTracks, PublishedTracks
  <2>9. CASE t \in PublishedTracks(r, a) /\ q.published[a] = NoMid
    <3>1. t \in SubscribedTracks(r, a)
      BY <1>1, <2>6, <2>9 DEF PublishedTracks
    <3>. QED  BY <2>7, <2>9, <3>1 DEF SubscribedTracks, PublishedTracks
  <2>. QED  BY <2>3, <2>8, <2>9
<1>. QED  BY <1>2, <1>3, <1>4, <1>5

\* Changes of the grants, the readiness and the voice publications alone.
LEMMA GrantsRevise ==
  ASSUME NEW r, NEW q, q.pending = r.pending,
         q.session = r.session, q.subscribed = r.subscribed,
         \A a \in Agents : q.published[a] \in {r.published[a], NoMid}
  PROVE  Revises(r, q)
BY DEF Revises

\* What the staging of two sets of directions leaves alone, and what it clears.
Staged(r, S, P, q) ==
  /\ q \in RoomRecords
  /\ q.alive = r.alive /\ q.members = r.members /\ q.connected = r.connected
  /\ q.hostOf = r.hostOf /\ q.stt = r.stt /\ q.tts = r.tts
  /\ q.session = r.session /\ q.notes = r.notes /\ q.voice = r.voice
  /\ q.producer = r.producer
  /\ \A a \in Agents :
       /\ q.subscribed[a] = IF a \in S THEN {} ELSE r.subscribed[a]
       /\ q.published[a] = IF a \in P THEN NoMid ELSE r.published[a]

LEMMA StageFields ==
  ASSUME NEW r, Sound(r), NEW S \in SUBSET Agents, NEW P \in SUBSET Agents
  PROVE  Staged(r, S, P, Stage(r, S, P))
<1>1. Stage(r, S, P) \in RoomRecords
  BY StageKeeps DEF Keeps, Sound
<1>. QED  BY <1>1 DEF Sound, RoomRecords, Stage, Staged

LEMMA StageRevises ==
  ASSUME NEW r, Sound(r), NEW S \in SUBSET Agents, NEW P \in SUBSET Agents
  PROVE  Revises(r, Stage(r, S, P))
<1>. DEFINE q == Stage(r, S, P)
<1>1. q.pending = r.pending \union (UNION {SubscribedTracks(r, a) : a \in S})
                            \union (UNION {PublishedTracks(r, a) : a \in P})
  BY DEF Sound, RoomRecords, Stage
<1>2. /\ q.session = r.session
      /\ \A a \in Agents :
           /\ q.subscribed[a] = IF a \in S THEN {} ELSE r.subscribed[a]
           /\ q.published[a] = IF a \in P THEN NoMid ELSE r.published[a]
  <2>1. Staged(r, S, P, q)
    BY StageFields
  <2>. HIDE DEF q
  <2>. QED  BY <2>1 DEF Staged
<1>. HIDE DEF q
<1>3. \A t \in q.pending \ r.pending : \E a \in Agents :
        \/ t \in SubscribedTracks(r, a) /\ q.subscribed[a] = {}
        \/ t \in PublishedTracks(r, a) /\ q.published[a] = NoMid
  BY <1>1, <1>2
<1>4. Revises(r, q)
  BY <1>1, <1>2, <1>3 DEF Revises
<1>. QED  BY <1>4 DEF q

\* What a stop of Live Transcript, wanted or enforced, does to a record.
Stopped(r, q) ==
  /\ q.members = r.members /\ q.connected = r.connected /\ q.hostOf = r.hostOf
  /\ q.stt = r.stt /\ q.tts = r.tts /\ q.session = r.session
  /\ q.notes = r.notes /\ q.voice = r.voice /\ q.published = r.published
  /\ \/ q.producer = r.producer /\ q.subscribed = r.subscribed
     \/ /\ q.producer = NoHost /\ r.producer # NoHost
        /\ \A a \in Agents :
             q.subscribed[a] = IF a \in LiveTranscriptSubscribers(r) THEN {}
                               ELSE r.subscribed[a]

LEMMA StopFields ==
  ASSUME NEW r, Sound(r)
  PROVE  /\ Stopped(r, StopLiveTranscript(r))
         /\ Revises(r, StopLiveTranscript(r))
<1>1. CASE r.producer = NoHost
  <2>1. StopLiveTranscript(r) = r
    BY <1>1 DEF StopLiveTranscript
  <2>. QED  BY <2>1, GrantsRevise DEF Stopped
<1>2. CASE r.producer # NoHost
  <2>. DEFINE T == LiveTranscriptSubscribers(r)
              s == Stage(r, T, {})
              q == [s EXCEPT !.producer = NoHost]
  <2>1. T \in SUBSET Agents
    BY DEF LiveTranscriptSubscribers, OnHost, Sound, RoomRecords
  <2>2. Revises(r, s)
    BY <2>1, StageRevises
  <2>3. s.published = r.published
    BY DEF Stage, Sound, RoomRecords
  <2>4. /\ s \in RoomRecords
        /\ s.members = r.members /\ s.connected = r.connected
        /\ s.hostOf = r.hostOf /\ s.stt = r.stt /\ s.tts = r.tts
        /\ s.session = r.session /\ s.notes = r.notes /\ s.voice = r.voice
        /\ \A a \in Agents : s.subscribed[a] = IF a \in T THEN {} ELSE r.subscribed[a]
    <3>1. Staged(r, T, {}, s)
      BY <2>1, StageFields
    <3>. HIDE DEF s
    <3>. QED  BY <3>1 DEF Staged
  <2>. HIDE DEF s
  <2>5. /\ q.members = s.members /\ q.connected = s.connected
        /\ q.hostOf = s.hostOf /\ q.stt = s.stt /\ q.tts = s.tts
        /\ q.session = s.session /\ q.notes = s.notes /\ q.voice = s.voice
        /\ q.published = s.published /\ q.subscribed = s.subscribed
        /\ q.pending = s.pending /\ q.producer = NoHost
    BY <2>4 DEF RoomRecords
  <2>6. StopLiveTranscript(r) = q
    BY <1>2 DEF StopLiveTranscript, s
  <2>. HIDE DEF q
  <2>7. Revises(s, q)
    BY <2>5, GrantsRevise
  <2>8. Stopped(r, q)
    BY <1>2, <2>3, <2>4, <2>5 DEF Stopped
  <2>. QED  BY <2>2, <2>6, <2>7, <2>8, RevisesTransitive
<1>. QED  BY <1>1, <1>2

LEMMA NormalizeTranscriptFields ==
  ASSUME NEW r, Sound(r), NEW e
  PROVE  LET q == NormalizeLiveTranscript(r, e)
         IN  Stopped(r, q) /\ Revises(r, q)
             /\ (q.producer # r.producer => ~ProducerValid(r, e))
<1>1. CASE ProducerValid(r, e)
  <2>1. NormalizeLiveTranscript(r, e) = r
    BY <1>1 DEF NormalizeLiveTranscript
  <2>. QED  BY <2>1, GrantsRevise DEF Stopped
<1>2. CASE ~ProducerValid(r, e)
  BY <1>2, StopFields DEF NormalizeLiveTranscript
<1>. QED  BY <1>1, <1>2

LEMMA StoppedFollows ==
  ASSUME NEW r, Sound(r), NEW q, Stopped(r, q)
  PROVE  /\ Follows(r) => Follows(q)
         /\ \A a \in Agents : \/ q.subscribed[a] = r.subscribed[a]
                              \/ q.producer = NoHost /\ q.notes # a
<1>1. \A a \in Agents : \/ q.subscribed[a] = r.subscribed[a]
                        \/ q.producer = NoHost /\ q.notes # a
  BY DEF Stopped, LiveTranscriptSubscribers
<1>2. ASSUME Follows(r), NEW a \in q.members, StaysOnHost(a), q.subscribed[a] # {}
      PROVE  \/ q.notes = a
             \/ q.producer # NoHost /\ q.hostOf[a] = q.producer
  <2>1. a \in r.members /\ a \in Agents
    BY <1>2 DEF Stopped, Sound, RoomRecords
  <2>2. CASE q.producer = r.producer /\ q.subscribed = r.subscribed
    BY <1>2, <2>1, <2>2 DEF Follows, HearsByGrant, Stopped
  <2>3. CASE a \notin LiveTranscriptSubscribers(r) /\ q.subscribed[a] = r.subscribed[a]
    <3>1. \/ r.notes = a
          \/ r.producer # NoHost /\ r.hostOf[a] = r.producer
      BY <1>2, <2>1, <2>3 DEF Follows, HearsByGrant
    <3>2. r.notes = a
      BY <2>1, <2>3, <3>1 DEF LiveTranscriptSubscribers, OnHost
    <3>. QED  BY <3>2 DEF Stopped
  <2>. QED  BY <1>2, <2>1, <2>2, <2>3 DEF Stopped
<1>3. Follows(r) => Follows(q)
  BY <1>2 DEF Follows, HearsByGrant, SpeaksByGrant, HostsKnown, Stopped
<1>. QED  BY <1>1, <1>3

\* A handler that leaves the media alone.
LEMMA MediaKept ==
  ASSUME NEW r, NEW q, NEW e, q.pending = r.pending, q.session = r.session,
         q.subscribed = r.subscribed, q.published = r.published
  PROVE  Revises(r, q) /\ Independent(r, q, e)
BY DEF Revises, Independent

LEMMA ReadHandled == ASSUME NEW r, NEW e PROVE Handled(r, r, e)
BY MediaKept DEF Handled, VoicesAreReady

LEMMA PresenceHandled ==
  ASSUME NEW r, Sound(r), NEW e, NEW C \in SUBSET Agents
  PROVE  Handled(r, [r EXCEPT !.connected = C], e)
<1>. DEFINE q == [r EXCEPT !.connected = C]
<1>1. /\ q.members = r.members /\ q.hostOf = r.hostOf /\ q.notes = r.notes
      /\ q.voice = r.voice /\ q.producer = r.producer
      /\ q.pending = r.pending /\ q.session = r.session
      /\ q.subscribed = r.subscribed /\ q.published = r.published
  BY DEF Sound, RoomRecords
<1>. HIDE DEF q
<1>2. Follows(r) => Follows(q)
  BY <1>1 DEF Follows, HostsKnown, HearsByGrant, SpeaksByGrant
<1>3. Handled(r, q, e)
  BY <1>1, <1>2, MediaKept DEF Handled, VoicesAreReady
<1>. QED  BY <1>3 DEF q

LEMMA VoiceOnHandled ==
  ASSUME NEW r, Sound(r), NEW e, NEW a \in r.members \intersect r.connected,
         r.hostOf[a] \in r.tts
  PROVE  Handled(r, [r EXCEPT !.voice = @ \union {a}], e)
<1>. DEFINE q == [r EXCEPT !.voice = @ \union {a}]
<1>1. /\ q.members = r.members /\ q.hostOf = r.hostOf /\ q.notes = r.notes
      /\ q.voice = r.voice \union {a} /\ q.producer = r.producer
      /\ q.pending = r.pending /\ q.session = r.session
      /\ q.subscribed = r.subscribed /\ q.published = r.published
  BY DEF Sound, RoomRecords
<1>. HIDE DEF q
<1>2. Follows(r) => Follows(q)
  BY <1>1 DEF Follows, HostsKnown, HearsByGrant, SpeaksByGrant
<1>3. Handled(r, q, e)
  BY <1>1, <1>2, MediaKept DEF Handled, VoicesAreReady
<1>. QED  BY <1>3 DEF q

LEMMA VoiceOffHandled ==
  ASSUME NEW r, Sound(r), NEW e, NEW a \in Agents
  PROVE  Handled(r, [Stage(r, {}, {a}) EXCEPT !.voice = @ \ {a}], e)
<1>. DEFINE s == Stage(r, {}, {a})
            q == [s EXCEPT !.voice = @ \ {a}]
<1>1. Staged(r, {}, {a}, s) /\ Revises(r, s)
  BY StageFields, StageRevises
<1>. HIDE DEF s
<1>2. /\ q.members = s.members /\ q.hostOf = s.hostOf /\ q.notes = s.notes
      /\ q.voice = s.voice \ {a} /\ q.producer = s.producer
      /\ q.pending = s.pending /\ q.session = s.session
      /\ q.subscribed = s.subscribed /\ q.published = s.published
  BY <1>1 DEF Staged, RoomRecords
<1>. HIDE DEF q
<1>3. Revises(r, q)
  BY <1>1, <1>2, MediaKept, RevisesTransitive
<1>4. r.members \subseteq Agents
  BY DEF Sound, RoomRecords
<1>5. Follows(r) => Follows(q)
  <2>1. ASSUME Follows(r) PROVE HostsKnown(q) /\ HearsByGrant(q)
    BY <1>1, <1>2, <1>4, <2>1 DEF Staged, Follows, HostsKnown, HearsByGrant
  <2>2. ASSUME Follows(r) PROVE SpeaksByGrant(q)
    BY <1>1, <1>2, <1>4, <2>2 DEF Staged, Follows, SpeaksByGrant
  <2>. QED  BY <2>1, <2>2 DEF Follows
<1>6. Independent(r, q, e)
  BY <1>1, <1>2 DEF Staged, Independent
<1>7. Handled(r, q, e)
  BY <1>1, <1>2, <1>3, <1>5, <1>6 DEF Handled, VoicesAreReady, Staged
<1>. QED  BY <1>7 DEF q, s

\* Meeting Notes goes from its note-taker to n, or to nobody.
LEMMA NotesHandled ==
  ASSUME NEW r, Sound(r), NEW e, NEW n \in Agents \union {NoAgent},
         n = r.notes => n = NoAgent
  PROVE  Handled(r, RevokeSubscribed([r EXCEPT !.notes = n], e, r.notes), e)
<1>. DEFINE g == [r EXCEPT !.notes = n]
            b == r.notes
            q == RevokeSubscribed(g, e, b)
<1>1. /\ g \in RoomRecords
      /\ g.alive = r.alive /\ g.members = r.members /\ g.connected = r.connected
      /\ g.hostOf = r.hostOf /\ g.stt = r.stt /\ g.notes = n
      /\ g.voice = r.voice /\ g.producer = r.producer
      /\ g.pending = r.pending /\ g.session = r.session
      /\ g.subscribed = r.subscribed /\ g.published = r.published
  BY DEF Sound, RoomRecords
<1>2. r.members \subseteq Agents
  BY DEF Sound, RoomRecords
<1>. HIDE DEF g
<1>3. Sound(g)
  BY <1>1, GrantsKeep DEF Keeps
<1>4. Revises(r, g) /\ Independent(r, g, e)
  BY <1>1, MediaKept
<1>5. CASE b \in g.members /\ ~LiveTranscriptAuthorized(g, e, b)
  <2>1. b \in Agents /\ n # b
    BY <1>1, <1>2, <1>5, NullsAreNotValues
  <2>2. q = Stage(g, {b}, {})
    BY <1>5 DEF RevokeSubscribed
  <2>3. Staged(g, {b}, {}, q) /\ Revises(g, q)
    BY <1>3, <2>1, <2>2, StageFields, StageRevises
  <2>. HIDE DEF q
  <2>4. Revises(r, q)
    BY <1>4, <2>3, RevisesTransitive
  <2>5. ~Hears(q, e, b)
    <3>1. ~LiveTranscriptAuthorized(q, e, b)
      BY <1>5, <2>3 DEF Staged, LiveTranscriptAuthorized, OnHost, ProducerValid, HostReady
    <3>. QED  BY <1>1, <2>1, <2>3, <3>1 DEF Hears, Staged
  <2>6. Independent(r, q, e)
    BY <1>1, <2>3, <2>5 DEF Independent, Staged
  <2>7. Follows(r) => Follows(q)
    <3>1. ASSUME Follows(r) PROVE HostsKnown(q) /\ SpeaksByGrant(q)
      BY <1>1, <1>2, <2>3, <3>1 DEF Staged, Follows, HostsKnown, SpeaksByGrant
    <3>2. ASSUME Follows(r), NEW a \in q.members, StaysOnHost(a), q.subscribed[a] # {}
          PROVE  q.producer # NoHost /\ q.hostOf[a] = q.producer
      <4>1. a \in r.members /\ a \in Agents /\ a # b
        BY <1>1, <1>2, <2>3, <3>2 DEF Staged
      <4>2. r.subscribed[a] # {}
        BY <1>1, <2>3, <3>2, <4>1 DEF Staged
      <4>3. r.producer # NoHost /\ r.hostOf[a] = r.producer
        BY <3>2, <4>1, <4>2 DEF Follows, HearsByGrant
      <4>. QED  BY <1>1, <2>3, <4>3 DEF Staged
    <3>3. Follows(r) => HearsByGrant(q)
      BY <3>2 DEF HearsByGrant
    <3>. QED  BY <3>1, <3>3 DEF Follows
  <2>8. VoicesAreReady(r, q)
    BY <1>1, <2>3 DEF VoicesAreReady, Staged
  <2>9. Handled(r, q, e)
    BY <2>4, <2>6, <2>7, <2>8 DEF Handled
  <2>. QED  BY <2>9 DEF q, g
<1>6. CASE ~(b \in g.members /\ ~LiveTranscriptAuthorized(g, e, b))
  <2>1. q = g
    BY <1>6 DEF RevokeSubscribed
  <2>2. Follows(r) => Follows(g)
    <3>1. ASSUME Follows(r) PROVE HostsKnown(g) /\ SpeaksByGrant(g)
      BY <1>1, <3>1 DEF Follows, HostsKnown, SpeaksByGrant
    <3>2. ASSUME Follows(r), NEW a \in g.members, StaysOnHost(a), g.subscribed[a] # {}
          PROVE  g.producer # NoHost /\ g.hostOf[a] = g.producer
      <4>1. b = a => g.producer # NoHost /\ g.hostOf[a] = g.producer
        BY <1>6, <3>2 DEF LiveTranscriptAuthorized, OnHost
      <4>2. \/ r.notes = a
            \/ r.producer # NoHost /\ r.hostOf[a] = r.producer
        BY <1>1, <3>2 DEF Follows, HearsByGrant
      <4>. QED  BY <1>1, <4>1, <4>2
    <3>3. Follows(r) => HearsByGrant(g)
      BY <3>2 DEF HearsByGrant
    <3>. QED  BY <3>1, <3>3 DEF Follows
  <2>3. Handled(r, g, e)
    BY <1>1, <1>4, <2>2 DEF Handled, VoicesAreReady
  <2>. QED  BY <2>1, <2>3 DEF g
<1>7. Handled(r, q, e)
  BY <1>5, <1>6 DEF g
<1>. QED  BY <1>7 DEF g

LEMMA TranscriptStartHandled ==
  ASSUME NEW r, Sound(r), NEW e, NEW h \in Hosts, r.producer = NoHost
  PROVE  Handled(r, [r EXCEPT !.producer = h], e)
<1>. DEFINE q == [r EXCEPT !.producer = h]
<1>1. /\ q.members = r.members /\ q.hostOf = r.hostOf /\ q.notes = r.notes
      /\ q.voice = r.voice
      /\ q.pending = r.pending /\ q.session = r.session
      /\ q.subscribed = r.subscribed /\ q.published = r.published
  BY DEF Sound, RoomRecords
<1>. HIDE DEF q
<1>2. Follows(r) => Follows(q)
  BY <1>1 DEF Follows, HostsKnown, HearsByGrant, SpeaksByGrant
<1>3. Handled(r, q, e)
  BY <1>1, <1>2, MediaKept DEF Handled, VoicesAreReady
<1>. QED  BY <1>3 DEF q

LEMMA TranscriptStopHandled ==
  ASSUME NEW r, Sound(r), NEW e
  PROVE  Handled(r, StopLiveTranscript(r), e)
<1>. DEFINE q == StopLiveTranscript(r)
<1>1. Stopped(r, q) /\ Revises(r, q)
  BY StopFields
<1>. HIDE DEF q
<1>2. Independent(r, q, e)
  BY <1>1, StoppedFollows DEF Stopped, Independent, Hears, LiveTranscriptAuthorized
<1>3. Handled(r, q, e)
  BY <1>1, <1>2, StoppedFollows DEF Handled, VoicesAreReady, Stopped
<1>. QED  BY <1>3 DEF q

\* What every load of the record does to the media: what it takes down had no
\* grant to begin with.
Loaded(r, q, e) ==
  /\ q.members = r.members /\ q.connected = r.connected
  /\ q.hostOf = r.hostOf /\ q.tts = r.tts /\ q.session = r.session
  /\ \A a \in Agents : q.subscribed[a] = r.subscribed[a] \/ ~Hears(r, e, a)
  /\ q.voice = NormalVoice(r)

LEMMA NormalizeHandled ==
  ASSUME NEW r, Sound(r), NEW e
  PROVE  Handled(r, Normalize(r, e), e) /\ Loaded(r, Normalize(r, e), e)
<1>. DEFINE n == [r EXCEPT !.notes = NormalNotes(r)]
            t == NormalizeLiveTranscript(n, e)
            q == [t EXCEPT !.voice = NormalVoice(r),
                           !.published = [a \in Agents |->
                              IF a \in NormalVoice(r) THEN @[a] ELSE NoMid]]
<1>1. /\ n \in RoomRecords
      /\ n.alive = r.alive /\ n.members = r.members /\ n.connected = r.connected
      /\ n.hostOf = r.hostOf /\ n.stt = r.stt /\ n.tts = r.tts
      /\ n.notes = NormalNotes(r)
      /\ n.voice = r.voice /\ n.producer = r.producer
      /\ n.pending = r.pending /\ n.session = r.session
      /\ n.subscribed = r.subscribed /\ n.published = r.published
  BY DEF Sound, RoomRecords, NormalNotes
<1>2. Normalize(r, e) = q
  BY DEF Normalize
<1>. HIDE DEF n
<1>3. Sound(n) /\ Revises(r, n)
  BY <1>1, GrantsKeep, GrantsRevise DEF Keeps
<1>4. /\ Stopped(n, t) /\ Revises(n, t) /\ t \in RoomRecords
      /\ t.producer # n.producer => ~ProducerValid(n, e)
  BY <1>3, NormalizeTranscriptFields, NormalizeLiveTranscriptKeeps DEF Keeps, Sound
<1>5. \/ t.producer = n.producer /\ t.subscribed = n.subscribed
      \/ ~ProducerValid(n, e)
  BY <1>4 DEF Stopped
<1>. HIDE DEF t
<1>6. /\ q.members = t.members /\ q.connected = t.connected /\ q.hostOf = t.hostOf
      /\ q.tts = t.tts /\ q.notes = t.notes /\ q.producer = t.producer
      /\ q.pending = t.pending /\ q.session = t.session
      /\ q.subscribed = t.subscribed /\ q.voice = NormalVoice(r)
      /\ \A a \in Agents :
           q.published[a] = IF a \in NormalVoice(r) THEN t.published[a] ELSE NoMid
  BY <1>4 DEF RoomRecords
<1>. HIDE DEF q
<1>7. r.members \subseteq Agents /\ NormalVoice(r) \subseteq r.voice
  BY DEF Sound, RoomRecords, NormalVoice
<1>8. Revises(r, q)
  <2>1. Revises(t, q)
    BY <1>6, GrantsRevise
  <2>. QED  BY <1>3, <1>4, <2>1, RevisesTransitive
<1>9. ASSUME NEW a \in Agents PROVE q.subscribed[a] = r.subscribed[a] \/ ~Hears(r, e, a)
  <2>1. CASE t.producer = n.producer /\ t.subscribed = n.subscribed
    BY <1>1, <1>6, <2>1
  <2>2. CASE a \notin LiveTranscriptSubscribers(n)
    BY <1>1, <1>4, <1>6, <2>2 DEF Stopped
  <2>3. CASE ~ProducerValid(n, e) /\ a \in LiveTranscriptSubscribers(n)
    <3>1. a \in r.members /\ a # NormalNotes(r)
      BY <1>1, <2>3 DEF LiveTranscriptSubscribers, OnHost
    <3>2. r.notes # a
      BY <3>1 DEF NormalNotes
    <3>3. ~ProducerValid(r, e)
      BY <1>1, <2>3 DEF ProducerValid, HostReady, OnHost
    <3>. QED  BY <3>2, <3>3 DEF Hears, LiveTranscriptAuthorized
  <2>. QED  BY <1>5, <2>1, <2>2, <2>3
<1>10. Loaded(r, q, e)
  BY <1>1, <1>4, <1>6, <1>9 DEF Loaded, Stopped
<1>11. Independent(r, q, e)
  <2>1. ASSUME NEW a \in Agents
        PROVE  q.subscribed[a] = r.subscribed[a] \/ ~Hears(q, e, a)
    <3>1. \/ t.subscribed[a] = n.subscribed[a]
          \/ t.producer = NoHost /\ t.notes # a
      BY <1>3, <1>4, StoppedFollows
    <3>. QED  BY <1>1, <1>6, <3>1 DEF Hears, LiveTranscriptAuthorized
  <2>2. ASSUME NEW a \in Agents
        PROVE  q.published[a] = r.published[a] \/ a \notin q.voice
    BY <1>1, <1>4, <1>6 DEF Stopped
  <2>. QED  BY <2>1, <2>2 DEF Independent
<1>12. Follows(r) => Follows(q)
  <2>1. ASSUME Follows(r), NEW a \in n.members, StaysOnHost(a), n.subscribed[a] # {}
        PROVE  \/ n.notes = a
               \/ n.producer # NoHost /\ n.hostOf[a] = n.producer
    <3>1. \/ r.notes = a
          \/ r.producer # NoHost /\ r.hostOf[a] = r.producer
      BY <1>1, <2>1 DEF Follows, HearsByGrant
    <3>. QED  BY <1>1, <3>1 DEF NormalNotes
  <2>2. Follows(r) => HearsByGrant(n)
    BY <2>1 DEF HearsByGrant
  <2>3. Follows(r) => HostsKnown(n) /\ SpeaksByGrant(n)
    BY <1>1 DEF Follows, HostsKnown, SpeaksByGrant
  <2>4. Follows(r) => Follows(t)
    BY <1>3, <1>4, <2>2, <2>3, StoppedFollows DEF Follows
  <2>5. Follows(t) => HearsByGrant(q) /\ HostsKnown(q)
    BY <1>6 DEF Follows, HearsByGrant, HostsKnown
  <2>6. SpeaksByGrant(q)
    BY <1>1, <1>4, <1>6, <1>7 DEF SpeaksByGrant, Stopped
  <2>. QED  BY <2>4, <2>5, <2>6 DEF Follows
<1>13. VoicesAreReady(r, q)
  BY <1>6, <1>7 DEF VoicesAreReady
<1>14. Handled(r, q, e)
  BY <1>8, <1>11, <1>12, <1>13 DEF Handled
<1>. QED  BY <1>2, <1>10, <1>14

\* Collecting the Hosts nobody refers to may stop Live Transcript.
Collected(r, q) ==
  /\ q.members = r.members /\ q.connected = r.connected /\ q.hostOf = r.hostOf
  /\ q.session = r.session /\ q.notes = r.notes /\ q.voice = r.voice
  /\ q.published = r.published
  /\ \A a \in Agents : \/ q.subscribed[a] = r.subscribed[a]
                       \/ q.producer = NoHost /\ q.notes # a

LEMMA CollectHandled ==
  ASSUME NEW r, Sound(r), NEW e
  PROVE  /\ Collected(r, CollectHosts(r, e))
         /\ Revises(r, CollectHosts(r, e))
         /\ Follows(r) => Follows(CollectHosts(r, e))
<1>. DEFINE H == {r.hostOf[a] : a \in r.members}
            g == [r EXCEPT !.stt = @ \intersect H, !.tts = @ \intersect H]
            q == NormalizeLiveTranscript(g, e)
<1>1. /\ g \in RoomRecords
      /\ g.alive = r.alive /\ g.members = r.members /\ g.connected = r.connected
      /\ g.hostOf = r.hostOf /\ g.notes = r.notes
      /\ g.voice = r.voice /\ g.producer = r.producer
      /\ g.pending = r.pending /\ g.session = r.session
      /\ g.subscribed = r.subscribed /\ g.published = r.published
  BY DEF Sound, RoomRecords
<1>2. CollectHosts(r, e) = q
  BY DEF CollectHosts
<1>. HIDE DEF g
<1>3. Sound(g) /\ Revises(r, g)
  BY <1>1, GrantsKeep, GrantsRevise DEF Keeps
<1>4. Stopped(g, q) /\ Revises(g, q)
  BY <1>3, NormalizeTranscriptFields
<1>5. Follows(r) => Follows(g)
  BY <1>1 DEF Follows, HostsKnown, HearsByGrant, SpeaksByGrant
<1>. HIDE DEF q
<1>6. Revises(r, q)
  BY <1>3, <1>4, RevisesTransitive
<1>7. Collected(r, q)
  <2>1. \A a \in Agents : \/ q.subscribed[a] = g.subscribed[a]
                          \/ q.producer = NoHost /\ q.notes # a
    BY <1>3, <1>4, StoppedFollows
  <2>. QED  BY <1>1, <1>4, <2>1 DEF Collected, Stopped
<1>8. Follows(r) => Follows(q)
  BY <1>3, <1>4, <1>5, StoppedFollows
<1>. QED  BY <1>2, <1>6, <1>7, <1>8

LEMMA UpdateHandled ==
  ASSUME NEW r, Sound(r), NEW e, NEW a \in Agents, a \in r.members,
         NEW h \in HostsOf[a], NEW p \in Projections,
         NEW x, x = RevokedByUpdate(r, a, h, p)
  PROVE  Handled(r, CollectHosts(Stage([Project(r, h, p) EXCEPT
                                          !.hostOf[a] = h, !.voice = @ \ x],
                                       {}, x), e), e)
<1>. DEFINE j == Project(r, h, p)
            q == [j EXCEPT !.hostOf[a] = h, !.voice = @ \ x]
            s == Stage(q, {}, x)
            c == CollectHosts(s, e)
<1>1. h \in Hosts /\ x \in SUBSET Agents /\ x \subseteq r.voice /\ r \in RoomRecords
  BY HostsOfAssumption DEF RevokedByUpdate, Sound, RoomRecords
<1>2. /\ j \in RoomRecords
      /\ j.alive = r.alive /\ j.members = r.members /\ j.connected = r.connected
      /\ j.hostOf = r.hostOf /\ j.notes = r.notes
      /\ j.voice = r.voice /\ j.producer = r.producer
      /\ j.pending = r.pending /\ j.session = r.session
      /\ j.subscribed = r.subscribed /\ j.published = r.published
  BY <1>1 DEF Project, RoomRecords
<1>. HIDE DEF j
<1>3. /\ q \in RoomRecords
      /\ q.alive = r.alive /\ q.members = r.members /\ q.connected = r.connected
      /\ q.hostOf = [r.hostOf EXCEPT ![a] = h] /\ q.notes = r.notes
      /\ q.voice = r.voice \ x /\ q.producer = r.producer
      /\ q.pending = r.pending /\ q.session = r.session
      /\ q.subscribed = r.subscribed /\ q.published = r.published
  BY <1>1, <1>2 DEF RoomRecords
<1>. HIDE DEF q
<1>4. Sound(q) /\ Revises(r, q)
  BY <1>3, GrantsKeep, GrantsRevise DEF Keeps
<1>5. Staged(q, {}, x, s) /\ Revises(q, s) /\ Sound(s)
  BY <1>1, <1>4, StageFields, StageRevises, StageKeeps DEF Keeps
<1>. HIDE DEF s
<1>6. Collected(s, c) /\ Revises(s, c) /\ (Follows(s) => Follows(c))
  BY <1>5, CollectHandled
<1>. HIDE DEF c
<1>7. Revises(r, c)
  BY <1>4, <1>5, <1>6, RevisesTransitive
<1>8. \A b \in Agents : s.hostOf[b] = IF b = a THEN h ELSE r.hostOf[b]
  BY <1>1, <1>3, <1>5 DEF Staged, RoomRecords
<1>9. Follows(r) => Follows(s)
  <2>1. Follows(r) => HostsKnown(s)
    BY <1>8 DEF Follows, HostsKnown
  <2>2. ASSUME Follows(r), NEW b \in s.members, StaysOnHost(b), s.subscribed[b] # {}
        PROVE  \/ s.notes = b
               \/ s.producer # NoHost /\ s.hostOf[b] = s.producer
    <3>1. b \in r.members /\ b \in Agents /\ r.subscribed[b] # {}
      BY <1>1, <1>3, <1>5, <2>2 DEF Staged, RoomRecords
    <3>2. \/ r.notes = b
          \/ r.producer # NoHost /\ r.hostOf[b] = r.producer
      BY <2>2, <3>1 DEF Follows, HearsByGrant
    <3>3. r.hostOf[b] \in HostsOf[b] \union {NoHost}
      BY <2>2, <3>1 DEF Follows, HostsKnown
    <3>4. b = a /\ r.hostOf[b] # NoHost => r.hostOf[b] = h
      BY <2>2, <3>3 DEF StaysOnHost
    <3>. QED  BY <1>3, <1>5, <1>8, <3>1, <3>2, <3>4 DEF Staged
  <2>3. Follows(r) => HearsByGrant(s)
    BY <2>2 DEF HearsByGrant
  <2>4. ASSUME Follows(r), NEW b \in s.members, s.published[b] # NoMid
        PROVE  b \in s.voice
    <3>1. b \in r.members /\ b \in Agents
      BY <1>1, <1>3, <1>5 DEF Staged, RoomRecords
    <3>2. b \notin x /\ r.published[b] # NoMid
      BY <1>3, <1>5, <2>4, <3>1 DEF Staged
    <3>. QED  BY <1>3, <1>5, <2>4, <3>1, <3>2 DEF Staged, Follows, SpeaksByGrant
  <2>5. Follows(r) => SpeaksByGrant(s)
    BY <2>4 DEF SpeaksByGrant
  <2>. QED  BY <2>1, <2>3, <2>5 DEF Follows
<1>10. Independent(r, c, e)
  <2>1. ASSUME NEW b \in Agents
        PROVE  c.subscribed[b] = r.subscribed[b] \/ ~Hears(c, e, b)
    <3>1. s.subscribed[b] = r.subscribed[b]
      BY <1>3, <1>5 DEF Staged
    <3>2. \/ c.subscribed[b] = s.subscribed[b]
          \/ c.producer = NoHost /\ c.notes # b
      BY <1>6 DEF Collected
    <3>. QED  BY <3>1, <3>2 DEF Hears, LiveTranscriptAuthorized
  <2>2. ASSUME NEW b \in Agents
        PROVE  c.published[b] = r.published[b] \/ b \notin c.voice
    <3>1. c.published[b] = s.published[b] /\ c.voice = s.voice
      BY <1>6 DEF Collected
    <3>. QED  BY <1>3, <1>5, <3>1 DEF Staged
  <2>. QED  BY <2>1, <2>2 DEF Independent
<1>11. VoicesAreReady(r, c)
  <2>1. c.voice = r.voice \ x
    BY <1>3, <1>5, <1>6 DEF Collected, Staged
  <2>. QED  BY <2>1 DEF VoicesAreReady
<1>12. Handled(r, c, e)
  BY <1>6, <1>7, <1>9, <1>10, <1>11 DEF Handled
<1>. QED  BY <1>12 DEF c, s, q, j

LEMMA DepartHandled ==
  ASSUME NEW r, Sound(r), NEW e, NEW D \in SUBSET Agents
  PROVE  Handled(r, Depart(r, e, D), e)
<1>. DEFINE s == Stage(r, D, D)
            d == [s EXCEPT
                    !.members = @ \ D,
                    !.connected = @ \ D,
                    !.hostOf = [a \in Agents |-> IF a \in D THEN NoHost ELSE @[a]],
                    !.session = [a \in Agents |-> IF a \in D THEN NoSession ELSE @[a]]]
            c == CollectHosts(d, e)
            q == [c EXCEPT !.notes = IF @ \in D THEN NoAgent ELSE @,
                           !.voice = @ \ D]
<1>1. Staged(r, D, D, s) /\ Revises(r, s) /\ Sound(s) /\ s \in RoomRecords
  BY StageFields, StageRevises, StageKeeps DEF Keeps, Sound
<1>. HIDE DEF s
<1>2. /\ d \in RoomRecords
      /\ d.alive = s.alive /\ d.members = s.members \ D
      /\ d.session = [a \in Agents |-> IF a \in D THEN NoSession ELSE s.session[a]]
      /\ \A a \in Agents : d.hostOf[a] = IF a \in D THEN NoHost ELSE s.hostOf[a]
      /\ d.notes = s.notes /\ d.voice = s.voice /\ d.producer = s.producer
      /\ d.pending = s.pending
      /\ d.subscribed = s.subscribed /\ d.published = s.published
  BY <1>1 DEF RoomRecords
<1>. HIDE DEF d
<1>3. \A a \in D : s.subscribed[a] = {} /\ s.published[a] = NoMid
  BY <1>1 DEF Staged
<1>4. Sound(d)
  <2>1. Sound(s)
    BY <1>1
  <2>2. Keeps(s, d)
    BY <1>2, <1>3, <2>1, DeletionKeeps
  <2>. QED  BY <2>2 DEF Keeps
<1>5. Revises(s, d)
  BY <1>2, <1>3 DEF Revises
<1>6. Collected(d, c) /\ Revises(d, c) /\ (Follows(d) => Follows(c)) /\ c \in RoomRecords
  BY <1>4, CollectHandled, CollectHostsKeeps DEF Keeps, Sound
<1>. HIDE DEF c
<1>7. /\ q.members = c.members /\ q.hostOf = c.hostOf /\ q.producer = c.producer
      /\ q.notes = (IF c.notes \in D THEN NoAgent ELSE c.notes)
      /\ q.voice = c.voice \ D
      /\ q.pending = c.pending /\ q.session = c.session
      /\ q.subscribed = c.subscribed /\ q.published = c.published
  BY <1>6 DEF RoomRecords
<1>8. Depart(r, e, D) = q
  BY DEF Depart, c, d, s
<1>. HIDE DEF q
<1>9. Revises(r, q)
  <2>1. Revises(c, q)
    BY <1>7, GrantsRevise
  <2>. QED  BY <1>1, <1>5, <1>6, <2>1, RevisesTransitive
<1>10. r.members \subseteq Agents
  BY DEF Sound, RoomRecords
<1>11. Follows(r) => Follows(q)
  <2>1. Follows(r) => HostsKnown(d)
    BY <1>1, <1>2 DEF Staged, Follows, HostsKnown
  <2>2. ASSUME Follows(r), NEW a \in d.members
        PROVE  /\ StaysOnHost(a) /\ d.subscribed[a] # {} =>
                    \/ d.notes = a
                    \/ d.producer # NoHost /\ d.hostOf[a] = d.producer
               /\ d.published[a] # NoMid => a \in d.voice
    <3>1. a \in r.members /\ a \in Agents /\ a \notin D
      BY <1>1, <1>2, <1>10 DEF Staged
    <3>2. /\ d.subscribed[a] = r.subscribed[a] /\ d.published[a] = r.published[a]
          /\ d.hostOf[a] = r.hostOf[a] /\ d.notes = r.notes
          /\ d.producer = r.producer /\ d.voice = r.voice
      BY <1>1, <1>2, <3>1 DEF Staged
    <3>. QED  BY <2>2, <3>1, <3>2 DEF Follows, HearsByGrant, SpeaksByGrant
  <2>3. Follows(r) => HearsByGrant(d) /\ SpeaksByGrant(d)
    BY <2>2 DEF HearsByGrant, SpeaksByGrant
  <2>4. Follows(r) => Follows(c)
    BY <1>6, <2>1, <2>3 DEF Follows
  <2>5. c.members \intersect D = {}
    BY <1>2, <1>6 DEF Collected
  <2>6. Follows(c) => HostsKnown(q) /\ SpeaksByGrant(q)
    BY <1>7, <2>5 DEF Follows, HostsKnown, SpeaksByGrant
  <2>7. ASSUME Follows(c), NEW a \in q.members, StaysOnHost(a), q.subscribed[a] # {}
        PROVE  \/ q.notes = a
               \/ q.producer # NoHost /\ q.hostOf[a] = q.producer
    <3>1. \/ c.notes = a
          \/ c.producer # NoHost /\ c.hostOf[a] = c.producer
      BY <1>7, <2>7 DEF Follows, HearsByGrant
    <3>2. a \notin D
      BY <1>7, <2>5
    <3>. QED  BY <1>7, <3>1, <3>2
  <2>8. Follows(c) => HearsByGrant(q)
    BY <2>7 DEF HearsByGrant
  <2>. QED  BY <2>4, <2>6, <2>8 DEF Follows
<1>12. Independent(r, q, e)
  <2>1. ASSUME NEW a \in Agents, q.session[a] = r.session[a]
        PROVE  /\ q.subscribed[a] = r.subscribed[a] \/ ~Hears(q, e, a)
               /\ q.published[a] = r.published[a] \/ a \notin q.voice
    <3>1. CASE a \in D
      <4>1. r.session[a] = NoSession
        BY <1>2, <1>6, <1>7, <2>1, <3>1 DEF Collected
      <4>2. r.subscribed[a] = {} /\ r.published[a] = NoMid
        BY <4>1 DEF Sound, MediaOfMembers
      <4>. QED  BY <1>9, <4>2 DEF Revises
    <3>2. CASE a \notin D
      <4>1. d.subscribed[a] = r.subscribed[a] /\ d.published[a] = r.published[a]
        BY <1>1, <1>2, <3>2 DEF Staged
      <4>2. /\ q.published[a] = d.published[a]
            /\ \/ q.subscribed[a] = d.subscribed[a]
               \/ q.producer = NoHost /\ c.notes # a
        BY <1>6, <1>7 DEF Collected
      <4>3. c.notes # a => q.notes # a
        BY <1>7, NullsAreNotValues
      <4>. QED  BY <4>1, <4>2, <4>3 DEF Hears, LiveTranscriptAuthorized
    <3>. QED  BY <3>1, <3>2
  <2>. QED  BY <2>1 DEF Independent
<1>13. VoicesAreReady(r, q)
  <2>1. q.voice \subseteq r.voice
    BY <1>1, <1>2, <1>6, <1>7 DEF Collected, Staged
  <2>. QED  BY <2>1 DEF VoicesAreReady
<1>14. Handled(r, q, e)
  BY <1>9, <1>11, <1>12, <1>13 DEF Handled
<1>. QED  BY <1>8, <1>14

\* The record with the readiness of one Host replaced.
Projected(r, j) ==
  /\ j \in RoomRecords
  /\ j.alive = r.alive /\ j.members = r.members /\ j.hostOf = r.hostOf
  /\ j.notes = r.notes /\ j.voice = r.voice /\ j.producer = r.producer
  /\ j.pending = r.pending /\ j.session = r.session
  /\ j.subscribed = r.subscribed /\ j.published = r.published

LEMMA ProjectFields ==
  ASSUME NEW r \in RoomRecords, NEW h \in Hosts, NEW p \in Projections
  PROVE  Projected(r, r) /\ Projected(r, Project(r, h, p))
BY DEF RoomRecords, Project, Projected

LEMMA AdmitHandled ==
  ASSUME NEW r, Sound(r), NEW e, NEW a \in Agents, a \notin r.members,
         NEW h \in HostsOf[a] \union {NoHost}, NEW j, Projected(r, j)
  PROVE  Handled(r, Admit(j, a, h), e)
<1>. DEFINE q == Admit(j, a, h)
<1>1. /\ q.members = r.members \union {a} /\ q.notes = r.notes
      /\ q.hostOf = [r.hostOf EXCEPT ![a] = h]
      /\ q.voice = r.voice /\ q.producer = r.producer
      /\ q.pending = r.pending /\ q.session = r.session
      /\ q.subscribed = r.subscribed /\ q.published = r.published
  BY DEF Projected, RoomRecords, Admit
<1>. HIDE DEF q
<1>2. r.subscribed[a] = {} /\ r.published[a] = NoMid
  BY DEF Sound, MediaOfMembers
<1>3. \A b \in Agents : q.hostOf[b] = IF b = a THEN h ELSE r.hostOf[b]
  BY <1>1 DEF Sound, RoomRecords
<1>4. r.members \subseteq Agents
  BY DEF Sound, RoomRecords
<1>5. Follows(r) => Follows(q)
  <2>1. Follows(r) => HostsKnown(q)
    BY <1>3 DEF Follows, HostsKnown
  <2>2. Follows(r) => HearsByGrant(q)
    BY <1>1, <1>2, <1>3, <1>4 DEF Follows, HearsByGrant
  <2>3. Follows(r) => SpeaksByGrant(q)
    BY <1>1, <1>2 DEF Follows, SpeaksByGrant
  <2>. QED  BY <2>1, <2>2, <2>3 DEF Follows
<1>6. Handled(r, q, e)
  BY <1>1, <1>5, MediaKept DEF Handled, VoicesAreReady
<1>. QED  BY <1>6 DEF q

-----------------------------------------------------------------------------
(* Part 7: what every step has to establish, and the parts it follows from. *)

\* The steps of GrantsAreIndependent.
GrantsKept ==
  \A a \in Agents :
    room'.session[a] = room.session[a] =>
      /\ MayHear(room, a) /\ MayHear(room', a) =>
           room.subscribed[a] \subseteq room'.subscribed[a]
      /\ room'.published[a] = room.published[a]
           \/ room.published[a] = NoMid \/ a \notin room'.voice

\* The steps of QueueDrainsOnlyClosed.
QueueKept ==
  \A t \in room.pending \ room'.pending :
    t \notin ingress' \union egress' \/ t \in forfeited'

Good == GInv' /\ GrantsKept /\ QueueKept

LEMMA SoundRoom == ASSUME IInv PROVE Sound(room)
BY DEF IInv, TypeOK, Sound

LEMMA LoadIsApart ==
  ASSUME GInv
  PROVE  /\ Sound(Load) /\ Handled(room, Load, enabled) /\ Loaded(room, Load, enabled)
         /\ OwnTracks(Load) /\ Spared(Load) /\ Follows(Load)
         /\ Tracked(Load) \subseteq Tracked(room)
         /\ Load.pending \subseteq room.pending \union Tracked(room)
         /\ room.pending \subseteq Load.pending
<1>1. Sound(room) /\ Sound(Load)
  BY LoadKeeps DEF GInv, Keeps
<1>2. Handled(room, Load, enabled) /\ Loaded(room, Load, enabled)
  BY <1>1, NormalizeHandled DEF Load
<1>3. Revises(room, Load) /\ Follows(Load)
  BY <1>2 DEF Handled, GInv
<1>4. OwnTracks(room) /\ Spared(room)
  BY DEF GInv
<1>5. room.pending \subseteq Load.pending
  BY <1>3 DEF Revises
<1>. QED  BY <1>1, <1>2, <1>3, <1>4, <1>5, RevisesApart

\* Hands only let go of tracks, and what they let go of is what may be new in
\* the record, the queue and the attempts.
LEMMA HandsStep ==
  ASSUME GInv,
         \A w \in Workers : worker'[w].step \in Holding =>
           worker[w].step \in Holding /\ TrackOf(w)' = TrackOf(w),
         \A t \in Tracked(room') \union room'.pending \union ClosersTracks' :
           \/ t \in Tracked(room) \union room.pending \union ClosersTracks
           \/ \E v \in Workers : /\ worker[v].step \in Holding /\ TrackOf(v) = t
                                 /\ worker'[v].step \notin Holding
  PROVE  HandsAreApart'
<1>1. ASSUME NEW w \in Workers, worker'[w].step \in Holding
      PROVE  TrackOf(w)' \notin Tracked(room') \union room'.pending \union ClosersTracks'
  <2>1. worker[w].step \in Holding /\ TrackOf(w)' = TrackOf(w)
    BY <1>1
  <2>2. /\ TrackOf(w) \notin Tracked(room) \union room.pending \union ClosersTracks
        /\ \A v \in Workers :
             worker[v].step \in Holding /\ TrackOf(v) = TrackOf(w) => v = w
    BY <2>1 DEF GInv, HandsAreApart
  <2>. QED  BY <1>1, <2>1, <2>2
<1>2. ASSUME NEW w \in Workers, worker'[w].step \in Holding,
             NEW v \in Workers, worker'[v].step \in Holding, TrackOf(v)' = TrackOf(w)'
      PROVE  v = w
  <2>1. /\ worker[w].step \in Holding /\ TrackOf(w)' = TrackOf(w)
        /\ worker[v].step \in Holding /\ TrackOf(v)' = TrackOf(v)
    BY <1>2
  <2>. QED  BY <1>2, <2>1 DEF GInv, HandsAreApart
<1>. QED  BY <1>1, <1>2 DEF HandsAreApart

\* The media an Agent loses, it loses with its grant: in the load, or after it.
LEMMA IndependentSteps ==
  ASSUME GInv, Independent(Load, room', enabled), VoicesAreReady(Load, room')
  PROVE  GrantsKept
<1>. DEFINE r == Load
<1>1. /\ Loaded(room, r, enabled) /\ Independent(room, r, enabled)
      /\ Follows(room) /\ Sound(room)
  BY LoadIsApart, SoundRoom DEF Handled, GInv
<1>2. Independent(r, room', enabled) /\ VoicesAreReady(r, room')
  OBVIOUS
<1>. HIDE DEF r
<1>3. SUFFICES ASSUME NEW a \in Agents, room'.session[a] = room.session[a]
               PROVE  /\ MayHear(room, a) /\ MayHear(room', a) =>
                           room.subscribed[a] \subseteq room'.subscribed[a]
                      /\ \/ room'.published[a] = room.published[a]
                         \/ room.published[a] = NoMid
                         \/ a \notin room'.voice
  BY DEF GrantsKept
<1>4. /\ r.subscribed[a] \subseteq room'.subscribed[a] \/ ~Hears(room', enabled, a)
      /\ \/ room'.published[a] = r.published[a]
         \/ r.published[a] = NoMid \/ a \notin room'.voice
  BY <1>1, <1>2, <1>3 DEF Loaded, Independent
<1>5. /\ r.subscribed[a] = room.subscribed[a] \/ ~Hears(room, enabled, a)
      /\ \/ r.published[a] = room.published[a]
         \/ room.published[a] = NoMid \/ a \notin r.voice
  BY <1>1 DEF Loaded, Independent
<1>6. MayHear(room, a) /\ MayHear(room', a) =>
        room.subscribed[a] \subseteq room'.subscribed[a]
  BY <1>4, <1>5 DEF Hears, MayHear
<1>7. ASSUME a \in room'.voice, a \notin r.voice PROVE room.published[a] = NoMid
  <2>1. a \in r.members \intersect r.connected /\ r.hostOf[a] \in r.tts
    BY <1>2, <1>7 DEF VoicesAreReady
  <2>2. a \in room.members \intersect room.connected /\ room.hostOf[a] \in room.tts
    BY <1>1, <2>1 DEF Loaded
  <2>3. a \notin room.voice
    BY <1>1, <1>7, <2>2 DEF Loaded, NormalVoice
  <2>. QED  BY <1>1, <2>2, <2>3 DEF Follows, SpeaksByGrant
<1>. QED  BY <1>4, <1>5, <1>6, <1>7

\* A step that moves tracks to the queue and lets go of tracks, but takes none.
LEMMA ApartStep ==
  ASSUME GInv, IInv',
         OwnTracks(room'), Spared(room'), Follows(room'),
         Tracked(room') \subseteq Tracked(room),
         room'.pending \subseteq room.pending \union Tracked(room),
         room.pending \subseteq room'.pending,
         Independent(Load, room', enabled), VoicesAreReady(Load, room'),
         ingress' \subseteq ingress, egress' \subseteq egress,
         \A c \in closers' : \/ c \in closers
                             \/ c.todo = room'.pending /\ c.confirmed = {},
         \A w \in Workers : worker'[w].step \in Holding =>
           worker[w].step \in Holding /\ TrackOf(w)' = TrackOf(w)
  PROVE  Good
<1>1. ClosersTracks' \subseteq ClosersTracks \union room'.pending
  BY DEF ClosersTracks
<1>2. HandsAreApart'
  BY <1>1, HandsStep
<1>3. ClosersSpare'
  <2>1. \A c \in closers' :
          (c.todo \union c.confirmed) \intersect Tracked(room') = {}
    BY DEF GInv, ClosersSpare, Spared
  <2>. QED  BY <2>1 DEF ClosersSpare
<1>4. ConfirmedIsSilent'
  BY DEF GInv, ConfirmedIsSilent
<1>5. GInv'
  BY <1>2, <1>3, <1>4 DEF GInv
<1>6. GrantsKept
  BY IndependentSteps
<1>7. QueueKept
  BY DEF QueueKept
<1>. QED  BY <1>5, <1>6, <1>7 DEF Good

\* What a handler makes of the loaded record keeps every track in one place.
LEMMA HandledApart ==
  ASSUME GInv, Handled(Load, room', enabled), Sound(room')
  PROVE  /\ OwnTracks(room') /\ Spared(room') /\ Follows(room')
         /\ Tracked(room') \subseteq Tracked(room)
         /\ room'.pending \subseteq room.pending \union Tracked(room)
         /\ room.pending \subseteq room'.pending
<1>1. /\ Sound(Load) /\ Revises(Load, room') /\ OwnTracks(Load) /\ Spared(Load)
      /\ Follows(room')
  BY LoadIsApart DEF Handled
<1>2. /\ OwnTracks(room') /\ Spared(room')
      /\ Tracked(room') \subseteq Tracked(Load)
      /\ room'.pending \subseteq Load.pending \union Tracked(Load)
  BY <1>1, RevisesApart
<1>3. Load.pending \subseteq room'.pending
  BY <1>1 DEF Revises
<1>. QED  BY <1>1, <1>2, <1>3, LoadIsApart

\* A handler that leaves the Workers and the SFU alone.
LEMMA SavedStep ==
  ASSUME GInv, IInv', NEW q, Handled(Load, q, enabled), Save(q) \/ SaveAndClose(q)
  PROVE  Good
<1>1. /\ room' = q /\ UNCHANGED <<worker, ingress, egress>>
      /\ \A c \in closers' : \/ c \in closers
                             \/ c.todo = room'.pending /\ c.confirmed = {}
  BY DEF Save, SaveAndClose, StartCloser, sfu
<1>2. Handled(Load, room', enabled) /\ Sound(room')
  BY <1>1, SoundRoom DEF IInv, TypeOK, Sound
<1>3. \A w \in Workers : TrackOf(w)' = TrackOf(w)
  BY <1>1 DEF TrackOf
<1>4. Independent(Load, room', enabled) /\ VoicesAreReady(Load, room')
  BY <1>2 DEF Handled
<1>. QED  BY <1>1, <1>2, <1>3, <1>4, HandledApart, ApartStep

\* The record is created or deleted: neither the old one nor the new one has
\* any participant with media.
Blank(q) ==
  /\ q.pending = {}
  /\ \A a \in Agents : /\ q.hostOf[a] \in HostsOf[a] \union {NoHost}
                       /\ q.subscribed[a] = {} /\ q.published[a] = NoMid

LEMMA BlankStep ==
  ASSUME GInv, IInv', room.members = {}, Blank(room'),
         UNCHANGED <<worker, ingress, egress>>,
         \A c \in closers' : \/ c \in closers
                             \/ c.todo = Load.pending /\ c.confirmed = {},
         \A a \in Agents : room'.session[a] = NoSession,
         room.pending \subseteq forfeited'
  PROVE  Good
<1>1. \A a \in Agents : room.subscribed[a] = {} /\ room.published[a] = NoMid
  BY SoundRoom DEF GInv, Sound, MediaOfMembers
<1>2. Tracked(room) = {} /\ Tracked(room') = {}
  BY <1>1 DEF Blank, Tracked, TrackedSubscriptions, TrackedPublications,
              SubscribedTracks, PublishedTracks
<1>3. Load.pending \subseteq room.pending
  BY <1>2, LoadIsApart
<1>4. ClosersTracks' \subseteq ClosersTracks \union room.pending
  BY <1>3 DEF ClosersTracks
<1>5. HandsAreApart'
  <2>1. \A w \in Workers : TrackOf(w)' = TrackOf(w)
    BY DEF TrackOf
  <2>2. room'.pending = {}
    BY DEF Blank
  <2>. QED  BY <1>2, <1>4, <2>1, <2>2, HandsStep
<1>6. ClosersSpare' /\ Spared(room')
  BY <1>2 DEF ClosersSpare, Spared
<1>7. ConfirmedIsSilent'
  BY DEF GInv, ConfirmedIsSilent
<1>8. OwnTracks(room')
  BY DEF Blank, OwnTracks
<1>9. Follows(room')
  <2>1. room'.members \subseteq Agents
    BY DEF IInv, TypeOK, RoomRecords
  <2>. QED  BY <2>1 DEF Blank, Follows, HostsKnown, HearsByGrant, SpeaksByGrant
<1>10. GrantsKept
  BY <1>1 DEF GrantsKept
<1>11. QueueKept
  BY DEF QueueKept
<1>12. GInv'
  BY <1>5, <1>6, <1>7, <1>8, <1>9 DEF GInv
<1>. QED  BY <1>10, <1>11, <1>12 DEF Good

LEMMA RegisterAgentGood ==
  ASSUME GInv, IInv', NEW a \in Agents, RegisterAgent(Load, a)
  PROVE  Good
<1>1. CASE room.alive
  <2>1. a \notin Load.members /\ Sound(Load) /\ HostsOf[a] \subseteq Hosts
    BY LoadIsApart, HostsOfAssumption DEF RegisterAgent
  <2>2. \/ Save(Admit(Load, a, NoHost))
        \/ \E h \in HostsOf[a], p \in Projections :
             Save(Admit(Project(Load, h, p), a, h))
    BY <1>1 DEF RegisterAgent
  <2>3. ASSUME NEW j, Projected(Load, j), NEW h \in HostsOf[a] \union {NoHost},
               Save(Admit(j, a, h))
        PROVE  Good
    <3>1. Handled(Load, Admit(j, a, h), enabled)
      BY <2>1, <2>3, AdmitHandled
    <3>. QED  BY <2>3, <3>1, SavedStep
  <2>4. Projected(Load, Load)
    BY <2>1 DEF Projected, Sound
  <2>5. \A h \in HostsOf[a], p \in Projections : Projected(Load, Project(Load, h, p))
    BY <2>1, ProjectFields DEF Sound
  <2>. QED  BY <2>2, <2>3, <2>4, <2>5
<1>2. CASE ~room.alive
  <2>1. room.members = {} /\ room.pending = {}
    BY <1>2 DEF GInv, IInv, DeletedIsEmpty
  <2>2. HostsOf[a] \subseteq Hosts
    BY HostsOfAssumption
  <2>3. \/ Save(Admit(EmptyRoom, a, NoHost))
        \/ \E h \in HostsOf[a], p \in Projections :
             Save(Admit(Project(EmptyRoom, h, p), a, h))
    BY <1>2 DEF RegisterAgent
  <2>4. EmptyRoom \in RoomRecords
    BY EmptyRoomSound DEF Sound
  <2>5. ASSUME NEW j, Projected(EmptyRoom, j), NEW h \in HostsOf[a] \union {NoHost},
               Save(Admit(j, a, h))
        PROVE  Good
    <3>1. /\ room' = Admit(j, a, h) /\ j \in RoomRecords
          /\ UNCHANGED <<worker, ingress, egress, closers>>
      BY <2>5 DEF Save, sfu, Projected
    <3>2. /\ room'.pending = j.pending /\ room'.session = j.session
          /\ room'.subscribed = j.subscribed /\ room'.published = j.published
          /\ \A b \in Agents : room'.hostOf[b] = IF b = a THEN h ELSE j.hostOf[b]
      BY <3>1 DEF Admit, RoomRecords
    <3>3. Blank(room') /\ \A b \in Agents : room'.session[b] = NoSession
      BY <2>5, <3>2 DEF Blank, Projected, EmptyRoom
    <3>. QED  BY <2>1, <3>1, <3>3, BlankStep
  <2>6. Projected(EmptyRoom, EmptyRoom)
    BY <2>4 DEF Projected
  <2>7. \A h \in HostsOf[a], p \in Projections :
          Projected(EmptyRoom, Project(EmptyRoom, h, p))
    BY <2>2, <2>4, ProjectFields
  <2>. QED  BY <2>3, <2>5, <2>6, <2>7
<1>. QED  BY <1>1, <1>2

LEMMA CreateAndExpireGood ==
  ASSUME GInv, IInv', RegisterHuman \/ Expire(Load)
  PROVE  Good
<1>1. Blank(EmptyRoom) /\ Blank([EmptyRoom EXCEPT !.alive = FALSE])
  BY DEF Blank, EmptyRoom
<1>2. CASE RegisterHuman
  <2>1. room.members = {} /\ room.pending = {}
    BY <1>2 DEF RegisterHuman, GInv, IInv, DeletedIsEmpty
  <2>2. room' = EmptyRoom /\ UNCHANGED <<worker, ingress, egress, closers>>
    BY <1>2 DEF RegisterHuman, Save, sfu
  <2>3. \A a \in Agents : room'.session[a] = NoSession
    BY <2>2 DEF EmptyRoom
  <2>. QED  BY <1>1, <2>1, <2>2, <2>3, BlankStep
<1>3. CASE Expire(Load)
  <2>1. room.members = {}
    BY <1>3, LoadIsApart DEF Expire, Loaded
  <2>2. /\ room' = [EmptyRoom EXCEPT !.alive = FALSE]
        /\ UNCHANGED <<worker, ingress, egress>>
        /\ forfeited' = forfeited \union Load.pending
        /\ \A c \in closers' : \/ c \in closers
                               \/ c.todo = Load.pending /\ c.confirmed = {}
    BY <1>3 DEF Expire, StartCloser, sfu
  <2>3. room.pending \subseteq forfeited'
    BY <2>2, LoadIsApart
  <2>4. \A a \in Agents : room'.session[a] = NoSession
    BY <2>2 DEF EmptyRoom
  <2>. QED  BY <1>1, <2>1, <2>2, <2>3, <2>4, BlankStep
<1>. QED  BY <1>2, <1>3

\* Nothing of the room changes, and no track enters the SFU.
LEMMA SameRoomStep ==
  ASSUME GInv, IInv', room' = room,
         ingress' \subseteq ingress, egress' \subseteq egress,
         \A w \in Workers : worker'[w].step \in Holding =>
           worker[w].step \in Holding /\ TrackOf(w)' = TrackOf(w),
         closers' \subseteq closers
  PROVE  Good
<1>1. HandsAreApart'
  <2>1. ClosersTracks' \subseteq ClosersTracks
    BY DEF ClosersTracks
  <2>. QED  BY <2>1, HandsStep
<1>2. ClosersSpare' /\ ConfirmedIsSilent'
  BY DEF GInv, ClosersSpare, ConfirmedIsSilent
<1>3. OwnTracks(room') /\ Spared(room') /\ Follows(room')
  BY DEF GInv
<1>4. GrantsKept /\ QueueKept
  BY DEF GrantsKept, QueueKept
<1>. QED  BY <1>1, <1>2, <1>3, <1>4 DEF GInv, Good

LEMMA RoomHandlersGood == ASSUME GInv, IInv', RoomStep PROVE Good
<1>1. Sound(Load) /\ Load.members \subseteq Agents /\ Load \in RoomRecords
  BY LoadIsApart DEF Sound, RoomRecords
<1>2. CASE ReadRoom(Load)
  BY <1>2, ReadHandled, SavedStep DEF ReadRoom
<1>3. ASSUME NEW a \in Agents,
             EventSocketCloses(Load, a) \/ EventSocketConnects(Load, a)
      PROVE  Good
  <2>1. /\ Load.connected \ {a} \in SUBSET Agents
        /\ Load.connected \union {a} \in SUBSET Agents
    BY <1>1 DEF RoomRecords
  <2>2. \/ Save([Load EXCEPT !.connected = Load.connected \ {a}])
        \/ Save([Load EXCEPT !.connected = Load.connected \union {a}])
    BY <1>3 DEF EventSocketCloses, EventSocketConnects
  <2>3. ASSUME NEW C \in SUBSET Agents, Save([Load EXCEPT !.connected = C])
        PROVE  Good
    <3>1. Handled(Load, [Load EXCEPT !.connected = C], enabled)
      BY <1>1, PresenceHandled
    <3>. QED  BY <2>3, <3>1, SavedStep
  <2>. QED  BY <2>1, <2>2, <2>3
<1>4. ASSUME NEW a \in Agents, NEW h \in HostsOf[a], NEW p \in Projections,
             UpdateRuntimeHost(Load, a, h, p)
      PROVE  Good
  <2>. DEFINE x == RevokedByUpdate(Load, a, h, p)
              c == CollectHosts(Stage([Project(Load, h, p) EXCEPT
                                         !.hostOf[a] = h, !.voice = @ \ x],
                                      {}, x), enabled)
  <2>1. a \in Load.members /\ SaveAndClose(c)
    BY <1>4 DEF UpdateRuntimeHost
  <2>2. Handled(Load, c, enabled)
    BY <1>1, <2>1, UpdateHandled
  <2>. HIDE DEF c
  <2>. QED  BY <2>1, <2>2, SavedStep
<1>5. ASSUME NEW D \in SUBSET Agents, SaveAndClose(Depart(Load, enabled, D))
      PROVE  Good
  <2>1. Handled(Load, Depart(Load, enabled, D), enabled)
    BY <1>1, DepartHandled
  <2>. QED  BY <1>5, <2>1, SavedStep
<1>6. ASSUME NEW a \in Agents, Leave(Load, a) PROVE Good
  BY <1>5, <1>6 DEF Leave
<1>7. ASSUME NEW D \in SUBSET Agents, Alarm(Load, D) PROVE Good
  BY <1>5, <1>7 DEF Alarm
<1>8. CASE Restart
  <2>1. /\ room' = room /\ closers' = {} /\ worker' = worker
        /\ ingress' = ingress /\ egress' = egress
    BY <1>8 DEF Restart, sfu
  <2>2. \A w \in Workers : TrackOf(w)' = TrackOf(w)
    BY <2>1 DEF TrackOf
  <2>. QED  BY <2>1, <2>2, SameRoomStep
<1>. QED  BY <1>2, <1>3, <1>4, <1>6, <1>7, <1>8, RegisterAgentGood, CreateAndExpireGood
          DEF RoomStep

LEMMA HumanMessagesGood == ASSUME GInv, IInv', HumanStep PROVE Good
<1>1. Sound(Load) /\ Load.voice \subseteq Agents /\ Load.notes \in Agents \union {NoAgent}
  BY LoadIsApart DEF Sound, RoomRecords
<1>2. ASSUME NEW n \in Agents \union {NoAgent}, n = Load.notes => n = NoAgent,
             SaveAndClose(RevokeSubscribed([Load EXCEPT !.notes = n],
                                           enabled, Load.notes))
      PROVE  Good
  <2>1. Handled(Load, RevokeSubscribed([Load EXCEPT !.notes = n],
                                       enabled, Load.notes), enabled)
    BY <1>1, <1>2, NotesHandled
  <2>. QED  BY <1>2, <2>1, SavedStep
<1>3. ASSUME NEW a \in Agents, MeetingNotesStart(Load, a) PROVE Good
  BY <1>2, <1>3 DEF MeetingNotesStart
<1>4. CASE MeetingNotesStop(Load)
  BY <1>2, <1>4 DEF MeetingNotesStop
<1>5. ASSUME NEW a \in Agents, AgentVoiceOn(Load, a) PROVE Good
  <2>1. /\ a \in Load.members \intersect Load.connected
        /\ Load.hostOf[a] \in Load.tts
        /\ SaveAndClose([Load EXCEPT !.voice = @ \union {a}])
    BY <1>5 DEF AgentVoiceOn
  <2>2. Handled(Load, [Load EXCEPT !.voice = @ \union {a}], enabled)
    BY <1>1, <2>1, VoiceOnHandled
  <2>. QED  BY <2>1, <2>2, SavedStep
<1>6. ASSUME NEW a \in Agents, AgentVoiceOff(Load, a) PROVE Good
  <2>1. SaveAndClose([Stage(Load, {}, {a}) EXCEPT !.voice = @ \ {a}])
    BY <1>6 DEF AgentVoiceOff
  <2>2. Handled(Load, [Stage(Load, {}, {a}) EXCEPT !.voice = @ \ {a}], enabled)
    BY <1>1, VoiceOffHandled
  <2>. QED  BY <2>1, <2>2, SavedStep
<1>7. ASSUME NEW h \in Hosts, LiveTranscriptStart(Load, h) PROVE Good
  <2>1. Load.producer = NoHost /\ Save([Load EXCEPT !.producer = h])
    BY <1>7 DEF LiveTranscriptStart
  <2>2. Handled(Load, [Load EXCEPT !.producer = h], enabled)
    BY <1>1, <2>1, TranscriptStartHandled
  <2>. QED  BY <2>1, <2>2, SavedStep
<1>8. CASE LiveTranscriptStop(Load)
  <2>1. SaveAndClose(StopLiveTranscript(Load))
    BY <1>8 DEF LiveTranscriptStop
  <2>. QED  BY <1>1, <2>1, TranscriptStopHandled, SavedStep
<1>. QED  BY <1>3, <1>4, <1>5, <1>6, <1>7, <1>8 DEF HumanStep

\* A Worker's step that loads the record at most.
LEMMA LoadedStep ==
  ASSUME GInv, IInv', room' \in {room, Load},
         ingress' \subseteq ingress, egress' \subseteq egress, closers' = closers,
         \A w \in Workers : worker'[w].step \in Holding =>
           worker[w].step \in Holding /\ TrackOf(w)' = TrackOf(w)
  PROVE  Good
<1>1. CASE room' = room
  BY <1>1, SameRoomStep
<1>2. CASE room' = Load
  <2>1. Handled(Load, room', enabled) /\ Sound(room')
    BY <1>2, ReadHandled, LoadIsApart
  <2>2. Independent(Load, room', enabled) /\ VoicesAreReady(Load, room')
    BY <2>1 DEF Handled
  <2>. QED  BY <2>1, <2>2, HandledApart, ApartStep
<1>. QED  BY <1>1, <1>2

\* The request in slot w becomes q; the others keep theirs.
LEMMA BecomeHands ==
  ASSUME IInv, NEW w \in Workers, NEW q, Become(w, q)
  PROVE  /\ worker'[w] = q
         /\ TrackOf(w)' = <<q.session, q.mid>>
         /\ \A v \in Workers \ {w} : worker'[v] = worker[v] /\ TrackOf(v)' = TrackOf(v)
<1>1. worker'[w] = q /\ \A v \in Workers \ {w} : worker'[v] = worker[v]
  BY DEF Become, IInv, TypeOK
<1>. QED  BY <1>1 DEF TrackOf

LEMMA IdleHoldsNothing == Idle.step \notin Holding
BY IdleRequest DEF Holding

LEMMA QuietRequestGood ==
  ASSUME GInv, IInv', NEW w \in Workers,
         \/ \E a \in Agents : \/ AdmitSession(Load, w, a)
                              \/ \E p \in Purposes : Authorize(Load, w, a, p)
         \/ Reauthorize(Load, w)
         \/ CreateTrackFails(w)
         \/ CompensateSucceeds(w)
         \/ CompensateFails(w)
  PROVE  Good
<1>1. worker[w] \in Requests /\ IInv
  BY DEF GInv, IInv, TypeOK
<1>2. ASSUME NEW q, Become(w, q),
             \/ q.step \notin Holding
             \/ worker[w].step \in Holding /\ TrackOf(w) = <<q.session, q.mid>>,
             room' \in {room, Load}, closers' = closers,
             ingress' \subseteq ingress, egress' \subseteq egress
      PROVE  Good
  <2>1. \A v \in Workers : worker'[v].step \in Holding =>
          worker[v].step \in Holding /\ TrackOf(v)' = TrackOf(v)
    BY <1>1, <1>2, BecomeHands
  <2>. QED  BY <1>2, <2>1, LoadedStep
<1>3. ASSUME NEW a \in Agents, AdmitSession(Load, w, a) PROVE Good
  <2>. DEFINE q == [Idle EXCEPT !.step = "admitted", !.agent = a]
  <2>1. q.step \notin Holding
    BY DEF Idle, Holding
  <2>2. /\ Become(w, q) /\ room' = Load
        /\ closers' = closers /\ ingress' = ingress /\ egress' = egress
    BY <1>3 DEF AdmitSession, sfu
  <2>. HIDE DEF q
  <2>. QED  BY <1>2, <2>1, <2>2
<1>4. ASSUME NEW a \in Agents, NEW p \in Purposes, Authorize(Load, w, a, p) PROVE Good
  <2>. DEFINE q == [step |-> IF p = "voice-reply" THEN "cleared" ELSE "authorized",
                    agent |-> a, session |-> Load.session[a], mid |-> NoMid,
                    purpose |-> p]
  <2>1. q.step \notin Holding
    BY DEF Holding
  <2>2. /\ Become(w, q) /\ room' = Load
        /\ closers' = closers /\ ingress' = ingress /\ egress' = egress
    BY <1>4 DEF Authorize, sfu
  <2>. HIDE DEF q
  <2>. QED  BY <1>2, <2>1, <2>2
<1>5. CASE Reauthorize(Load, w)
  <2>. DEFINE q == [worker[w] EXCEPT !.step = "cleared"]
  <2>1. q.step \notin Holding
    BY <1>1 DEF Requests, Holding
  <2>2. /\ Become(w, q) \/ Become(w, Idle)
        /\ room' = Load
        /\ closers' = closers /\ ingress' = ingress /\ egress' = egress
    BY <1>5 DEF Reauthorize, sfu
  <2>. HIDE DEF q
  <2>. QED  BY <1>2, <2>1, <2>2, IdleHoldsNothing
<1>6. CASE CreateTrackFails(w)
  BY <1>2, <1>6, IdleHoldsNothing DEF CreateTrackFails, sfu
<1>7. CASE CompensateSucceeds(w)
  BY <1>2, <1>7, IdleHoldsNothing DEF CompensateSucceeds, Carry
<1>8. CASE CompensateFails(w)
  <2>. DEFINE q == [worker[w] EXCEPT !.step = "unresolved"]
  <2>1. worker[w].step \in Holding /\ TrackOf(w) = <<q.session, q.mid>>
    BY <1>1, <1>8 DEF CompensateFails, Requests, Holding, TrackOf
  <2>2. /\ Become(w, q) /\ room' = room /\ closers' = closers
        /\ ingress' \subseteq ingress /\ egress' \subseteq egress
    BY <1>8 DEF CompensateFails, Carry, sfu
  <2>. HIDE DEF q
  <2>. QED  BY <1>2, <2>1, <2>2
<1>. QED  BY <1>3, <1>4, <1>5, <1>6, <1>7, <1>8

LEMMA AttachSessionGood ==
  ASSUME GInv, IInv', NEW w \in Workers, NEW s \in Sessions, AttachSession(Load, w, s)
  PROVE  Good
<1>. DEFINE r == Load
            a == worker[w].agent
            g == Stage(r, {a}, {a})
            q == [g EXCEPT !.session[a] = s]
<1>1. /\ Sound(r) /\ r \in RoomRecords /\ OwnTracks(r) /\ Spared(r) /\ Follows(r)
      /\ r.session = room.session
  BY LoadIsApart DEF Sound, Loaded
<1>2. a \in Agents /\ s \notin KnownSessions /\ Become(w, Idle)
      /\ ingress' = ingress /\ egress' = egress
  BY DEF AttachSession, GInv, IInv, RequestsSound, RequestSound, sfu
<1>3. \A v \in Workers : worker'[v].step \in Holding =>
        worker[v].step \in Holding /\ TrackOf(v)' = TrackOf(v)
  BY <1>2, BecomeHands, IdleHoldsNothing DEF GInv
<1>4. CASE room' = r /\ closers' = closers
  BY <1>2, <1>3, <1>4, LoadedStep
<1>5. CASE room' = q /\ StartCloser(room', TRUE)
  <2>1. /\ Staged(r, {a}, {a}, g) /\ Revises(r, g) /\ Sound(g) /\ g \in RoomRecords
    BY <1>1, <1>2, StageFields, StageRevises, StageKeeps DEF Keeps, Sound
  <2>2. \A b \in Agents : s # r.session[b]
    BY <1>1, <1>2 DEF KnownSessions
  <2>. HIDE DEF r, g
  <2>3. /\ q.members = g.members /\ q.hostOf = g.hostOf /\ q.notes = g.notes
        /\ q.voice = g.voice /\ q.producer = g.producer /\ q.pending = g.pending
        /\ q.subscribed = g.subscribed /\ q.published = g.published
        /\ \A b \in Agents : q.session[b] = IF b = a THEN s ELSE g.session[b]
    BY <1>2, <2>1 DEF RoomRecords
  <2>. HIDE DEF q
  <2>4. /\ OwnTracks(g) /\ Spared(g) /\ Tracked(g) \subseteq Tracked(r)
        /\ g.pending \subseteq r.pending \union Tracked(r)
        /\ r.pending \subseteq g.pending
    <3>1. r.pending \subseteq g.pending
      BY <2>1 DEF Revises
    <3>. QED  BY <1>1, <2>1, <3>1, RevisesApart
  <2>5. q.subscribed[a] = {} /\ q.published[a] = NoMid
    BY <1>2, <2>1, <2>3 DEF Staged
  <2>6. Tracked(q) = Tracked(g)
    <3>1. \A b \in Agents : /\ SubscribedTracks(q, b) = SubscribedTracks(g, b)
                            /\ PublishedTracks(q, b) = PublishedTracks(g, b)
      BY <2>3, <2>5 DEF SubscribedTracks, PublishedTracks
    <3>. QED  BY <3>1 DEF Tracked, TrackedSubscriptions, TrackedPublications
  <2>7. Spared(q)
    BY <2>3, <2>4, <2>6 DEF Spared
  <2>8. OwnTracks(q)
    <3>1. \A b \in Agents : s # g.session[b]
      BY <2>1, <2>2 DEF Staged
    <3>2. ASSUME NEW b \in Agents, NEW c \in Agents, q.session[b] = q.session[c]
          PROVE  b = c \/ q.session[b] = NoSession
      <4>1. CASE b # a /\ c # a
        BY <2>3, <2>4, <3>2, <4>1 DEF OwnTracks
      <4>2. CASE b = a \/ c = a
        BY <2>3, <3>1, <3>2, <4>2
      <4>. QED  BY <4>1, <4>2
    <3>3. \A b \in Agents : q.published[b] \notin q.subscribed[b]
      BY <2>3, <2>4 DEF OwnTracks
    <3>. QED  BY <3>2, <3>3 DEF OwnTracks
  <2>9. Follows(q)
    <3>1. r.members \subseteq Agents
      BY <1>1 DEF RoomRecords
    <3>2. \A b \in Agents : /\ q.hostOf[b] = r.hostOf[b]
                            /\ q.subscribed[b] \in {r.subscribed[b], {}}
                            /\ q.published[b] \in {r.published[b], NoMid}
      BY <2>1, <2>3 DEF Staged
    <3>3. /\ q.members = r.members /\ q.notes = r.notes
          /\ q.producer = r.producer /\ q.voice = r.voice
      BY <2>1, <2>3 DEF Staged
    <3>4. HostsKnown(q) /\ SpeaksByGrant(q)
      BY <1>1, <3>1, <3>2, <3>3 DEF Follows, HostsKnown, SpeaksByGrant
    <3>5. ASSUME NEW b \in q.members, StaysOnHost(b), q.subscribed[b] # {}
          PROVE  \/ q.notes = b
                 \/ q.producer # NoHost /\ q.hostOf[b] = q.producer
      <4>1. b \in r.members /\ b \in Agents /\ r.subscribed[b] # {}
        BY <3>1, <3>2, <3>3, <3>5
      <4>2. \/ r.notes = b
            \/ r.producer # NoHost /\ r.hostOf[b] = r.producer
        BY <1>1, <3>5, <4>1 DEF Follows, HearsByGrant
      <4>. QED  BY <3>2, <3>3, <4>1, <4>2
    <3>6. HearsByGrant(q)
      BY <3>5 DEF HearsByGrant
    <3>. QED  BY <3>4, <3>6 DEF Follows
  <2>10. Independent(r, q, enabled)
    <3>1. ASSUME NEW b \in Agents, q.session[b] = r.session[b]
          PROVE  q.subscribed[b] = r.subscribed[b] /\ q.published[b] = r.published[b]
      <4>1. b # a
        BY <2>2, <2>3, <3>1
      <4>. QED  BY <2>1, <2>3, <4>1 DEF Staged
    <3>. QED  BY <3>1 DEF Independent
  <2>11. VoicesAreReady(r, q)
    BY <2>1, <2>3 DEF Staged, VoicesAreReady
  <2>12. /\ Tracked(room') \subseteq Tracked(room)
         /\ room'.pending \subseteq room.pending \union Tracked(room)
         /\ room.pending \subseteq room'.pending
    <3>1. /\ Tracked(r) \subseteq Tracked(room)
          /\ r.pending \subseteq room.pending \union Tracked(room)
          /\ room.pending \subseteq r.pending
      BY LoadIsApart DEF r
    <3>. QED  BY <1>5, <2>3, <2>4, <2>6, <3>1
  <2>13. Independent(Load, room', enabled) /\ VoicesAreReady(Load, room')
    BY <1>5, <2>10, <2>11 DEF r
  <2>14. \A c \in closers' : \/ c \in closers
                             \/ c.todo = room'.pending /\ c.confirmed = {}
    BY <1>5 DEF StartCloser
  <2>15. OwnTracks(room') /\ Spared(room') /\ Follows(room')
    BY <1>5, <2>7, <2>8, <2>9
  <2>. QED  BY <1>2, <1>3, <2>12, <2>13, <2>14, <2>15, ApartStep
<1>. QED  BY <1>4, <1>5 DEF AttachSession

LEMMA CreateTrackGood ==
  ASSUME GInv, IInv', NEW w \in Workers, NEW m \in Mids, CreateTrack(w, m)
  PROVE  Good
<1>. DEFINE q == worker[w]
            t == <<q.session, m>>
            n == [q EXCEPT !.step = "created", !.mid = m]
<1>1. q \in Requests /\ IInv
  BY DEF GInv, IInv, TypeOK
<1>2. n.session = q.session /\ n.mid = m
  BY <1>1 DEF Requests
<1>3. /\ Become(w, n) /\ room' = room /\ closers' = closers /\ t \notin Known
      /\ ingress' \subseteq ingress \union {t} /\ egress' \subseteq egress \union {t}
  BY DEF CreateTrack
<1>. HIDE DEF n
<1>4. /\ TrackOf(w)' = t
      /\ \A v \in Workers \ {w} : worker'[v] = worker[v] /\ TrackOf(v)' = TrackOf(v)
  BY <1>1, <1>2, <1>3, BecomeHands
<1>5. /\ t \notin Tracked(room') \union room'.pending \union ClosersTracks'
      /\ \A v \in Workers : worker[v].step \in Holding => TrackOf(v) # t
  BY <1>3 DEF Known, InHand, ClosersTracks
<1>6. ClosersTracks' = ClosersTracks
  BY <1>3 DEF ClosersTracks
<1>7. HandsAreApart'
  <2>1. ASSUME NEW v \in Workers, worker'[v].step \in Holding
        PROVE  TrackOf(v)' \notin Tracked(room') \union room'.pending \union ClosersTracks'
    <3>1. CASE v = w
      BY <1>4, <1>5, <3>1
    <3>2. CASE v # w
      BY <1>3, <1>4, <1>6, <2>1, <3>2 DEF GInv, HandsAreApart
    <3>. QED  BY <3>1, <3>2
  <2>2. ASSUME NEW v \in Workers, worker'[v].step \in Holding,
               NEW u \in Workers, worker'[u].step \in Holding,
               TrackOf(u)' = TrackOf(v)'
        PROVE  u = v
    <3>1. CASE u # w /\ v # w
      BY <1>4, <2>2, <3>1 DEF GInv, HandsAreApart
    <3>2. CASE u = w \/ v = w
      BY <1>4, <1>5, <2>2, <3>2
    <3>. QED  BY <3>1, <3>2
  <2>. QED  BY <2>1, <2>2 DEF HandsAreApart
<1>8. ConfirmedIsSilent'
  <2>1. \A c \in closers : t \notin c.confirmed
    BY <1>3 DEF Known, ClosersTracks
  <2>. QED  BY <1>3, <2>1 DEF GInv, ConfirmedIsSilent
<1>9. ClosersSpare' /\ OwnTracks(room') /\ Spared(room') /\ Follows(room')
  BY <1>3 DEF GInv, ClosersSpare
<1>10. GrantsKept /\ QueueKept
  BY <1>3 DEF GrantsKept, QueueKept
<1>. QED  BY <1>7, <1>8, <1>9, <1>10 DEF GInv, Good

\* What the registration of a track changes: one direction of one Agent.
LEMMA RecordFields ==
  ASSUME NEW r, Sound(r), NEW q \in Requests, RequestSound(q), q.step \in Holding,
         Accepts(r, q), NEW t, t = <<q.session, q.mid>>, t \notin Tracked(r)
  PROVE  /\ Tracked(Record(r, q)) \subseteq Tracked(r) \union {t}
         /\ OwnTracks(r) => OwnTracks(Record(r, q))
         /\ Record(r, q).pending = r.pending
         /\ Follows(r) => Follows(Record(r, q))
         /\ \A e : Independent(r, Record(r, q), e)
         /\ VoicesAreReady(r, Record(r, q))
<1>. DEFINE u == Record(r, q)
            a == q.agent
<1>1. /\ a \in r.members /\ a \in Agents /\ q.mid \in Mids
      /\ r.session[a] = q.session /\ Granted(r, a, q.purpose) /\ r \in RoomRecords
  BY DEF Accepts, Found, RequestSound, Sound
<1>2. /\ q.mid \notin r.subscribed[a] /\ q.mid # r.published[a] /\ q.mid # NoMid
  <2>1. q.mid # NoMid
    BY <1>1, NullsAreNotValues
  <2>2. t \notin SubscribedTracks(r, a) /\ t \notin PublishedTracks(r, a)
    BY <1>1 DEF Tracked, TrackedSubscriptions, TrackedPublications
  <2>. QED  BY <1>1, <2>1, <2>2 DEF SubscribedTracks, PublishedTracks
<1>3. /\ u.members = r.members /\ u.hostOf = r.hostOf /\ u.notes = r.notes
      /\ u.voice = r.voice /\ u.producer = r.producer
      /\ u.pending = r.pending /\ u.session = r.session
      /\ \A b \in Agents \ {a} : /\ u.subscribed[b] = r.subscribed[b]
                                 /\ u.published[b] = r.published[b]
      /\ \/ /\ a \in r.voice /\ r.published[a] = NoMid
            /\ u.published[a] = q.mid /\ u.subscribed[a] = r.subscribed[a]
         \/ /\ \/ r.notes = a
               \/ r.producer # NoHost /\ r.hostOf[a] = r.producer
            /\ u.subscribed[a] = r.subscribed[a] \union {q.mid}
            /\ u.published[a] = r.published[a]
  <2>1. CASE q.purpose = "voice-reply"
    <3>1. u = [r EXCEPT !.published[a] = q.mid]
      BY <2>1 DEF Record
    <3>2. a \in r.voice /\ r.published[a] = NoMid
      BY <1>1, <1>2, <2>1 DEF Granted, Accepts
    <3>. QED  BY <1>1, <3>1, <3>2 DEF RoomRecords
  <2>2. CASE q.purpose # "voice-reply"
    <3>. DEFINE f == [r.subscribed EXCEPT ![a] = @ \union {q.mid}]
    <3>1. u = [r EXCEPT !.subscribed = f]
      BY <2>2 DEF Record
    <3>3. /\ f[a] = r.subscribed[a] \union {q.mid}
          /\ \A b \in Agents \ {a} : f[b] = r.subscribed[b]
      BY <1>1 DEF RoomRecords
    <3>. HIDE DEF f
    <3>2. \/ r.notes = a
          \/ r.producer # NoHost /\ r.hostOf[a] = r.producer
      BY <1>1, <2>2 DEF Granted, LiveTranscriptAuthorized, OnHost
    <3>4. /\ u.members = r.members /\ u.hostOf = r.hostOf /\ u.notes = r.notes
          /\ u.voice = r.voice /\ u.producer = r.producer
          /\ u.pending = r.pending /\ u.session = r.session
          /\ u.subscribed = f /\ u.published = r.published
      BY <1>1, <3>1 DEF RoomRecords
    <3>. QED  BY <3>2, <3>3, <3>4
  <2>. QED  BY <2>1, <2>2
<1>. HIDE DEF u
<1>4. Tracked(u) \subseteq Tracked(r) \union {t}
  <2>1. ASSUME NEW b \in Agents
        PROVE  /\ SubscribedTracks(u, b) \subseteq SubscribedTracks(r, b) \union {t}
               /\ PublishedTracks(u, b) \subseteq PublishedTracks(r, b) \union {t}
    BY <1>1, <1>3 DEF SubscribedTracks, PublishedTracks
  <2>. QED  BY <2>1 DEF Tracked, TrackedSubscriptions, TrackedPublications
<1>5. OwnTracks(r) => OwnTracks(u)
  <2>1. ASSUME OwnTracks(r), NEW b \in Agents PROVE u.published[b] \notin u.subscribed[b]
    <3>1. r.published[b] \notin r.subscribed[b]
      BY <2>1 DEF OwnTracks
    <3>. QED  BY <1>1, <1>2, <1>3, <3>1
  <2>. QED  BY <1>3, <2>1 DEF OwnTracks
<1>6. Follows(r) => Follows(u)
  <2>1. r.members \subseteq Agents
    BY <1>1 DEF RoomRecords
  <2>2. Follows(r) => HostsKnown(u)
    BY <1>3 DEF Follows, HostsKnown
  <2>3. ASSUME Follows(r), NEW b \in u.members
        PROVE  u.published[b] # NoMid => b \in u.voice
    BY <1>3, <2>1, <2>3 DEF Follows, SpeaksByGrant
  <2>4. ASSUME Follows(r), NEW b \in u.members, StaysOnHost(b), u.subscribed[b] # {}
        PROVE  \/ u.notes = b
               \/ u.producer # NoHost /\ u.hostOf[b] = u.producer
    <3>1. \/ r.subscribed[b] # {}
          \/ b = a /\ (r.notes = a \/ (r.producer # NoHost /\ r.hostOf[a] = r.producer))
      BY <1>3, <2>1, <2>4
    <3>2. r.subscribed[b] # {} =>
            \/ r.notes = b
            \/ r.producer # NoHost /\ r.hostOf[b] = r.producer
      BY <1>3, <2>4 DEF Follows, HearsByGrant
    <3>. QED  BY <1>3, <3>1, <3>2
  <2>5. Follows(r) => HearsByGrant(u) /\ SpeaksByGrant(u)
    BY <2>3, <2>4 DEF HearsByGrant, SpeaksByGrant
  <2>. QED  BY <2>2, <2>5 DEF Follows
<1>7. \A e : Independent(r, u, e)
  BY <1>3 DEF Independent
<1>8. VoicesAreReady(r, u)
  BY <1>3 DEF VoicesAreReady
<1>. QED  BY <1>3, <1>4, <1>5, <1>6, <1>7, <1>8 DEF u

LEMMA RegisterTrackGood ==
  ASSUME GInv, IInv', NEW w \in Workers, RegisterTrack(Load, w)
  PROVE  Good
<1>. DEFINE r == Load
            q == worker[w]
            n == [q EXCEPT !.step = "refused"]
            t == <<q.session, q.mid>>
<1>1. /\ IInv /\ q \in Requests /\ RequestSound(q) /\ q.step \in Holding
      /\ TrackOf(w) = t
  BY DEF RegisterTrack, GInv, IInv, TypeOK, RequestsSound, Holding, TrackOf
<1>2. closers' = closers /\ ingress' = ingress /\ egress' = egress
  BY DEF RegisterTrack, sfu
<1>3. /\ Sound(r) /\ OwnTracks(r) /\ Spared(r) /\ Follows(r)
      /\ Tracked(r) \subseteq Tracked(room)
      /\ r.pending \subseteq room.pending \union Tracked(room)
      /\ room.pending \subseteq r.pending
  BY LoadIsApart
<1>4. t \notin Tracked(room) \union room.pending \union ClosersTracks
  BY <1>1 DEF GInv, HandsAreApart
<1>5. CASE Accepts(r, q) /\ room' = Record(r, q) /\ Become(w, Idle)
  <2>1. /\ Tracked(room') \subseteq Tracked(r) \union {t}
        /\ OwnTracks(room') /\ room'.pending = r.pending /\ Follows(room')
        /\ Independent(r, room', enabled) /\ VoicesAreReady(r, room')
    <3>1. t \notin Tracked(r)
      BY <1>3, <1>4
    <3>. HIDE DEF r, q
    <3>. QED  BY <1>1, <1>3, <1>5, <3>1, RecordFields
  <2>2. Spared(room')
    BY <1>3, <1>4, <2>1 DEF Spared
  <2>3. /\ worker'[w].step \notin Holding
        /\ \A v \in Workers : worker'[v].step \in Holding =>
             worker[v].step \in Holding /\ TrackOf(v)' = TrackOf(v)
    BY <1>1, <1>5, BecomeHands, IdleHoldsNothing
  <2>4. ClosersTracks' = ClosersTracks
    BY <1>2 DEF ClosersTracks
  <2>5. HandsAreApart'
    <3>1. \A x \in Tracked(room') \union room'.pending \union ClosersTracks' :
            \/ x \in Tracked(room) \union room.pending \union ClosersTracks
            \/ x = t
      BY <1>3, <2>1, <2>4
    <3>. QED  BY <1>1, <2>3, <3>1, HandsStep
  <2>6. ClosersSpare'
    <3>1. ASSUME NEW c \in closers
          PROVE  (c.todo \union c.confirmed) \intersect Tracked(room') = {}
      <4>1. t \notin c.todo \union c.confirmed
        BY <1>4 DEF ClosersTracks
      <4>. QED  BY <1>3, <2>1, <4>1 DEF GInv, ClosersSpare
    <3>. QED  BY <1>2, <3>1 DEF ClosersSpare
  <2>7. ConfirmedIsSilent'
    BY <1>2 DEF GInv, ConfirmedIsSilent
  <2>8. GrantsKept
    BY <2>1, IndependentSteps
  <2>9. QueueKept
    BY <1>3, <2>1 DEF QueueKept
  <2>. QED  BY <2>1, <2>2, <2>5, <2>6, <2>7, <2>8, <2>9 DEF GInv, Good
<1>6. CASE room' = r /\ Become(w, n)
  <2>1. n.session = q.session /\ n.mid = q.mid
    BY <1>1 DEF Requests
  <2>. HIDE DEF n
  <2>2. \A v \in Workers : worker'[v].step \in Holding =>
          worker[v].step \in Holding /\ TrackOf(v)' = TrackOf(v)
    BY <1>1, <1>6, <2>1, BecomeHands
  <2>. QED  BY <1>2, <1>6, <2>2, LoadedStep
<1>. QED  BY <1>5, <1>6 DEF RegisterTrack

LEMMA HandOffGood ==
  ASSUME GInv, IInv', NEW w \in Workers, HandOff(Load, w)
  PROVE  Good
<1>. DEFINE r == Load
            t == TrackOf(w)
            q == [r EXCEPT !.pending = r.pending \union {t}]
<1>1. /\ IInv /\ worker[w].step \in Holding /\ Become(w, Idle)
      /\ closers' = closers /\ ingress' = ingress /\ egress' = egress
  BY DEF HandOff, GInv, Holding, sfu
<1>2. /\ worker'[w].step \notin Holding
      /\ \A v \in Workers : worker'[v].step \in Holding =>
           worker[v].step \in Holding /\ TrackOf(v)' = TrackOf(v)
  BY <1>1, BecomeHands, IdleHoldsNothing
<1>3. /\ Sound(r) /\ r \in RoomRecords /\ OwnTracks(r) /\ Spared(r) /\ Follows(r)
      /\ Tracked(r) \subseteq Tracked(room)
      /\ r.pending \subseteq room.pending \union Tracked(room)
      /\ room.pending \subseteq r.pending
  BY LoadIsApart DEF Sound
<1>4. t \notin Tracked(room)
  BY <1>1 DEF GInv, HandsAreApart
<1>5. CASE room' = q
  <2>. HIDE DEF r, t
  <2>1. /\ q.members = r.members /\ q.hostOf = r.hostOf /\ q.notes = r.notes
        /\ q.voice = r.voice /\ q.producer = r.producer
        /\ q.pending = r.pending \union {t} /\ q.session = r.session
        /\ q.subscribed = r.subscribed /\ q.published = r.published
    BY <1>3 DEF RoomRecords
  <2>. HIDE DEF q
  <2>2. Tracked(q) = Tracked(r)
    BY <2>1 DEF Tracked, TrackedSubscriptions, TrackedPublications,
                SubscribedTracks, PublishedTracks
  <2>3. OwnTracks(q) /\ Follows(q)
    BY <1>3, <2>1 DEF OwnTracks, Follows, HostsKnown, HearsByGrant, SpeaksByGrant
  <2>4. Spared(q)
    BY <1>3, <1>4, <2>1, <2>2 DEF Spared
  <2>5. Independent(r, q, enabled) /\ VoicesAreReady(r, q)
    BY <2>1 DEF Independent, VoicesAreReady
  <2>6. ClosersTracks' = ClosersTracks
    BY <1>1 DEF ClosersTracks
  <2>7. HandsAreApart'
    <3>1. \A x \in Tracked(room') \union room'.pending \union ClosersTracks' :
            \/ x \in Tracked(room) \union room.pending \union ClosersTracks
            \/ x = t
      BY <1>3, <1>5, <2>1, <2>2, <2>6
    <3>2. t = TrackOf(w)
      BY DEF t
    <3>. QED  BY <1>1, <1>2, <3>1, <3>2, HandsStep
  <2>8. ClosersSpare' /\ ConfirmedIsSilent'
    BY <1>1, <1>3, <1>5, <2>2 DEF GInv, ClosersSpare, ConfirmedIsSilent
  <2>9. GrantsKept
    BY <1>5, <2>5, IndependentSteps DEF r
  <2>10. QueueKept
    BY <1>3, <1>5, <2>1 DEF QueueKept
  <2>11. OwnTracks(room') /\ Spared(room') /\ Follows(room')
    BY <1>5, <2>3, <2>4
  <2>. QED  BY <2>7, <2>8, <2>9, <2>10, <2>11 DEF GInv, Good
<1>6. CASE room' = room
  BY <1>1, <1>2, <1>6, SameRoomStep
<1>. QED  BY <1>5, <1>6 DEF HandOff

LEMMA CleanupAttemptsGood ==
  ASSUME GInv, IInv', NEW c \in closers,
         (\E s \in Sessions : CloseSession(c, s)) \/ Reconcile(Load, c)
  PROVE  Good
<1>1. IInv /\ c \in Closers
  BY DEF GInv, IInv, TypeOK
<1>2. ASSUME NEW s \in Sessions, CloseSession(c, s)
      PROVE  Good
  <2>. DEFINE T == OfSession(c.todo, s)
              rest == [c EXCEPT !.todo = @ \ T]
              done == [rest EXCEPT !.confirmed = @ \union T]
  <2>1. /\ room' = room /\ worker' = worker
        /\ ingress' \subseteq ingress /\ egress' \subseteq egress
        /\ \/ /\ closers' = (closers \ {c}) \union {done}
              /\ ingress' = ingress \ T /\ egress' = egress \ T
           \/ closers' = (closers \ {c}) \union {rest}
    BY <1>2 DEF CloseSession, Carry, sfu
  <2>2. /\ T \subseteq c.todo
        /\ rest.todo = c.todo \ T /\ rest.confirmed = c.confirmed
        /\ done.todo = c.todo \ T /\ done.confirmed = c.confirmed \union T
    BY <1>1 DEF Closers, OfSession
  <2>. HIDE DEF rest, done, T
  <2>3. \A d \in closers' :
          \/ d \in closers
          \/ /\ d.todo \union d.confirmed \subseteq c.todo \union c.confirmed
             /\ d.confirmed \intersect (ingress' \union egress') = {}
    BY <2>1, <2>2 DEF GInv, ConfirmedIsSilent
  <2>4. ConfirmedIsSilent'
    BY <2>1, <2>3 DEF GInv, ConfirmedIsSilent
  <2>5. ClosersSpare'
    BY <2>1, <2>3 DEF GInv, ClosersSpare
  <2>6. HandsAreApart'
    <3>1. ClosersTracks' \subseteq ClosersTracks
      BY <2>3 DEF ClosersTracks
    <3>2. \A v \in Workers : TrackOf(v)' = TrackOf(v)
      BY <2>1 DEF TrackOf
    <3>. QED  BY <2>1, <3>1, <3>2, HandsStep
  <2>7. OwnTracks(room') /\ Spared(room') /\ Follows(room') /\ GrantsKept /\ QueueKept
    BY <2>1 DEF GInv, GrantsKept, QueueKept
  <2>. QED  BY <2>4, <2>5, <2>6, <2>7 DEF GInv, Good
<1>3. CASE Reconcile(Load, c)
  <2>. DEFINE r == Load
              q == [r EXCEPT !.pending = r.pending \ c.confirmed]
  <2>1. /\ worker' = worker /\ ingress' = ingress /\ egress' = egress
        /\ closers' \subseteq closers /\ room' \in {room, q}
    BY <1>3 DEF Reconcile, sfu
  <2>2. \A v \in Workers : TrackOf(v)' = TrackOf(v)
    BY <2>1 DEF TrackOf
  <2>3. CASE room' = room
    BY <2>1, <2>2, <2>3, SameRoomStep
  <2>4. CASE room' = q
    <3>1. /\ r \in RoomRecords /\ OwnTracks(r) /\ Spared(r) /\ Follows(r)
          /\ Tracked(r) \subseteq Tracked(room)
          /\ r.pending \subseteq room.pending \union Tracked(room)
          /\ room.pending \subseteq r.pending
      BY LoadIsApart DEF Sound
    <3>. HIDE DEF r
    <3>2. /\ q.members = r.members /\ q.hostOf = r.hostOf /\ q.notes = r.notes
          /\ q.voice = r.voice /\ q.producer = r.producer
          /\ q.pending = r.pending \ c.confirmed /\ q.session = r.session
          /\ q.subscribed = r.subscribed /\ q.published = r.published
      BY <3>1 DEF RoomRecords
    <3>. HIDE DEF q
    <3>3. Tracked(q) = Tracked(r)
      BY <3>2 DEF Tracked, TrackedSubscriptions, TrackedPublications,
                  SubscribedTracks, PublishedTracks
    <3>4. OwnTracks(q) /\ Follows(q)
      BY <3>1, <3>2 DEF OwnTracks, Follows, HostsKnown, HearsByGrant, SpeaksByGrant
    <3>5. Spared(q)
      BY <3>1, <3>2, <3>3 DEF Spared
    <3>6. Independent(r, q, enabled) /\ VoicesAreReady(r, q)
      BY <3>2 DEF Independent, VoicesAreReady
    <3>7. ClosersTracks' \subseteq ClosersTracks
      BY <2>1 DEF ClosersTracks
    <3>8. HandsAreApart'
      BY <2>1, <2>2, <2>4, <3>1, <3>2, <3>3, <3>7, HandsStep
    <3>9. ClosersSpare' /\ ConfirmedIsSilent'
      BY <2>1, <2>4, <3>1, <3>3 DEF GInv, ClosersSpare, ConfirmedIsSilent
    <3>10. GrantsKept
      BY <2>4, <3>6, IndependentSteps DEF r
    <3>11. QueueKept
      BY <2>1, <2>4, <3>1, <3>2 DEF GInv, ConfirmedIsSilent, QueueKept
    <3>12. OwnTracks(room') /\ Spared(room') /\ Follows(room')
      BY <2>4, <3>4, <3>5
    <3>. QED  BY <3>8, <3>9, <3>10, <3>11, <3>12 DEF GInv, Good
  <2>. QED  BY <2>1, <2>3, <2>4
<1>. QED  BY <1>2, <1>3

-----------------------------------------------------------------------------
(* Part 8: the theorems on media, grants and the cleanup. *)

LEMMA InitGInv == Init => GInv
<1>. SUFFICES ASSUME Init PROVE GInv
  OBVIOUS
<1>1. room = EmptyRoom /\ closers = {} /\ worker = [w \in Workers |-> Idle]
  BY DEF Init
<1>2. OwnTracks(room) /\ Follows(room)
  BY <1>1, NullsAreNotValues
     DEF EmptyRoom, OwnTracks, Follows, HostsKnown, HearsByGrant, SpeaksByGrant
<1>3. Spared(room)
  BY <1>1 DEF EmptyRoom, Spared
<1>4. ClosersSpare /\ HandsAreApart /\ ConfirmedIsSilent
  BY <1>1, IdleHoldsNothing DEF ClosersSpare, HandsAreApart, ConfirmedIsSilent
<1>. QED  BY <1>2, <1>3, <1>4, InitIInv DEF GInv

LEMMA NextGood == GInv /\ [Next]_vars => Good
<1>. SUFFICES ASSUME GInv, [Next]_vars PROVE Good
  OBVIOUS
<1>1. IInv'
  BY NextIInv DEF GInv
<1>2. CASE RoomStep
  BY <1>1, <1>2, RoomHandlersGood
<1>3. CASE HumanStep
  BY <1>1, <1>3, HumanMessagesGood
<1>4. ASSUME NEW w \in Workers, WorkerStep(w)
      PROVE  Good
  BY <1>1, <1>4, QuietRequestGood, AttachSessionGood, CreateTrackGood,
     RegisterTrackGood, HandOffGood DEF WorkerStep
<1>5. CASE CloserStep
  BY <1>1, <1>5, CleanupAttemptsGood DEF CloserStep
<1>6. CASE UNCHANGED vars
  <2>1. /\ room' = room /\ ingress' = ingress /\ egress' = egress
        /\ worker' = worker /\ closers' = closers
    BY <1>6 DEF vars
  <2>2. \A w \in Workers : TrackOf(w)' = TrackOf(w)
    BY <2>1 DEF TrackOf
  <2>. QED  BY <1>1, <2>1, <2>2, SameRoomStep
<1>. QED  BY <1>2, <1>3, <1>4, <1>5, <1>6 DEF Next

LEMMA NextGInv == GInv /\ [Next]_vars => GInv'
BY NextGood DEF Good

\* Whatever interleaves, an Agent that stays on its Runtime Host has recorded
\* subscriptions only as the note-taker or as a member of the Live Transcript
\* producer, and a recorded voice only with its Agent Voice grant.
THEOREM MediaFollowsGrants == Spec => []MediaImpliesGrant
<1>1. GInv => MediaImpliesGrant
  BY DEF GInv, Follows, HearsByGrant, SpeaksByGrant, MediaImpliesGrant,
         SubscribedImpliesGrant, PublishedImpliesGrant
<1>. QED  BY <1>1, InitGInv, NextGInv, PTL DEF Spec

\* Neither the cleanup queue nor an attempt in flight, however stale its
\* snapshot, names a track that a participant record still holds.
THEOREM CleanupSpares == Spec => []CleanupSparesTrackedMedia
<1>1. GInv => CleanupSparesTrackedMedia
  BY DEF GInv, Spared, ClosersSpare, CleanupSparesTrackedMedia
<1>. QED  BY <1>1, InitGInv, NextGInv, PTL DEF Spec

\* No step takes down the media another grant authorizes.
THEOREM GrantsIndependent == Spec => GrantsAreIndependent
<1>1. GInv /\ [Next]_vars => [GrantsKept]_vars
  BY NextGood DEF Good
<1>2. [][GrantsKept]_vars => GrantsAreIndependent
  BY PTL DEF GrantsKept, GrantsAreIndependent
<1>. QED  BY <1>1, <1>2, InitGInv, NextGInv, PTL DEF Spec

\* A track leaves the queue only when the SFU no longer carries it, or when the
\* room that owed its closing has expired.
THEOREM QueueDrains == Spec => QueueDrainsOnlyClosed
<1>1. GInv /\ [Next]_vars => [QueueKept]_vars
  BY NextGood DEF Good
<1>2. [][QueueKept]_vars => QueueDrainsOnlyClosed
  BY PTL DEF QueueKept, QueueDrainsOnlyClosed
<1>. QED  BY <1>1, <1>2, InitGInv, NextGInv, PTL DEF Spec

=============================================================================
