------------------------- MODULE LiveTranscriptLog -------------------------
(***************************************************************************)
(* The Live Transcript of a room: a Human starts and stops it, one         *)
(* resident of the chosen Runtime Host turns speech into segments, the     *)
(* room keeps the newest of them in order, and a Harness and a paging      *)
(* Agent read them (do/liveTranscript.ts, do/RoomSession.ts,               *)
(* runtime/live_transcript.go, daemon/live_transcript.go,                  *)
(* media/controller.go).                                                   *)
(*                                                                         *)
(* A resident hears speech at any time, for its Meeting Notes too, and     *)
(* sends it under the epoch that it knows of; `heard` tells under which    *)
(* epoch of the room it was spoken.                                        *)
(***************************************************************************)
EXTENDS Integers, FiniteSets, Sequences, Functions

CONSTANTS
    Transcribers,   \* residents
    HostOf,         \* their Runtime Hosts, one daemon each
    Nobody,
    MaxSegments,    \* MAX_LIVE_TRANSCRIPT_SEGMENTS
    MaxAttempts,    \* of publishLiveTranscriptSegment
    PageLimit,      \* of agent-read-context
    MaxEpochs,      \* bound
    MaxUtterances,  \* bound
    MaxLosses       \* bound: lost streams, members and calls, and failed turns

Hosts == {HostOf[r] : r \in Transcribers}
Utterances == 1..MaxUtterances
Epochs == 1..MaxEpochs
Leases == [epoch : Epochs, holder : Transcribers]

ASSUME TranscriptBounds ==
    /\ {MaxSegments, MaxAttempts, PageLimit} \subseteq Nat \ {0}
    /\ {MaxEpochs, MaxUtterances, MaxLosses} \subseteq Nat
ASSUME NobodyIsNobody == Nobody \notin Transcribers \cup Hosts /\ Nobody \notin Leases

VARIABLES
    live,       \* liveTranscript, [host, epoch]; the host is Nobody when it is off
    nextEpoch,  \* nextLiveTranscriptEpoch
    segments,   \* liveTranscriptSegments
    nextSeq,    \* nextTranscriptSequence
    members,    \* residents that are connected and whose Host has STT
    streams,    \* those that have an event stream
    feed,       \* feed[r]: the states on their way to r
    producer,   \* producer[r]: what the runtime of r believes, its STT generation
    lease,      \* lease[h]: TranscriptProducerCoordinator of the daemon of h
    spoken,     \* spoken[u]: one utterance in one runtime
    calls,      \* agent-live-transcript-append, on its way to the room
    harness,    \* the delivery markers of a Harness, and its turn
    pager,      \* an Agent that reads page by page
    losses,     \* bound
    tale        \* what became of the utterances, and the races that were met

recordvars == <<live, nextEpoch, segments, nextSeq>>
runtimevars == <<producer, lease, spoken, calls>>
readervars == <<harness, pager>>
transcriptvars == <<recordvars, members, streams, feed, runtimevars, readervars, losses, tale>>

Off == [host |-> Nobody, epoch |-> 0]
States == [host : Hosts \cup {Nobody}, epoch : 0..MaxEpochs]
Quiet == [epoch |-> 0, next |-> 0, fenced |-> TRUE]
Unsaid == [by |-> Nobody, current |-> FALSE, heard |-> 0, left |-> 0, step |-> "none"]

SpeechTypeOK ==
    /\ live \in States /\ nextEpoch \in 1..MaxEpochs + 1 /\ nextSeq \in Nat \ {0}
    /\ segments \in Seq([epoch : Epochs, id : Utterances, seq : 1..nextSeq - 1, heard : 0..MaxEpochs])
    /\ members \subseteq Transcribers /\ streams \subseteq members
    /\ feed \in [Transcribers -> Seq(States)]
    /\ producer \in [Transcribers -> [epoch : 0..MaxEpochs, next : 0..MaxEpochs, fenced : BOOLEAN]]
    /\ lease \in [Hosts -> Leases \cup {Nobody}]
    /\ spoken \in [Utterances -> [by : Transcribers \cup {Nobody}, current : BOOLEAN,
                                  heard : 0..MaxEpochs, left : 0..MaxAttempts,
                                  step : {"none", "said", "waits", "asked", "done"}]]
    /\ calls \subseteq [id : Utterances, by : Transcribers, epoch : Epochs]
    /\ harness \in [through : 0..nextSeq - 1, turn : SUBSET (1..nextSeq - 1),
                    got : SUBSET (1..nextSeq - 1), twice : BOOLEAN]
    /\ pager \in [cursor : 0..nextSeq - 1, got : SUBSET (1..nextSeq - 1), gap : BOOLEAN]
    /\ losses \in 0..MaxLosses
    /\ tale \in [committed : SUBSET Utterances, again : SUBSET Utterances,
                 forgotten : SUBSET Utterances, unfenced : SUBSET Utterances,
                 newest : [Hosts -> 0..MaxEpochs], overtook : BOOLEAN]

SpeechInit ==
    /\ live = Off /\ nextEpoch = 1 /\ segments = <<>> /\ nextSeq = 1
    /\ members \in SUBSET Transcribers /\ members # {} /\ streams = members
    /\ feed = [r \in Transcribers |-> <<>>]
    /\ producer = [r \in Transcribers |-> Quiet]
    /\ lease = [h \in Hosts |-> Nobody]
    /\ spoken = [u \in Utterances |-> Unsaid]
    /\ calls = {}
    /\ harness = [through |-> 0, turn |-> {}, got |-> {}, twice |-> FALSE]
    /\ pager = [cursor |-> 0, got |-> {}, gap |-> FALSE]
    /\ losses = 0
    /\ tale = [committed |-> {}, again |-> {}, forgotten |-> {}, unfenced |-> {},
               newest |-> [h \in Hosts |-> 0], overtook |-> FALSE]

Loss == losses < MaxLosses /\ losses' = losses + 1

-----------------------------------------------------------------------------
(* The room *)

HostReady(h) == \E r \in members : HostOf[r] = h

\* broadcastState, to the resident sockets
Push(state) ==
    feed' = [r \in Transcribers |-> IF r \in streams' THEN Append(feed[r], state) ELSE feed[r]]

\* boundLiveTranscriptSegments: the newest, as many as their number and their bytes allow
Bounded(all) ==
    IF all = <<>> THEN {all}
    ELSE {SubSeq(all, i, Len(all)) : i \in {j \in DOMAIN all : Len(all) - j < MaxSegments}}

Ids(some) == {s.id : s \in some}

\* live-transcript-start: once on, it is only looked at.
CanStart(h) == live.host = Nobody /\ HostReady(h)

\* The state takes more bytes than before, and the next load of the record makes room.
Start(h) ==
    /\ nextEpoch <= MaxEpochs /\ CanStart(h)
    /\ live' = [host |-> h, epoch |-> nextEpoch]
    /\ nextEpoch' = nextEpoch + 1
    /\ segments' \in Bounded(segments)
    /\ tale' = [tale EXCEPT !.forgotten = @ \cup Ids(Range(segments) \ Range(segments'))]
    /\ UNCHANGED <<members, streams>> /\ Push(live')
    /\ UNCHANGED <<nextSeq, losses, runtimevars, readervars>>

\* live-transcript-stop, of any Human
Stop ==
    /\ live.host # Nobody /\ live' = Off
    /\ UNCHANGED <<members, streams>> /\ Push(live')
    /\ UNCHANGED <<nextEpoch, segments, nextSeq, losses, tale, runtimevars, readervars>>

\* An Agent departs, its lease expires or its Host loses STT, which ends the transcript of
\* a Host that is not ready any more: normalizeLiveTranscriptForRoom.  Its runtime fails
\* closed.
MemberLost(r) ==
    /\ r \in members /\ Loss
    /\ members' = members \ {r} /\ streams' = streams \ {r}
    /\ live' = IF live.host # Nobody /\ ~\E q \in members' : HostOf[q] = live.host THEN Off ELSE live
    /\ feed' = [q \in Transcribers |-> IF q = r THEN <<Off>>
                                       ELSE IF q \in streams' THEN Append(feed[q], live') ELSE feed[q]]
    /\ UNCHANGED <<nextEpoch, segments, nextSeq, tale, runtimevars, readervars>>

\* Another part of the media state of r changes.
Refreshes(r) ==
    /\ r \in streams
    /\ feed' = [feed EXCEPT ![r] = Append(@, live)]
    /\ UNCHANGED <<recordvars, members, streams, losses, tale, runtimevars, readervars>>

\* The check for a retry, in what is still kept
Known(c) == \E i \in DOMAIN segments : segments[i].epoch = c.epoch /\ segments[i].id = c.id

\* canAgentAppendLiveTranscript, and the epoch
MayAppend(c) == c.by \in members /\ live.host = HostOf[c.by] /\ live.epoch = c.epoch

Segment(c) == [epoch |-> c.epoch, id |-> c.id, seq |-> nextSeq, heard |-> spoken[c.id].heard]

\* agent-live-transcript-append
Commit(c) ==
    \/ (~MayAppend(c) \/ Known(c)) /\ UNCHANGED <<segments, nextSeq, tale>>
    \/ /\ MayAppend(c) /\ ~Known(c)
       /\ segments' \in Bounded(Append(segments, Segment(c))) /\ nextSeq' = nextSeq + 1
       /\ tale' = [tale EXCEPT
              !.committed = @ \cup {c.id},
              !.again = @ \cup (tale.committed \cap {c.id}),
              !.forgotten = @ \cup Ids(Range(segments) \ Range(segments'))]

\* loadRoom: normalizeStoredLiveTranscript sorts, and keeps the first of what is double.
Older(j, i) == segments[j].seq < segments[i].seq \/ (segments[j].seq = segments[i].seq /\ j < i)

Double(j, i) ==
    \/ segments[j].seq = segments[i].seq
    \/ segments[j].epoch = segments[i].epoch /\ segments[j].id = segments[i].id

Firsts(kept) == \A i \in DOMAIN segments : i \in kept <=> ~\E j \in kept : Older(j, i) /\ Double(j, i)

Normalized ==
    LET kept == CHOOSE k \in SUBSET DOMAIN segments : Firsts(k)
    IN  [n \in 1..Cardinality(kept) |->
            segments[CHOOSE i \in kept : Cardinality({j \in kept : Older(j, i)}) = n - 1]]

-----------------------------------------------------------------------------
(* The runtimes *)

Room == UNCHANGED <<recordvars, members>>

\* The stream of r is lost: failClosedResidentMediaState.
StreamLost(r) ==
    /\ r \in streams /\ Loss
    /\ streams' = streams \ {r}
    /\ feed' = [feed EXCEPT ![r] = <<Off>>]
    /\ Room /\ UNCHANGED <<tale, runtimevars, readervars>>

\* The first envelope of a stream has the state.
Reconnects(r) ==
    /\ r \in members \ streams
    /\ streams' = streams \cup {r}
    /\ feed' = [feed EXCEPT ![r] = Append(@, live)]
    /\ Room /\ UNCHANGED <<losses, tale, runtimevars, readervars>>

\* Mutant: whoever asks gets the lease.
AcquiresAnyway(l, state, r) == TRUE

\* TranscriptProducerCoordinator.Acquire
Acquires(l, state, r) == l = Nobody \/ l.epoch # state.epoch \/ l.holder = r

Notified(r) == producer[r].next = producer[r].epoch

\* reconcileMediaState: acquireLiveTranscriptLease or releaseLiveTranscriptLease, before the
\* runtime is told
Observes(r) ==
    /\ feed[r] # <<>> /\ Notified(r) /\ producer[r].fenced
    /\ feed' = [feed EXCEPT ![r] = Tail(@)]
    /\ LET state == Head(feed[r])
           h == HostOf[r]
           authorized == state.host = h /\ Acquires(lease[h], state, r)
           epoch == IF authorized THEN state.epoch ELSE 0
           mine == lease[h] = [epoch |-> producer[r].epoch, holder |-> r]
       IN  /\ lease' = [lease EXCEPT ![h] =
                  IF authorized THEN [epoch |-> epoch, holder |-> r]
                  ELSE IF mine THEN Nobody ELSE @]
           /\ producer' = [producer EXCEPT ![r].next = epoch]
           /\ tale' = [tale EXCEPT
                  !.overtook = @ \/ (authorized /\ tale.newest[h] > epoch),
                  !.newest[h] = IF authorized /\ epoch > @ THEN epoch ELSE @]
    /\ Room /\ UNCHANGED <<streams, spoken, calls, readervars, losses>>

\* notifyLiveTranscriptState: the assignment under mu, on an edge
Assigns(r) ==
    /\ ~Notified(r)
    /\ producer' = [producer EXCEPT ![r].epoch = producer[r].next, ![r].fenced = FALSE]
    /\ Room /\ UNCHANGED <<streams, feed, lease, spoken, calls, readervars, losses, tale>>

\* replaceTranscriberLocked: what was heard before is of an old generation.
Fence(r) ==
    /\ producer' = [producer EXCEPT ![r].fenced = TRUE]
    /\ spoken' = [u \in Utterances |->
                     IF spoken[u].by = r THEN [spoken[u] EXCEPT !.current = FALSE] ELSE spoken[u]]

Fences(r) ==
    /\ ~producer[r].fenced /\ Fence(r)
    /\ Room /\ UNCHANGED <<streams, feed, lease, calls, readervars, losses, tale>>

\* Somebody speaks, and the audio is on its way through the transcriber of r.
Hears(r) ==
    /\ \E u \in Utterances :
          /\ spoken[u].step = "none" /\ \A v \in 1..u - 1 : spoken[v].step # "none"
          /\ spoken' = [spoken EXCEPT ![u] = [by |-> r, current |-> TRUE, heard |-> live.epoch,
                                              left |-> MaxAttempts, step |-> "said"]]
    /\ Room /\ UNCHANGED <<streams, feed, producer, lease, calls, readervars, losses, tale>>

Done(utterance) == [utterance EXCEPT !.current = FALSE, !.left = 0, !.step = "done"]

\* isCurrentLiveProducer, liveProducerSnapshot
IsLive(u) == spoken[u].current /\ producer[spoken[u].by].epoch # 0

\* handleSttEvent: what is not for the transcript is for the Meeting Notes at most.
Commits(u) ==
    /\ spoken[u].step = "said"
    /\ spoken' = [spoken EXCEPT ![u] = IF IsLive(u) THEN [@ EXCEPT !.step = "waits"] ELSE Done(@)]
    /\ Room /\ UNCHANGED <<streams, feed, producer, lease, calls, readervars, losses, tale>>

\* publishLiveTranscriptSegment: one attempt under the epoch of the moment
Sends(u) ==
    LET r == spoken[u].by
    IN  /\ spoken[u].step = "waits"
        /\ \/ /\ IsLive(u)
              /\ spoken' = [spoken EXCEPT ![u].step = "asked", ![u].left = @ - 1]
              /\ calls' = calls \cup {[id |-> u, by |-> r, epoch |-> producer[r].epoch]}
              /\ tale' = [tale EXCEPT !.unfenced = IF producer[r].fenced THEN @ ELSE @ \cup {u}]
           \/ /\ ~IsLive(u)
              /\ spoken' = [spoken EXCEPT ![u] = Done(@)] /\ UNCHANGED <<calls, tale>>
        /\ Room /\ UNCHANGED <<streams, feed, producer, lease, readervars, losses>>

\* A call reaches the room; its answer ends the attempts.
Handled(c) ==
    /\ c \in calls /\ Commit(c)
    /\ calls' = calls \ {c}
    /\ spoken' = [spoken EXCEPT ![c.id] = IF @.step = "asked" THEN Done(@) ELSE @]
    /\ UNCHANGED <<live, nextEpoch, members, streams, feed, producer, lease, readervars, losses>>

\* The attempt fails as transient; the call is lost, was handled, or comes later.
Fails(u) ==
    /\ spoken[u].step = "asked" /\ Loss
    /\ spoken' = [spoken EXCEPT ![u] = IF @.left > 0 THEN [@ EXCEPT !.step = "waits"] ELSE Done(@)]
    /\ \/ UNCHANGED <<calls, segments, nextSeq, tale>>
       \/ calls' = {c \in calls : c.id # u} /\ UNCHANGED <<segments, nextSeq, tale>>
       \/ \E c \in calls : c.id = u /\ calls' = calls \ {c} /\ Commit(c)
    /\ UNCHANGED <<live, nextEpoch, members, streams, feed, producer, lease, readervars>>

-----------------------------------------------------------------------------
(* The readers *)

Writers == UNCHANGED <<recordvars, members, streams, feed, runtimevars, tale>>

Seqs(some) == {s.seq : s \in some}
Segments(after) == {s \in Range(segments) : s.seq > after}

\* attachLiveTranscriptFor: RoomInfo, before a turn
Attaches ==
    /\ harness.turn = {} /\ Segments(harness.through) # {}
    /\ harness' = [harness EXCEPT !.turn = Seqs(Segments(harness.through))]
    /\ UNCHANGED <<pager, losses>> /\ Writers

\* acknowledgeTranscriptDeliveryFor: through the last segment that was attached
NewestOf(some) == CHOOSE n \in some : \A m \in some : m <= n

TurnSucceeds ==
    /\ harness.turn # {}
    /\ harness' = [through |-> NewestOf(harness.turn), turn |-> {},
                   got |-> harness.got \cup harness.turn,
                   twice |-> harness.twice \/ harness.turn \cap harness.got # {}]
    /\ UNCHANGED <<pager, losses>> /\ Writers

TurnFails ==
    /\ harness.turn # {} /\ Loss
    /\ harness' = [harness EXCEPT !.turn = {}]
    /\ UNCHANGED pager /\ Writers

\* Mutant: off by one.
TruncatedLater(after) == segments # <<>> /\ after < segments[1].seq - 2

\* contextPage: something between the cursor and what is retained is gone.  The log is
\* one contiguous run, so its floor is its first sequence.
Truncated(after) == segments # <<>> /\ after < segments[1].seq - 1

\* contextPage, forward
Page(after) ==
    {segments[i] : i \in {j \in DOMAIN segments :
        /\ segments[j].seq > after
        /\ Cardinality({k \in 1..j : segments[k].seq > after}) <= PageLimit}}

\* agent-read-context, from the last segment that was read
ReadsPage ==
    /\ Page(pager.cursor) # {}
    /\ pager' = [cursor |-> NewestOf(Seqs(Page(pager.cursor))),
                 got |-> pager.got \cup Seqs(Page(pager.cursor)),
                 gap |-> pager.gap \/ Truncated(pager.cursor)]
    /\ UNCHANGED <<harness, losses>> /\ Writers

SpeechNext ==
    \/ \E h \in Hosts : Start(h)
    \/ Stop
    \/ \E r \in Transcribers :
          \/ MemberLost(r) \/ Refreshes(r) \/ StreamLost(r) \/ Reconnects(r)
          \/ Observes(r) \/ Assigns(r) \/ Fences(r) \/ Hears(r)
    \/ \E u \in Utterances : Commits(u) \/ Sends(u) \/ Fails(u)
    \/ \E c \in calls : Handled(c)
    \/ Attaches \/ TurnSucceeds \/ TurnFails \/ ReadsPage

SpeechSpec == SpeechInit /\ [][SpeechNext]_transcriptvars

-----------------------------------------------------------------------------
(* Properties *)

\* "late provider events cannot cross a Stop/reassign/epoch boundary"
\* (live_transcript.go:86): what was said while the transcript was off, or under another
\* epoch, is not written into this one.
SpeechStaysInItsEpoch == \A s \in Range(segments) : s.heard = s.epoch

\* The same, but for a segment that was sent between the assignment of an epoch and the
\* replacement of the STT generation.
SpokenInItsEpoch == \A s \in Range(segments) : s.heard = s.epoch \/ s.id \in tale.unfenced

\* Two residents of one Host transcribe the same epoch, other than one that has given up
\* the lease and is about to stop, only after the lease was taken with an older state
\* than it had been before.
OneProducer ==
    \A r, q \in Transcribers :
        (/\ r # q /\ HostOf[r] = HostOf[q] /\ Notified(r) /\ Notified(q)
         /\ producer[r].epoch = producer[q].epoch /\ producer[r].epoch # 0) => tale.overtook

\* The log is one run of sequences that a load of the record leaves as it is.  An
\* utterance is in it twice only when it was sent unfenced, under two epochs, and a retry
\* adds one again only then, or when the room had forgotten it.
LogIsExact ==
    /\ \A i \in DOMAIN segments : segments[i].seq = nextSeq - 1 - Len(segments) + i
    /\ \A i, j \in DOMAIN segments : i < j =>
          /\ segments[i].epoch <= segments[j].epoch
          /\ segments[i].id = segments[j].id =>
                segments[i].epoch # segments[j].epoch /\ segments[i].id \in tale.unfenced
    /\ Normalized = segments
    /\ tale.again \subseteq tale.forgotten \cup tale.unfenced

\* What is written was spoken in its epoch, by one producer of a Host, once, and a load of
\* the record finds it as it was.
SpokenOnce == SpokenInItsEpoch /\ OneProducer /\ LogIsExact

\* A Harness is given a segment in one successful turn, and none that is still kept is
\* passed over; a paging Agent has read all before its cursor, or was told of a gap.
ReadersMissNothing ==
    /\ ~harness.twice
    /\ \A s \in Range(segments) : s.seq <= harness.through => s.seq \in harness.got
    /\ pager.got = 1..pager.cursor \/ pager.gap
=============================================================================
