-------------------------- MODULE AgentProjections --------------------------
(***************************************************************************)
(* What the pages show of an Agent: what it is doing in one scope, which   *)
(* its Runtime tells the room and the room keeps in memory only, and the   *)
(* live view of a Task, which the room stores (runtime/activity.go,        *)
(* do/RoomSession.ts, hooks/useSfuChatRoom.ts).                            *)
(*                                                                         *)
(* The Runtime changes an activity and hands the change to its publisher   *)
(* in two steps, by three goroutines; the publisher sends one change at a  *)
(* time.  One page, one scope, one Agent whose stream is replaced and      *)
(* which may leave.                                                        *)
(***************************************************************************)
EXTENDS Integers, Sequences

CONSTANTS
    None,
    MaxTurns,      \* bound: turns of the scope
    MaxStreams,    \* bound: event streams of the Agent, numbered
    MaxRevisions,  \* bound: revisions of the live view
    MaxFrames,     \* bound: frames on their way to the page
    MaxFaults      \* bound: publications lost or given up, evictions, saves refused

VARIABLES
    acts,     \* activities of the Runtime: what it does now
    turns,    \* turns so far
    hand,     \* what a goroutine has to hand to the publisher
    queue,    \* activityPublishQueue
    flight,   \* what the publisher has sent, until it is answered
    stray,    \* a request that the publisher gave up and the room has still to handle
    stream,   \* the stream that the Runtime has installed
    room,     \* the Agent in the room: its stream, connected or not, or gone
    memory,   \* transientAgentActivities
    task,     \* the request of the Task is in the log
    view,     \* taskLiveViews: the revision, 0 for none
    told,     \* the revision the Agent was told is published
    page,     \* what the page shows
    wire,     \* frames to the page
    faults,
    amiss,    \* history: a change was handed over late or lost, and not repaired by a stream
    unsaid    \* history: the room changed something and has told no page since

vars == <<acts, turns, hand, queue, flight, stray, stream, room, memory, task, view, told,
          page, wire, faults, amiss, unsaid>>
runtimevars == <<acts, turns, hand, queue, flight, stray, stream, amiss>>
roomvars == <<room, memory, task, view, told, page, wire, unsaid>>

Goroutines == {"lane", "reader", "bridge"}
Activities == [state : {"working", "waiting"}, turn : 1..MaxTurns]
Nothing == [state |-> "none", turn |-> 0]     \* a clear
Publications == Activities \cup {Nothing}
Shown == Activities \cup {None}

TypeOK ==
    /\ acts \in Shown /\ turns \in 0..MaxTurns
    /\ hand \in [Goroutines -> Publications \cup {None}]
    /\ {queue, flight, stray} \subseteq Publications \cup {None}
    /\ stream \in 1..MaxStreams
    /\ room \in [n : 1..MaxStreams, connected : BOOLEAN, present : BOOLEAN]
    /\ memory \in Shown /\ task \in BOOLEAN
    /\ view \in 0..MaxRevisions /\ told \in 0..MaxRevisions
    /\ page \in [act : Shown, view : 0..MaxRevisions]
    /\ wire \in Seq([kind : {"state", "activity"}, act : Shown, view : 0..MaxRevisions])
    /\ faults \in 0..MaxFaults /\ amiss \in BOOLEAN /\ unsaid \in BOOLEAN

Init ==
    /\ acts = None /\ turns = 0 /\ hand = [g \in Goroutines |-> None]
    /\ queue = None /\ flight = None /\ stray = None /\ stream = 1
    /\ room = [n |-> 1, connected |-> TRUE, present |-> TRUE]
    /\ memory = None /\ task = TRUE /\ view = 0 /\ told = 0
    /\ page = [act |-> None, view |-> 0] /\ wire = <<>>
    /\ faults = 0 /\ amiss = FALSE /\ unsaid = FALSE

Fault == faults < MaxFaults /\ faults' = faults + 1

-----------------------------------------------------------------------------
(* The Runtime *)

\* Its state of one scope as a publication
Now(a) == IF a = None THEN Nothing ELSE a

\* A goroutine has changed the activity and will hand it to the publisher.
Will(g, p) == hand[g] = None /\ hand' = [hand EXCEPT ![g] = p]

\* beginActivity
Begin ==
    /\ room.present /\ acts = None /\ turns < MaxTurns /\ turns' = turns + 1
    /\ acts' = [state |-> "working", turn |-> turns'] /\ Will("lane", acts')
    /\ UNCHANGED <<queue, flight, stray, stream, amiss, faults, roomvars>>

\* observeHarnessActivity of the ACP reader; setWaitingApproval and
\* restoreWorkingAfterApproval of the permission bridge
Observe(g, s) ==
    /\ acts # None /\ acts.state # s
    /\ acts' = [acts EXCEPT !.state = s] /\ Will(g, acts')
    /\ UNCHANGED <<turns, queue, flight, stray, stream, amiss, faults, roomvars>>

\* finishActivity by the lane; clearActivity by the reader, when the Harness dies
Finish(g) ==
    /\ acts # None /\ acts' = None /\ Will(g, Nothing)
    /\ UNCHANGED <<turns, queue, flight, stray, stream, amiss, faults, roomvars>>

\* publishActivity: only the newest is queued, which is what was handed over last.
Publish(g) ==
    /\ hand[g] # None
    /\ queue' = hand[g] /\ hand' = [hand EXCEPT ![g] = None]
    /\ amiss' = (amiss \/ hand[g] # Now(acts))
    /\ UNCHANGED <<acts, turns, flight, stray, stream, faults, roomvars>>

\* drainActivityPublications: one at a time
Alone == flight = None

Send ==
    /\ queue # None /\ Alone
    /\ flight' = queue /\ queue' = None
    /\ UNCHANGED <<acts, turns, hand, stray, stream, amiss, faults, roomvars>>

\* publishActivityNow without success: the request is lost, or handled later.
Fails ==
    /\ flight # None /\ Fault /\ flight' = None /\ amiss' = TRUE
    /\ stray' \in {stray, flight}
    /\ UNCHANGED <<acts, turns, hand, queue, stream, roomvars>>

\* Mutant: what was queued for the old stream is dropped.
Emptied == IF acts = None THEN None ELSE acts

\* reconcileActivityTransport: a queued clear stays, what the Runtime does is queued again.
Requeued == IF acts # None THEN acts ELSE IF queue = Nothing THEN queue ELSE None

\* replaceResidentStream
Installs ==
    /\ stream < room.n /\ stream' = room.n
    /\ queue' = Requeued
    /\ amiss' = (stray # None \/ (amiss /\ acts = None)
                \/ \E g \in Goroutines : hand[g] \notin {None, Now(acts)})
    /\ UNCHANGED <<acts, turns, hand, flight, stray, faults, roomvars>>

-----------------------------------------------------------------------------
(* The room *)

Frame(kind, act, v) == [kind |-> kind, act |-> act, view |-> v]

\* stateFor: an activity of a connected Agent, and the live views that are current
State(r, a, v) == Frame("state", IF r.connected THEN a ELSE None, v)

\* broadcast
Broadcast(f) == Len(wire) < MaxFrames /\ wire' = Append(wire, f)
Tell(f) == Broadcast(f) /\ unsaid' = FALSE

\* agent-activity; a change of it reaches every page.
Handle(p) ==
    IF ~room.present \/ p = Now(memory) \/ (p # Nothing /\ ~room.connected)
    THEN UNCHANGED <<memory, wire, unsaid>>
    ELSE /\ memory' = IF p = Nothing THEN None ELSE p
         /\ Broadcast(Frame("activity", memory', 0)) /\ unsaid' = (unsaid /\ view # page.view)

Handles ==
    /\ flight # None /\ Handle(flight) /\ flight' = None
    /\ amiss' = (amiss \/ (flight # Nothing /\ room.present /\ ~room.connected))
    /\ UNCHANGED <<acts, turns, hand, queue, stray, stream, room, task, view, told, page, faults>>

HandlesStray ==
    /\ stray # None /\ Handle(stray) /\ stray' = None
    /\ UNCHANGED <<acts, turns, hand, queue, flight, stream, room, task, view, told, page,
                   faults, amiss>>

\* handleAgentEventClose, for the stream the room has
Closes ==
    /\ room.present /\ room.connected
    /\ room' = [room EXCEPT !.connected = FALSE] /\ memory' = None
    /\ Tell(State(room', None, view))
    /\ UNCHANGED <<runtimevars, task, view, told, page, faults>>

\* handleAgentEventConnection.  The pages are told when the Agent was away, or had a
\* data transport, which only the replaced stream takes away.
Connects(had) ==
    /\ room.present /\ room.n < MaxStreams
    /\ room' = [room EXCEPT !.n = @ + 1, !.connected = TRUE] /\ memory' = None
    /\ IF ~room.connected \/ had THEN Tell(State(room', None, view))
       ELSE unsaid' = (unsaid \/ memory # None) /\ UNCHANGED wire
    /\ UNCHANGED <<runtimevars, task, view, told, page, faults>>

\* agent-leave, leave, and the end of the lease.  The live view stays.
Leaves ==
    /\ room.present
    /\ room' = [room EXCEPT !.present = FALSE, !.connected = FALSE] /\ memory' = None
    /\ Tell(State(room', None, view))
    /\ UNCHANGED <<runtimevars, task, view, told, page, faults>>

\* isCurrentTaskLiveView: the author is the Agent of the Task, also after it has left.
Current == task

Loaded == IF Current THEN view ELSE 0

\* The instance is evicted and another one loads the room: activities are forgotten
\* (reconstructTaskLiveViews).
Evicted ==
    /\ Fault /\ memory' = None /\ view' = Loaded
    /\ unsaid' = (unsaid \/ memory # None) /\ amiss' = (amiss \/ acts # None \/ queue # None \/ flight # None)
    /\ UNCHANGED <<acts, turns, hand, queue, flight, stray, stream, room, task, told, page, wire>>

\* The log is full and the request of the Task goes (trimRoomMessagesToBudget): the view
\* is dropped when the room is loaded the next time (pruneTaskLiveViews).
Trimmed ==
    /\ task /\ view = MaxRevisions /\ task' = FALSE /\ view' = 0 /\ told' = 0
    /\ Tell(State(room, memory, 0))
    /\ UNCHANGED <<runtimevars, room, memory, page, faults>>

\* agent-publish-live-view: the first, or one that is later than what is there
Later(n) == IF view = 0 THEN n = 1 ELSE n > view

\* agent-publish-live-view.  The view is stored also when the save of the room is refused.
PublishesView(n) ==
    /\ room.present /\ task /\ Later(n) /\ view' = n
    /\ \/ Tell(State(room, memory, n)) /\ told' = n /\ UNCHANGED faults
       \/ Fault /\ unsaid' = TRUE /\ UNCHANGED <<wire, told>>
    /\ UNCHANGED <<runtimevars, room, memory, task, page>>

-----------------------------------------------------------------------------
(* The page *)

\* socket.onmessage: agentActivity, and applyRoomState
PageHears ==
    /\ wire # <<>> /\ wire' = Tail(wire)
    /\ page' = [act |-> Head(wire).act,
                view |-> IF Head(wire).kind = "state" THEN Head(wire).view ELSE page.view]
    /\ UNCHANGED <<runtimevars, room, memory, task, view, told, unsaid, faults>>

\* The page's WebSocket is replaced: the room tells it everything.
PageReturns ==
    /\ Fault /\ wire' = <<State(room, memory, view)>> /\ unsaid' = FALSE
    /\ UNCHANGED <<runtimevars, room, memory, task, view, told, page>>

-----------------------------------------------------------------------------

RuntimeNext ==
    \/ Begin
    \/ \E g \in {"reader", "bridge"}, s \in {"working", "waiting"} : Observe(g, s)
    \/ \E g \in {"lane", "reader"} : Finish(g)
    \/ \E g \in Goroutines : Publish(g)
    \/ Send \/ Fails \/ Installs

RoomNext ==
    \/ Handles \/ HandlesStray \/ Closes \/ Leaves \/ Evicted \/ Trimmed
    \/ \E had \in BOOLEAN : Connects(had)
    \/ \E n \in 1..MaxRevisions : PublishesView(n)
    \/ PageHears \/ PageReturns

Next == RuntimeNext \/ RoomNext

Spec == Init /\ [][Next]_vars

-----------------------------------------------------------------------------
(* Properties *)

\* Nothing is on its way, and the Runtime has the stream that the room has.
Quiet ==
    /\ hand = [g \in Goroutines |-> None] /\ queue = None /\ flight = None /\ stray = None
    /\ wire = <<>> /\ room.connected /\ stream = room.n

\* When nothing is on its way the room has what the Runtime does, unless a change was lost or
\* handed over late: a new stream repairs that while the Runtime is at work, and only then.
RoomKnows == Quiet /\ ~amiss => memory = acts

\* And the page shows what the room has, unless the room changed it and told nobody.
PageKnows == wire = <<>> /\ ~unsaid => page.act = memory /\ page.view = view

\* A view the Agent was told is published stays, over evictions and the departure of the
\* Agent, until its Task goes.
ViewStays == task => view >= told

PagesShowTheAgent == RoomKnows /\ PageKnows /\ ViewStays
=============================================================================
