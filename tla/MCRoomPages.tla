----------------------------- MODULE MCRoomPages -----------------------------
(***************************************************************************)
(* What the pages of a room begin and what becomes of it, for TLC: a Task  *)
(* on a conversation that the Agent has, the dialog for it, the curated    *)
(* Apps, and the microphone or the screen of a Human.  A behaviour is one  *)
(* of the module that `part` names, the variables that TaskSessions and    *)
(* TaskStarts have under one name are its, and the state space is the sum  *)
(* of the four.                                                            *)
(***************************************************************************)
EXTENDS TaskSessions, RoomAppHosts, TLC

CONSTANTS h1, h2, t1, t2, recent, project, a1

VARIABLES
    part,
    faults,     \* bound: what went wrong so far
    \* TaskStarts, besides created, slot, down and up
    dialog, picker, req, waiting, socket, posts, discards, store, ask, unheard, left, carried,
    \* LocalMedia
    kind, capture, held, start, page, timer, mids, queue, ws, signals, late, closing, room, slips

both == <<created, slot, down, up>>
svars == <<known, warm, brief, human, busy, adoption, declined, seen, admitting, scope, asks, streams,
           continued, armed, withBrief, claims, forgotten>>
dvars == <<dialog, picker, req, waiting, socket, posts, discards, store, ask, unheard, left, carried>>
lvars == <<kind, capture, held, start, page, timer, mids, queue, ws, signals, late, closing, room, slips>>
allvars == <<part, faults, both, svars, dvars, hostvars, lvars>>

\* The Human whose browser chose the Tasks
TaskOwner == [t \in Tasks |-> h1]

\* Each request to an App stands for the other, and so does each App that is not asked.
Symmetry == Permutations(Requests) \cup Permutations(Apps \ {a1})

Starts == INSTANCE TaskStarts WITH
    pending <- waiting, Views <- {recent, project}, Recent <- recent,
    MaxRequests <- 3, MaxBriefs <- 1, MaxSockets <- 2, MaxFaults <- 2

\* The order of the ids of the participants
OrderOfIds == [h \in {h1, h2} |-> IF h = h1 THEN 1 ELSE 2]

Own == INSTANCE LocalMedia WITH
    socket <- ws, up <- signals,
    Captures <- 2, Attempts <- 5, MaxStops <- 2, MaxFaults <- 3, MaxFrames <- 1

PagesInit ==
    /\ part \in {"sessions", "starts", "hosts", "own"}
    /\ Init /\ Starts!Init /\ HostsInit /\ Own!Init
    /\ \A r \in Requests : call[r].app = a1
    /\ kind = "mic" \/ part = "own"

-----------------------------------------------------------------------------
(* Bounds *)

Flag(b) == IF b THEN 1 ELSE 0

\* One thing goes wrong in an attempt to start t1, besides the frames that are lost with
\* it and a registry that is cold once: the first socket and the first stream count as
\* well, hence three.  t2 is the Task another request of the same Human makes without
\* preparation.
SessionBound ==
    /\ brief' \subseteq {t1}
    /\ (human[h1].nonce + streams + Flag(~human[h1].open)
        + Flag(adoption # None /\ adoption.late) + Cardinality(declined \cup forgotten))' <= 3
    /\ (human[h1].ask # None => human[h1].ask.task # t2)'
    /\ t2 \in known' => t1 \in created' /\ down' = <<>>
    /\ warm /\ ~warm' => created # {}

\* At most two things go wrong with the curated Apps.
Failing == faults < 2 /\ faults' = faults + 1

\* Both requests are to a1.  The page of h2 has a1 only, one connection and no chat; no
\* more than two frames are on their way to the room.  A behaviour has either a chat or
\* requests.
Chatting == chat # "none" \/ \E i \in 1..Len(frames[h1]) : frames[h1][i].kind = "chat"
HostBound ==
    /\ host'[h2].ready \subseteq {a1} /\ sockets'[h2].nonce = 1
    /\ (Len(frames[h1]) + Len(frames[h2]))' <= 2
    /\ \A i \in 1..Len(frames'[h2]) : frames'[h2][i].kind # "chat"
    /\ Chatting' => \A r \in Requests : call'[r].at = "idle"

\* A third thing goes wrong with the microphone or the screen only of a page that has
\* no session, which takes a denial if it has joined.
OwnBound == faults' = faults \/ faults < 2 \/ page.session = "none"

PagesNext ==
    /\ UNCHANGED part
    /\ \/ part = "sessions" /\ Next /\ SessionBound /\ UNCHANGED <<faults, dvars, hostvars, lvars>>
       \/ part = "starts" /\ Starts!Next /\ UNCHANGED <<svars, hostvars, lvars>>
       \/ /\ part = "hosts" /\ UNCHANGED <<both, svars, dvars, lvars>>
          /\ (HostSteps /\ UNCHANGED faults) \/ (HostEnds /\ Failing)
          /\ HostBound
       \/ part = "own" /\ Own!Next /\ OwnBound /\ UNCHANGED <<both, svars, dvars, hostvars>>

PagesSpec == PagesInit /\ [][PagesNext]_allvars

\* For the run that looks for one behaviour of the curated Apps.
OneHost ==
    /\ PagesInit /\ part = "hosts"
    /\ [][/\ HostSteps /\ UNCHANGED <<part, faults, both, svars, dvars, lvars>> /\ HostBound
          /\ call' = call /\ chat' = "none" /\ host'[h2] = host[h2]]_allvars

-----------------------------------------------------------------------------
(* Properties, which the modules explain; StartStays is that of            *)
(* TaskSessions, ChatSeesItsApp, AskedHosts and ReadyIsCallable those of   *)
(* RoomAppHosts.                                                           *)

\* TypeOK of the module at work
TypesOK ==
    CASE part = "sessions" -> TypeOK
      [] part = "starts" -> Starts!TypeOK
      [] part = "hosts" -> HostsTypeOK
      [] part = "own" -> Own!TypeOK

\* TaskStarts: what the dialog tells of a start is so, a start that failed leaves no
\* brief in the room, and the conversations on show are those of the chosen view.
DialogIsTrue ==
    part = "starts" => Starts!StartIsTrue /\ Starts!NoBriefIsLeft /\ Starts!RowsAreOfTheView

\* LocalMedia: what the room tells the others of a Human's microphone or screen is what
\* the page captures, and it captures nothing that nobody can stop.
HumanIsShown == Own!MuteIsTrue /\ Own!ShownIsHeld /\ Own!CaptureIsOwned
=============================================================================
