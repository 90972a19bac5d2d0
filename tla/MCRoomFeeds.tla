---------------------------- MODULE MCRoomFeeds ----------------------------
(***************************************************************************)
(* What flows through a room, for TLC: the events of an Agent, the Live    *)
(* Transcript, texts and files, and what an Agent shows of itself.  A      *)
(* behaviour is one of the module that `part` names, the variables that    *)
(* two modules have under one name are its, and the state space is the sum *)
(* of the parts.                                                           *)
(***************************************************************************)
EXTENDS MCAgentEventStream, LiveTranscriptLog, Surfaces

CONSTANTS ra, rb, rc, sa, sb, u1, u2

VARIABLES
    part,
    \* FileMessages
    log, faults, inTask, agent, draft, send, queue, channel, wire, incoming, mine, theirs, saw, lost,
    \* AgentProjections, besides wire and faults
    acts, turns, hand, queued, flight, stray, stream, place, memory, task, view, told,
    page, amiss, unsaid

shared == <<log, wire, faults>>
filevars == <<inTask, agent, draft, send, queue, channel, incoming, mine, theirs, saw, lost>>
agentvars == <<acts, turns, hand, queued, flight, stray, stream, place, memory, task, view,
               told, page, amiss, unsaid>>
feedvars == <<part, vars, shared, transcriptvars, filevars, agentvars, surfacevars>>

\* The Runtime Hosts
OnHost == [r \in {ra, rb, rc} |-> IF r = rc THEN "h2" ELSE "h1"]

Composer == INSTANCE FileMessages WITH
    MaxSends <- 2, Parts <- 1, MaxLog <- 3, MaxFaults <- 1

Agent == INSTANCE AgentProjections WITH
    queue <- queued, room <- place, MaxTurns <- 2, MaxStreams <- 2, MaxRevisions <- 2,
    MaxFrames <- 1, MaxFaults <- 1

\* The transcript is explored with two residents of one Host, or one of each, and with
\* one resident whose segments are read.
FeedsInit ==
    /\ Init /\ SpeechInit /\ Composer!Init /\ Agent!Init /\ SurfacesInit
    /\ \/ part \in {"events", "agent", "surfaces"} /\ members = {ra} /\ ~inTask /\ ~agent
       \/ part = "files" /\ members = {ra} /\ ~(inTask /\ agent)
       \/ part = "speech" /\ members \in {{ra, rb}, {ra, rc}} /\ ~inTask /\ ~agent
       \/ part = "readers" /\ members = {ra} /\ ~inTask /\ ~agent

-----------------------------------------------------------------------------
(* Bounds *)

\* The second turn without faults and on one stream; the live view and the activities
\* meet in one revision and one turn.
AgentBound ==
    /\ Cardinality({g \in Agent!Goroutines : hand'[g] # None}) <= 2
    /\ view' > 0 => turns' = 0 \/ (faults' = 0 /\ turns' = 1 /\ view' = 1)
    /\ turns' = 2 => faults' = 0 /\ place'.n = 1
    /\ hand'["bridge"] # None => turns' = 1 /\ faults' = 0
    /\ faults' = 1 => hand'["reader"] = None

\* At most two states on their way to a resident and three in all; what else changes comes
\* alone, before what may be lost.  Of two residents ra hears one utterance; what is read
\* are two, one after the other, of a resident that stays, with one state on its way.
SpeechBound ==
    /\ \A r \in Transcribers : Len(feed'[r]) <= (IF part = "speech" THEN 2 ELSE 1)
    /\ Len(feed'[ra]) + Len(feed'[rb]) + Len(feed'[rc]) <= 3
    /\ \A r \in Transcribers : Refreshes(r) => part = "speech" /\ feed[r] = <<>> /\ losses = 0
    /\ part = "readers" => UNCHANGED streams
    /\ part = "speech" => spoken'[1].by \in {ra, Nobody} /\ spoken'[2] = Unsaid
    /\ spoken'[2] # Unsaid => spoken'[1].step = "done"

\* At most two frames on their way.  One message of somebody else, before what may fail.
\* In a Task it does not matter whether there is an Agent.
FileBound ==
    /\ Len(wire') <= 2
    /\ Cardinality({n \in DOMAIN log' : log'[n].kind = "other"}) <= 1
    /\ faults > 0 => ~Composer!Other
    /\ inTask => UNCHANGED agent

\* One fault, and none once there are two images and sb, or an upload has put the record
\* back.  One state is on its way at a time.  u1 carries images and u2 what is not of sa; sb
\* changes only when an upload ends.
SurfaceBound ==
    /\ Len(notices') <= 1
    /\ (taken' > 1 /\ sb \in entered') \/ undone' => faults' = 0
    /\ body'[u1].at = "body" => body'[u1].by \in Publishers
    /\ body'[u2].at = "body" => body'[u2].by # sa
    /\ board'[sb] = board[sb] \/ sb \notin entered \/ body' # body

FeedsNext ==
    /\ UNCHANGED part
    /\ \/ /\ part = "events" /\ Next /\ OneRuntime
          /\ UNCHANGED <<shared, transcriptvars, filevars, agentvars, surfacevars>>
       \/ /\ part = "speech" /\ SpeechNext /\ SpeechBound /\ UNCHANGED readervars
          /\ UNCHANGED <<vars, shared, filevars, agentvars, surfacevars>>
       \/ /\ part = "readers" /\ SpeechNext /\ SpeechBound
          /\ UNCHANGED <<vars, shared, filevars, agentvars, surfacevars>>
       \/ /\ part = "files" /\ Composer!Next /\ FileBound
          /\ UNCHANGED <<vars, transcriptvars, agentvars, surfacevars>>
       \/ /\ part = "agent" /\ Agent!Next /\ AgentBound
          /\ UNCHANGED <<vars, log, transcriptvars, filevars, surfacevars>>
       \/ /\ part = "surfaces"
          /\ (SurfaceSteps /\ UNCHANGED faults) \/ (SurfaceFaults /\ faults = 0 /\ faults' = 1)
          /\ SurfaceBound /\ UNCHANGED <<vars, log, wire, transcriptvars, filevars, agentvars>>

FeedsSpec == FeedsInit /\ [][FeedsNext]_feedvars

\* The transcript alone
SpokenSpec == FeedsInit /\ part = "speech" /\ [][FeedsNext]_feedvars

-----------------------------------------------------------------------------
(* Properties, which the modules explain; the others of the runs are those *)
(* of AgentEventStream, LiveTranscriptLog and Surfaces.                    *)

\* TypeOK of the five modules
TypesOK ==
    /\ TypeOK
    /\ part \in {"speech", "readers"} => SpeechTypeOK
    /\ part = "files" => Composer!TypeOK
    /\ part = "agent" => Agent!TypeOK
    /\ part = "surfaces" => SurfacesTypeOK

\* FileMessages: a text follows the file it was sent with, what is sent in a Task wakes
\* its Agent once, and a file that was sent is in both timelines, in its place.
SubmissionsArrive == part = "files" => Composer!SubmissionIsWhole /\ Composer!FilesAreShown

\* AgentProjections: the pages show what the Agent does, and a published view stays.
PagesShowTheAgent == part = "agent" => Agent!PagesShowTheAgent
=============================================================================
