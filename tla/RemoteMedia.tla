----------------------------- MODULE RemoteMedia -----------------------------
(***************************************************************************)
(* What one browser receives of one other participant: its track           *)
(* (RemoteTracks) or its data channel (RemoteChannels).  They are          *)
(* requested independently; a behaviour is one of the module that `what`   *)
(* tells, and what both modules have is one variable here.                 *)
(***************************************************************************)
EXTENDS Integers, FiniteSets, Sequences

CONSTANTS
    HumanAttempts, AgentAttempts, ChannelAttempts,  \* how often a request is made
    TrackFaults, ChannelFaults, MaxFrames, MaxOps   \* bounds

ASSUME OpsAreCounted == MaxOps \in Nat

VARIABLES
    what,           \* `kind` of RemoteTracks, or `lane` of RemoteChannels
    media, listener, browser, control, toBrowser, toRoom, view, served, faults, givenUp,
    \* RemoteTracks
    live, carried, pubs, marked, bindings, retries, negotiations, stream, acked, unseen,
    \* RemoteChannels
    source, ops, owner, retry, overtaken

both == <<what, media, listener, browser, control, toBrowser, toRoom, view, served, faults, givenUp>>
trackVars == <<live, carried, pubs, marked, bindings, retries, negotiations, stream, acked, unseen>>
channelVars == <<source, ops, owner, retry, overtaken>>
mediavars == <<both, trackVars, channelVars>>

Tracks == INSTANCE RemoteTracks WITH
    kind <- what, page <- browser, socket <- control, down <- toBrowser, up <- toRoom,
    ready <- served, published <- pubs, queue <- negotiations, MaxFaults <- TrackFaults

Channels == INSTANCE RemoteChannels WITH
    lane <- what, page <- browser, socket <- control, down <- toBrowser, up <- toRoom,
    ready <- served, Attempts <- ChannelAttempts, MaxFaults <- ChannelFaults

OfTrack == what \in {"human", "agent"}

Unused == "unused"

MediaInit ==
    \/ /\ Tracks!Init
       /\ source = Unused /\ ops = Unused /\ owner = Unused /\ retry = Unused /\ overtaken = Unused
    \/ /\ Channels!Init
       /\ live = Unused /\ carried = Unused /\ pubs = Unused /\ marked = Unused
       /\ bindings = Unused /\ retries = Unused /\ negotiations = Unused /\ stream = Unused
       /\ acked = Unused /\ unseen = Unused

MediaNext ==
    \/ OfTrack /\ Tracks!Next /\ UNCHANGED channelVars
    \/ ~OfTrack /\ Channels!Next /\ UNCHANGED trackVars

MediaProgress ==
    \/ OfTrack /\ Tracks!Progress /\ UNCHANGED channelVars
    \/ ~OfTrack /\ Channels!Progress /\ UNCHANGED trackVars

MediaSpec == MediaInit /\ [][MediaNext]_mediavars /\ WF_mediavars(MediaProgress)

-----------------------------------------------------------------------------
(* Properties, which the modules explain *)

\* Types of the module at work
MediaTypeOK == IF OfTrack THEN Tracks!TypeOK ELSE Channels!TypeOK

\* RemoteTracks: an Agent is told to speak only to whom it was negotiated.
\* RemoteChannels: a lane holds no channel but its own.
WhatWasNegotiated == IF OfTrack THEN Tracks!ReadyWasNegotiated ELSE Channels!LaneIsOurs

\* OfferedIsHeard of RemoteTracks, ReachableIsJoined of RemoteChannels: what stays
\* offered is received in the end.
Offered == IF OfTrack THEN Tracks!Offered ELSE Channels!Reachable
Received == IF OfTrack THEN Tracks!Heard ELSE Channels!Served
OfferedIsReceived == <>[]Offered => <>[]Received

\* RemoteTracks: the room learns that an Agent is heard.
Voiced == what = "agent" /\ Tracks!Offered
VoiceIsReady == <>[]Voiced => <>[](~OfTrack \/ media.ready \/ Tracks!Excused)
=============================================================================
