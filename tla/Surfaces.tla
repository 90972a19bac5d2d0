------------------------------ MODULE Surfaces ------------------------------
(***************************************************************************)
(* The workspace snapshots of Agents: an Agent publishes, replaces or      *)
(* clears one image, which the room keeps in chunks of storage, and a page *)
(* reads the image that the state of the room names (do/RoomSession.ts,    *)
(* do/surface.ts, components/WorkspaceSnapshots.tsx).                      *)
(*                                                                         *)
(* An upload loads the record of the room, waits for the body of its       *)
(* request and saves the record it loaded; so does the upload of an        *)
(* attachment.  Other requests are handled while it waits.                 *)
(***************************************************************************)
EXTENDS Integers, FiniteSets, Sequences

CONSTANTS
    Publishers,      \* the Agents
    Visitor,         \* whoever uploads an attachment
    Bodies,          \* requests with a body: images of Agents, and attachments
    Pieces,          \* SURFACE_CHUNK_SIZE: chunks of an image
    MaxSurfaces,     \* MAX_ACTIVE_AGENT_SURFACES
    MaxSnapshots     \* bound: images published

VARIABLES
    board,      \* board[a]: the Agent a in the record of the room, and its surface
    entered,    \* the Agents that have registered
    stored,     \* the chunks in storage, each with its snapshotId
    taken,      \* snapshotIds given so far
    body,       \* body[u]: the record that the request u loaded before its body came
    notices,    \* states of the room on their way to the page
    screen,     \* the page: its socket, the state it has, the images it shows
    reads,      \* its requests for images, and what they are answered with
    retired,    \* history: images that were replaced or cleared, or left with their Agent
    undone,     \* history: the upload of an attachment has put the record back
    unread      \* history: surfaces whose image did not reach it, or was refused before it came back

surfacevars == <<board, entered, stored, taken, body, notices, screen, reads, retired, undone, unread>>

Snapshots == 1..MaxSnapshots
NoImage == 0                    \* no surface, no bytes
Boards == [Publishers -> [here : BOOLEAN, surface : 0..MaxSnapshots]]
Awaiting == [at : {"idle"}] \cup [at : {"body"}, by : Publishers \cup {Visitor}, seen : Boards]

ASSUME SurfaceConstantsFit ==
    /\ IsFiniteSet(Publishers) /\ Visitor \notin Publishers
    /\ Pieces \in Nat \ {0} /\ MaxSurfaces \in Nat /\ MaxSnapshots \in Nat

SurfacesTypeOK ==
    /\ board \in Boards /\ entered \subseteq Publishers
    /\ stored \subseteq Snapshots \X (1..Pieces)
    /\ taken \in 0..MaxSnapshots
    /\ body \in [Bodies -> Awaiting]
    /\ notices \in Seq(Boards)
    /\ screen \in [open : BOOLEAN, board : Boards, shown : SUBSET (Publishers \X Snapshots \X Snapshots)]
    /\ reads \subseteq Publishers \X Snapshots \X (0..MaxSnapshots)
    /\ retired \subseteq Snapshots /\ undone \in BOOLEAN
    /\ unread \subseteq Publishers \X Snapshots

SurfacesInit ==
    /\ board = [a \in Publishers |-> [here |-> FALSE, surface |-> NoImage]]
    /\ entered = {} /\ stored = {} /\ taken = 0
    /\ body = [u \in Bodies |-> [at |-> "idle"]]
    /\ notices = <<>> /\ reads = {}
    /\ screen = [open |-> TRUE, board |-> board, shown |-> {}]
    /\ retired = {} /\ undone = FALSE /\ unread = {}

-----------------------------------------------------------------------------
(* The room *)

HasSurface(b, a) == b[a].surface # NoImage
Showing(b) == {a \in Publishers : HasSurface(b, a)}
ChunksOf(S, k) == S \X (1..k)
HasChunks(s) == ChunksOf({s}, Pieces) \subseteq stored

\* broadcastState
Tell(b) == notices' = IF screen.open THEN Append(notices, b) ELSE notices

RoomKept == UNCHANGED <<board, entered, stored, taken, body, retired, undone>>
PageKept == UNCHANGED <<notices, screen, reads, unread>>

\* agent-register, with a fresh participantId
Enter(a) ==
    /\ a \notin entered
    /\ entered' = entered \cup {a}
    /\ board' = [board EXCEPT ![a] = [here |-> TRUE, surface |-> NoImage]]
    /\ Tell(board')
    /\ UNCHANGED <<stored, taken, body, screen, reads, retired, undone, unread>>

\* What handleSurfaceUpload and handleAttachmentUpload do before the body has come
BeginBody(u, who) ==
    /\ body[u].at = "idle"
    /\ who \in Publishers => board[who].here
    /\ body' = [body EXCEPT ![u] = [at |-> "body", by |-> who, seen |-> board]]
    /\ UNCHANGED <<board, entered, stored, taken, retired, undone>> /\ PageKept

\* evaluateSurfacePublish, of the record that was loaded
MayShow(b, a) == HasSurface(b, a) \/ Cardinality(Showing(b) \ {a}) < MaxSurfaces

\* An upload of an Agent has its body and goes on.
Proceeds(u) ==
    /\ body[u].at = "body" /\ body[u].by \in Publishers
    /\ MayShow(body[u].seen, body[u].by)
    /\ taken < MaxSnapshots /\ taken' = taken + 1

Ends(u) == body' = [body EXCEPT ![u] = [at |-> "idle"]]

\* Mutant: the record is read again.
SwappedAfresh(u) == [board EXCEPT ![body[u].by].surface = taken']

\* The record with the new surface
Swapped(u) == [body[u].seen EXCEPT ![body[u].by].surface = taken']
Before(u) == body[u].seen[body[u].by].surface

\* handleSurfaceUpload from the body on: the chunks, the record, and then the chunks of
\* the surface before, if storage deletes them.
PublishSurface(u) ==
    /\ Proceeds(u) /\ Ends(u)
    /\ board' = Swapped(u) /\ retired' = retired \cup ({Before(u)} \ {NoImage})
    /\ \E gone \in {{}, ChunksOf({Before(u)}, Pieces)} :
        stored' = (stored \cup ChunksOf({taken'}, Pieces)) \ gone
    /\ Tell(board')
    /\ UNCHANGED <<entered, screen, reads, undone, unread>>

\* Refused by evaluateSurfacePublish or for the size of the body
Refused(u) ==
    /\ body[u].at = "body"
    /\ Ends(u)
    /\ UNCHANGED <<board, entered, stored, taken, retired, undone>> /\ PageKept

\* Mutant: the record is saved before the chunks.
PointsFirst(u) ==
    /\ Proceeds(u) /\ Ends(u)
    /\ board' = Swapped(u)
    /\ \E k \in 0..Pieces : stored' = stored \cup ChunksOf({taken'}, k)
    /\ UNCHANGED <<entered, retired, undone>> /\ PageKept

\* A chunk or the record is not saved; the chunks that are may stay.
PublishFails(u) ==
    /\ Proceeds(u) /\ Ends(u)
    /\ \E k \in 0..Pieces : stored' = stored \cup ChunksOf({taken'}, k)
    /\ UNCHANGED <<board, entered, retired, undone>> /\ PageKept

\* handleAttachmentUpload from the body on: it tells the pages of the attachment only.
Attach(u) ==
    /\ body[u].at = "body" /\ body[u].by = Visitor
    /\ Ends(u)
    /\ board' = body[u].seen
    /\ undone' = (undone \/ board' # board)
    /\ UNCHANGED <<entered, stored, taken, retired>> /\ PageKept

\* The surface of a, if it has one, goes, and its chunks do if storage deletes them.
Withdraws(a) ==
    /\ retired' = retired \cup ({board[a].surface} \ {NoImage})
    /\ \E gone \in {{}, ChunksOf({board[a].surface}, Pieces)} : stored' = stored \ gone

\* agent-clear-surface
ClearSurface(a) ==
    /\ board[a].here
    /\ board' = [board EXCEPT ![a].surface = NoImage]
    /\ Withdraws(a) /\ Tell(board')
    /\ UNCHANGED <<entered, taken, body, screen, reads, undone, unread>>

\* agent-leave, and the alarm when the lease of a has ended
Leave(a) ==
    /\ board[a].here
    /\ board' = [board EXCEPT ![a] = [here |-> FALSE, surface |-> NoImage]]
    /\ Withdraws(a) /\ Tell(board')
    /\ UNCHANGED <<entered, taken, body, screen, reads, undone, unread>>

\* expireRoom: nobody is in the room, and what is stored goes.
ExpireSurfaces ==
    /\ ~screen.open /\ \A a \in Publishers : ~board[a].here
    /\ stored' = {} /\ retired' = retired \cup 1..taken
    /\ UNCHANGED <<board, entered, taken, body, undone>> /\ PageKept

-----------------------------------------------------------------------------
(* The end of an instance of the Durable Object: the requests under way and the sockets *)

\* Between two requests; with PublishSurface, PublishFails, ClearSurface or Leave before it, between two
\* of their writes
InstanceDies ==
    /\ body' = [u \in Bodies |-> [at |-> "idle"]]
    /\ screen' = [screen EXCEPT !.open = FALSE] /\ notices' = <<>>
    /\ UNCHANGED <<board, entered, stored, taken, retired, undone, reads, unread>>

-----------------------------------------------------------------------------
(* The page *)

SurfaceKeys(b) == {<<a, b[a].surface>> : a \in Showing(b)}
KeyOf(x) == <<x[1], x[2]>>

\* WorkspaceSnapshots with the state b: images of other surfaces go; when a surface is
\* another, requests under way are cancelled and the images it has not are asked for.
Renders(b, missing) ==
    LET shown == {x \in screen.shown : KeyOf(x) \in SurfaceKeys(b)}
    IN  /\ screen' = [open |-> TRUE, board |-> b, shown |-> shown]
        /\ IF SurfaceKeys(b) = SurfaceKeys(screen.board)
           THEN unread' = unread \cup missing /\ UNCHANGED reads
           ELSE /\ reads' = {<<k[1], k[2], NoImage>> : k \in SurfaceKeys(b) \ {KeyOf(x) : x \in shown}}
                /\ unread' = {}

TakeNotice ==
    /\ notices # <<>>
    /\ Renders(Head(notices), {}) /\ notices' = Tail(notices)
    /\ RoomKept

\* Mutant: the room answers with the surface that the Agent has.
ServedPresent(x) == board[x[1]].surface

\* agent-read-surface: the image of the very snapshot that was asked for
Served(x) ==
    IF board[x[1]].surface = x[2] /\ HasChunks(x[2]) THEN x[2] ELSE NoImage

\* The room answers a request; one that it refuses, or whose answer is lost, is not
\* repeated.
Answered(x) ==
    /\ x \in reads /\ x[3] = NoImage
    /\ reads' = (reads \ {x}) \cup (IF Served(x) = NoImage THEN {} ELSE {<<x[1], x[2], Served(x)>>})
    /\ UNCHANGED <<notices, screen, unread>> /\ RoomKept

ReadLost(x) ==
    /\ x \in reads
    /\ reads' = reads \ {x} /\ unread' = unread \cup {KeyOf(x)}
    /\ UNCHANGED <<notices, screen>> /\ RoomKept

TakeImage(x) ==
    /\ x \in reads /\ x[3] # NoImage
    /\ reads' = reads \ {x}
    /\ screen' = [screen EXCEPT !.shown = @ \cup {x}]
    /\ UNCHANGED <<notices, unread>> /\ RoomKept

PageLeaves ==
    /\ screen.open
    /\ screen' = [screen EXCEPT !.open = FALSE] /\ notices' = <<>>
    /\ UNCHANGED <<reads, unread>> /\ RoomKept

\* Surfaces whose image the page has neither got nor asks for
Missing == SurfaceKeys(screen.board) \ {KeyOf(x) : x \in screen.shown \cup reads}

\* Its socket opens with the state of the room.
PageReturns ==
    /\ ~screen.open
    /\ Renders(board, Missing) /\ notices' = <<>>
    /\ RoomKept

SurfaceSteps ==
    \/ \E a \in Publishers : Enter(a) \/ ClearSurface(a) \/ Leave(a)
    \/ \E u \in Bodies :
        \/ \E who \in Publishers \cup {Visitor} : BeginBody(u, who)
        \/ PublishSurface(u) \/ Refused(u) \/ Attach(u)
    \/ ExpireSurfaces \/ TakeNotice \/ PageReturns
    \/ \E x \in reads : Answered(x) \/ TakeImage(x)

\* What fails, is lost or closes
SurfaceFaults ==
    \/ \E u \in Bodies : PublishFails(u)
    \/ InstanceDies \/ PageLeaves
    \/ \E x \in reads : ReadLost(x)

SurfacesNext == SurfaceSteps \/ SurfaceFaults

SurfacesSpec == SurfacesInit /\ [][SurfacesNext]_surfacevars

-----------------------------------------------------------------------------
(* Properties *)

\* A surface in the record has all its chunks, wherever a publication fails or the
\* instance ends between its writes; only one that its Agent had given up, and that an
\* upload has put back, may have lost them.
SurfacesAreWhole ==
    \A a \in Showing(board) : HasChunks(board[a].surface) \/ board[a].surface \in retired

\* No more Agents than MAX_ACTIVE_AGENT_SURFACES have a surface, although each upload
\* counts those of a record that is older than the one it replaces.
SurfacesBounded == Cardinality(Showing(board)) <= MaxSurfaces

\* The page shows no other image than that of the snapshot it names, and no image of a
\* surface that it was told is gone.  When nothing is on its way, it shows each surface of
\* the record but those above, and those whose answer did not reach it; the upload of an
\* attachment that puts the record back tells no page.
SurfacesAreShown ==
    /\ \A x \in screen.shown : x[3] = x[2] /\ KeyOf(x) \in SurfaceKeys(screen.board)
    /\ (screen.open /\ notices = <<>> /\ reads = {} /\ ~undone) =>
        \A k \in SurfaceKeys(board) : k[2] \in retired \/ k \in unread \/ \E x \in screen.shown : KeyOf(x) = k

\* What the record names can be read and is within the bound, and the page shows it.
SurfacesHold == SurfacesAreWhole /\ SurfacesBounded /\ SurfacesAreShown
=============================================================================
